----------------------------- MODULE MCLiveFeed -----------------------------
(* One page, two calls of it, and both sources: both sets are symmetric. *)
EXTENDS LiveFeed, TLC

Symmetry == Permutations(Calls) \cup Permutations(Sources)
=============================================================================
