--------------------------- MODULE MCMatchingLoop ---------------------------
(***************************************************************************)
(* Instance of MatchingLoop: one event place, subscription centres at      *)
(* distances around a rounding boundary (10.00, 10.04 and 10.06 km), one   *)
(* clearly closer (9.90 km) and one outside the radius (10.13 km).         *)
(***************************************************************************)
EXTENDS MatchingLoop

CONSTANTS alice, bob

MCPlaces == {"here", "a", "b", "c", "d", "far"}
MCDistanceFromHere == [here |-> 0, a |-> 1000, b |-> 1004, c |-> 1006, d |-> 990, far |-> 1013]
MCDistance == [pq \in MCPlaces \X MCPlaces |->
                 IF pq[2] = "here" THEN MCDistanceFromHere[pq[1]] ELSE 0]
MCTypes == {"flood", "storm"}

MCRow(u, t, m, p, r, a, c) ==
  [user |-> u, type |-> t, minSeverity |-> m, place |-> p, radius |-> r,
   active |-> a, created |-> c]

MCRows ==
  {MCRow(u, "any", "low", p, 1010, TRUE, 2) : u \in {alice, bob}, p \in MCPlaces \ {"here"}}
    \cup {MCRow(alice, "storm", "low", "a", 1010, TRUE, 2),
          MCRow(alice, "any", "medium", "b", 1010, TRUE, 2),
          MCRow(alice, "flood", "low", "c", 1010, FALSE, 2),
          MCRow(alice, "flood", "low", "b", 1010, TRUE, 3)}

\* Floods at time 2: unrated and medium, fresh, at the age limit and too old.
MCInputs ==
  {[event |-> [type |-> "flood", severity |-> s, place |-> "here", at |-> 2], now |-> n] :
     s \in {"unrated", "medium"}, n \in {2, 4, 5}}
=============================================================================
