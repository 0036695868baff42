--------------------------- MODULE MCAccountPages ---------------------------
(***************************************************************************)
(* The owner, whose address is on ADMIN_EMAILS, and another person who may *)
(* register either address first.  A run starts with no account, or after  *)
(* the owner became the admin and the other person signed up.              *)
(***************************************************************************)
EXTENDS AccountPages, TLC

Swaps == Permutations(Requests)

MailboxOf == [boss |-> "owner", alice |-> "other"]

Boss == [NewRow("boss", "owner") EXCEPT !.on = TRUE, !.issued = 1, !.verified = TRUE, !.proven = TRUE]
Alice == NewRow("alice", "other")

At(id, row) == [Blank EXCEPT !.cookie = [id |-> id, version |-> 0], !.hint = "in", !.user = PublicOf(id, row)]

Established ==
  /\ users = <<Boss, Alice>> /\ created = 2
  /\ audit = <<>> /\ entries = {} /\ locked = {}
  /\ calls = [r \in Requests |-> Free] /\ ended = {}
  /\ tab = [owner |-> At(1, Boss), other |-> At(2, Alice)]
  /\ waits = [r \in Requests |-> "no"] /\ sent = 1

MCSpec == (PagesInit \/ Established) /\ [][Next]_vars
=============================================================================
