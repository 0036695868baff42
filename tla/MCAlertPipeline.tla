--------------------------- MODULE MCAlertPipeline ---------------------------
(***************************************************************************)
(* Instances of AlertPipeline: one place, floods at time 1, one rule that  *)
(* matches them all.                                                       *)
(***************************************************************************)
EXTENDS AlertPipeline

CONSTANTS b1, b2, n1, q1, m1, u1, u2, s1, s2, c1, c2

MCPlaces == {"here"}
MCDistance == [pq \in MCPlaces \X MCPlaces |-> 0]
MCTypes == {"flood"}
MCEventOf ==
  [e \in Events |-> [type |-> "flood", place |-> "here", at |-> 1, severity |-> "high"]]
MCRules == {[type |-> "any", minSeverity |-> "low", place |-> "here", radius |-> 100]}

(***************************************************************************)
(* Ids are given out in order, subscriptions are not edited (AlertConsumer *)
(* is checked with edits) and one thing fails, on either side of the topic.*)
(***************************************************************************)
OneFailure ==
  /\ s2 \in used => s1 \in used
  /\ edited = {}
  /\ faults + runFaults <= 1
=============================================================================
