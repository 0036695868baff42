--------------------------- MODULE MCAlertConsumer ---------------------------
(***************************************************************************)
(* Instances of AlertConsumer: a flood at time 0 in the middle of the map. *)
(***************************************************************************)
EXTENDS AlertConsumer, TLC

CONSTANTS u1, u2, s1, s2, s3, c1, c2, e1, e2

MCPlaces == {"here", "near"}
MCDistance == [pq \in MCPlaces \X MCPlaces |-> IF pq[1] = pq[2] THEN 0 ELSE 100]
MCTypes == {"flood"}

MCEventOf ==
  [e \in Events |-> [type |-> "flood", place |-> "here", at |-> 0,
                     severity |-> IF e = e1 THEN "unrated" ELSE "high"]]

MCRule(p, m) == [type |-> "any", minSeverity |-> m, place |-> p, radius |-> 100]
MCRules == {MCRule("here", "low"), MCRule("near", "low")}
MCOneRule == {MCRule("here", "low")}
=============================================================================
