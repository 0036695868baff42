---------------------------- MODULE AlertService ----------------------------
(***************************************************************************)
(* What the pipeline promises its users, without feeds, tables, topic or   *)
(* offsets: the service learns of events, tells the accounts that are open *)
(* about some of them, and forgets an account that is closed.  Alerts are  *)
(* counted, and an account that was told of an event is not told of it     *)
(* again: a second alert is no step of this service.                       *)
(***************************************************************************)
EXTENDS Naturals

CONSTANTS Users, Events

VARIABLES open,    \* accounts
          known,   \* events the service knows of
          alerts   \* how often each account was told of each event

vars == <<open, known, alerts>>

Init ==
  /\ open = Users
  /\ known = {}
  /\ alerts = [a \in Users \X Events |-> 0]

Learn(E) ==
  /\ E \subseteq Events \ known
  /\ known' = known \cup E
  /\ UNCHANGED <<open, alerts>>

Alert(e, U) ==
  /\ e \in known
  /\ U \subseteq open
  /\ \A u \in U : alerts[<<u, e>>] = 0
  /\ alerts' = [a \in Users \X Events |->
                  IF a \in U \X {e} THEN alerts[a] + 1 ELSE alerts[a]]
  /\ UNCHANGED <<open, known>>

Close(u) ==
  /\ u \in open
  /\ open' = open \ {u}
  /\ alerts' = [a \in Users \X Events |-> IF a[1] = u THEN 0 ELSE alerts[a]]
  /\ UNCHANGED known

Next ==
  \/ \E E \in SUBSET Events : Learn(E)
  \/ \E e \in Events, U \in SUBSET Users : Alert(e, U)
  \/ \E u \in Users : Close(u)

Spec == Init /\ [][Next]_vars
=============================================================================
