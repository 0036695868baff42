-------------------------- MODULE MCEmailDispatcher --------------------------
(***************************************************************************)
(* Instances of EmailDispatcher.                                           *)
(***************************************************************************)
EXTENDS EmailDispatcher, TLC

CONSTANTS i1, i2

Fresh0 == [exists |-> TRUE, enabled |-> FALSE, disabled |-> FALSE, verified |-> FALSE,
           confirmToken |-> FALSE, consentAt |-> Never, confirmSentAt |-> Never,
           proven |-> FALSE]

\* An account that signed up just now, one whose owner confirmed the address
\* and then left e-mail on or off, and one that has asked for e-mail.
NewAccount == {Fresh0}
Subscribed == {[Fresh0 EXCEPT !.enabled = TRUE, !.verified = TRUE, !.consentAt = 0, !.proven = TRUE]}
Asking == {[Fresh0 EXCEPT !.enabled = TRUE, !.confirmToken = TRUE, !.consentAt = 0]}
AskingOrSubscribed == Asking \cup Subscribed

Absent == {[Fresh0 EXCEPT !.exists = FALSE]}
Anyone == NewAccount \cup Subscribed \cup Absent

\* A new user who asks for e-mail beside a subscriber who may be deleted, with
\* notifications for more deliveries than the limit allows.
AtTheLimit ==
  /\ accounts[1].exists /\ (accounts[1].enabled <=> changes > 0)
  /\ accounts[2].enabled
  /\ ~accounts[1].disabled /\ ~accounts[2].disabled
  /\ now <= 1 /\ faults = 0
  /\ now = 0 \/ Len(made) <= 1 \/ changes <= 1

\* A subscriber alone, for a longer time and with a failure.
WithFailures == ~accounts[1].exists /\ changes = 0 /\ Len(made) <= 1

Scenarios == accounts[2].proven /\ (AtTheLimit \/ WithFailures)

\* Two notifications of an account that does not change, or one of an account that does:
\* only steps that no fairness is assumed of are cut off.
OneKindOfChange == Len(made) <= 1 \/ changes = 0

Symmetry == Permutations(Instances)
=============================================================================
