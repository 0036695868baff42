---------------------------- MODULE MatchingLoop ----------------------------
(***************************************************************************)
(* buildNotifications (notification-service/src/match.js) step by step:    *)
(* one pass over the active subscriptions, in whatever order the database  *)
(* returned them, that keeps one candidate row per user.  The reference it *)
(* is checked against is stated declaratively: a user gets a row exactly   *)
(* when one of the user's subscriptions notifies, and the row names the    *)
(* closest of them.                                                        *)
(***************************************************************************)
EXTENDS Matching, Sequences

CONSTANTS SubscriptionRows,  \* rows loadSubscriptions can return
          Inputs             \* events and times the handler is called with

ASSUME RowsAssumption ==
  SubscriptionRows \subseteq
    [user : Users, type : Types \cup {AnyType},
     minSeverity : SubscriptionSeverities, place : Places, radius : Nat,
     active : BOOLEAN, created : Nat]

ASSUME InputsAssumption == Inputs \subseteq [event : EventData, now : Nat]

CONSTANT MaxRows              \* longest list of subscriptions explored
ASSUME MaxRowsAssumption == MaxRows \in Nat

VARIABLES input,          \* the event and the clock of this call
          subscriptions,  \* in the order of the loop
          i,              \* the next one to look at
          byUser          \* the candidate of each user that has one

loopVars == <<input, subscriptions, i, byUser>>

DistanceOf(n) == HaversineKm(subscriptions[n].place, input.event.place)

Notifies(n) == ShouldNotify(input.event, subscriptions[n], input.now)

Seen == 1 .. i - 1

-----------------------------------------------------------------------------
LoopInit ==
  /\ input \in Inputs
  /\ subscriptions \in UNION {[1 .. n -> SubscriptionRows] : n \in 0 .. MaxRows}
  /\ i = 1
  /\ byUser = [u \in {} |-> 0]

Candidate(n) == [sub |-> n, distanceKm |-> RoundToTenth(DistanceOf(n))]

\* A bug to look for: the last match wins.
ReplacesLast(n) == TRUE

\* The exact distance of this row is compared with the rounded distance kept.
Replaces(n) ==
  \/ subscriptions[n].user \notin DOMAIN byUser
  \/ DistanceOf(n) < byUser[subscriptions[n].user].distanceKm

\* A bug to look for: one candidate for all users instead of one per user.
KeepSingle(n) ==
  byUser' = [u \in {subscriptions[n].user} |-> Candidate(n)]

Keep(n) ==
  byUser' = [u \in DOMAIN byUser \cup {subscriptions[n].user} |->
               IF u = subscriptions[n].user THEN Candidate(n) ELSE byUser[u]]

Step ==
  /\ i <= Len(subscriptions)
  /\ IF Notifies(i) /\ Replaces(i) THEN Keep(i) ELSE UNCHANGED byUser
  /\ i' = i + 1
  /\ UNCHANGED <<input, subscriptions>>

\* The loop ends; its result stays.
Return == i > Len(subscriptions) /\ UNCHANGED loopVars

LoopNext == Step \/ Return

LoopSpec == LoopInit /\ [][LoopNext]_loopVars

-----------------------------------------------------------------------------
(***************************************************************************)
(* The rows and the position have their types.                             *)
(***************************************************************************)
LoopTypeOK ==
  /\ input \in Inputs
  /\ subscriptions \in Seq(SubscriptionRows)
  /\ i \in 1 .. Len(subscriptions) + 1
  /\ DOMAIN byUser \subseteq Users
  /\ \A u \in DOMAIN byUser : byUser[u] \in [sub : 1 .. Len(subscriptions), distanceKm : Nat]

(***************************************************************************)
(* A user has a row exactly when one of the user's subscriptions seen so   *)
(* far notifies, and the row names such a subscription (match.js:83-85).   *)
(***************************************************************************)
RowIffMatched ==
  /\ DOMAIN byUser = {subscriptions[n].user : n \in {m \in Seen : Notifies(m)}}
  /\ \A u \in DOMAIN byUser :
       /\ byUser[u].sub \in Seen
       /\ subscriptions[byUser[u].sub].user = u
       /\ Notifies(byUser[u].sub)

(***************************************************************************)
(* The row kept for a user is less than half a tenth of a kilometre        *)
(* farther than any other notifying subscription of that user, whatever    *)
(* the order of the rows and however often the candidate was replaced: the *)
(* error of comparing with a rounded distance does not add up.             *)
(***************************************************************************)
WinnerNearlyClosest ==
  \A u \in DOMAIN byUser : \A n \in Seen :
    subscriptions[n].user = u /\ Notifies(n) =>
      DistanceOf(byUser[u].sub) < DistanceOf(n) + 5
=============================================================================
