---------------------------- MODULE AlertConsumer ----------------------------
(***************************************************************************)
(* The notification service's consumer (notification-service/index.js,     *)
(* src/handler.js, src/db.js): every message of the topic disaster-events  *)
(* is matched against the active subscriptions and becomes Notification    *)
(* rows, while users edit and delete their subscriptions and accounts.     *)
(*                                                                         *)
(* KafkaJS is modelled from how the service uses it (one group, automatic  *)
(* commits, eachMessage that throws to be called again): a message counts  *)
(* as read when the handler returns, the offset is committed some time     *)
(* later, a crash or a rebalance resumes at the committed offset, and a    *)
(* consumer that lost its partition may go on for a while.  The topic is   *)
(* one log; its retention is left out.  The reply of the subscription      *)
(* query and the matching are one step: nothing else of this process runs  *)
(* in between.                                                             *)
(***************************************************************************)
EXTENDS Matching, Sequences, FiniteSets, Functions

CONSTANTS Subs, Consumers,
          Events,        \* ids of the events messages carry
          EventOf,       \* what the message of an event says
          Rules,         \* rules users choose
          Garbage,       \* a message that violates the contract
          Nobody,        \* no consumer owns the partition
          NoSub,         \* a null subscriptionId
          MaxTime,       \* bound on the clock
          MaxTopic,      \* bound on the log
          MaxFaults      \* bound on crashes, rebalances and database errors

ASSUME EventOfAssumption == EventOf \in [Events -> EventData]
ASSUME RulesAssumption == Rules \subseteq Rule
ASSUME NamesAssumption ==
  Garbage \notin Events /\ Nobody \notin Consumers /\ NoSub \notin Subs
ASSUME BoundsAssumption == {MaxTime, MaxTopic, MaxFaults} \subseteq Nat

VARIABLES
  now,            \* the clock
  users,          \* the accounts that exist
  subs,           \* the rows of AlertSubscription, by id
  used,           \* ids given out so far (history: an id is never reused)
  edited,         \* subscriptions changed since they were created (history)
  notifications,  \* the rows of Notification
  topic,          \* the log
  committed,      \* the offset committed for the group
  owner,          \* the consumer the partition is assigned to
  position,       \* messages each consumer has read; -1 outside the group
  pc,             \* "idle", or "insert" once the rows are built
  built,          \* the rows a consumer is about to insert
  faults          \* crashes, rebalances and database errors so far

dbVars == <<users, subs, used, edited>>
groupVars == <<committed, owner>>
vars == <<now, users, subs, used, edited, notifications, topic, committed,
          owner, position, pc, built, faults>>

Notification ==
  [userId : Users, eventId : Events, subscriptionId : Subs \cup {NoSub}]

Subscription ==
  [user : Users, type : Types \cup {AnyType},
   minSeverity : SubscriptionSeverities, place : Places, radius : Nat,
   active : BOOLEAN, created : Nat]

Row(u, r, a, t) ==
  [user |-> u, type |-> r.type, minSeverity |-> r.minSeverity,
   place |-> r.place, radius |-> r.radius, active |-> a, created |-> t]

Messages == Events \cup {Garbage}

Fault == faults < MaxFaults /\ faults' = faults + 1

-----------------------------------------------------------------------------
Init ==
  /\ now = 0
  /\ users = Users
  /\ subs = [s \in {} |-> 0]
  /\ used = {}
  /\ edited = {}
  /\ notifications = {}
  /\ topic = <<>>
  /\ committed = 0
  /\ owner = Nobody
  /\ position = [c \in Consumers |-> -1]
  /\ pc = [c \in Consumers |-> "idle"]
  /\ built = [c \in Consumers |-> {}]
  /\ faults = 0

Tick ==
  /\ now < MaxTime
  /\ now' = now + 1
  /\ UNCHANGED <<dbVars, notifications, topic, groupVars, position, pc, built, faults>>

\* Producers: messages are sent after the moment their events happened, and
\* may be sent again.  (POST /events accepts a later occurredAt; left out.)
Produce(batch) ==
  /\ \A m \in Range(batch) \cap Events : EventOf[m].at < now
  /\ topic' = topic \o batch
  /\ UNCHANGED <<now, dbVars, notifications, groupVars, position, pc, built, faults>>

-----------------------------------------------------------------------------
(***************************************************************************)
(* The users, through the backend (routes/alerts.routes.js,                *)
(* utils/accountDeletion.js).                                              *)
(***************************************************************************)
CreateSub(s, u, r) ==
  /\ s \notin used
  /\ u \in users
  /\ used' = used \cup {s}
  /\ subs' = [t \in DOMAIN subs \cup {s} |->
                IF t = s THEN Row(u, r, TRUE, now) ELSE subs[t]]
  /\ UNCHANGED <<now, users, edited, notifications, topic, groupVars,
                 position, pc, built, faults>>

\* PATCH /alerts/:id; createdAt stays.
EditSub(s, r, a) ==
  /\ s \in DOMAIN subs
  /\ subs' = [subs EXCEPT ![s] = Row(@.user, r, a, @.created)]
  /\ edited' = edited \cup {s}
  /\ UNCHANGED <<now, users, used, notifications, topic, groupVars,
                 position, pc, built, faults>>

\* onDelete: SetNull on Notification.subscriptionId
DeleteSub(s) ==
  /\ s \in DOMAIN subs
  /\ subs' = Restrict(subs, DOMAIN subs \ {s})
  /\ notifications' =
       {[n EXCEPT !.subscriptionId = IF @ = s THEN NoSub ELSE @] : n \in notifications}
  /\ UNCHANGED <<now, users, used, edited, topic, groupVars, position, pc, built, faults>>

\* onDelete: Cascade on the subscriptions and notifications of the user
DeleteUser(u) ==
  /\ u \in users
  /\ users' = users \ {u}
  /\ subs' = Restrict(subs, {s \in DOMAIN subs : subs[s].user # u})
  /\ notifications' = {n \in notifications : n.userId # u}
  /\ UNCHANGED <<now, used, edited, topic, groupVars, position, pc, built, faults>>

-----------------------------------------------------------------------------
(***************************************************************************)
(* The consumer group.                                                     *)
(***************************************************************************)
Assign(c) ==
  /\ pc[c] = "idle"
  /\ owner # c
  /\ IF owner = Nobody THEN UNCHANGED faults ELSE Fault
  /\ owner' = c
  /\ position' = [position EXCEPT ![c] = committed]
  /\ UNCHANGED <<now, dbVars, notifications, topic, committed, pc, built>>

Commit(c) ==
  /\ owner = c
  /\ committed < position[c]
  /\ committed' = position[c]
  /\ UNCHANGED <<now, dbVars, notifications, topic, owner, position, pc, built, faults>>

\* A crash, or the end of a consumer that lost the partition.
Leave(c) ==
  /\ position[c] >= 0
  /\ IF owner = c THEN Fault ELSE UNCHANGED faults
  /\ owner' = IF owner = c THEN Nobody ELSE owner
  /\ position' = [position EXCEPT ![c] = -1]
  /\ pc' = [pc EXCEPT ![c] = "idle"]
  /\ built' = [built EXCEPT ![c] = {}]
  /\ UNCHANGED <<now, dbVars, notifications, topic, committed>>

-----------------------------------------------------------------------------
(***************************************************************************)
(* handleMessage                                                           *)
(***************************************************************************)
HasNext(c) == position[c] >= 0 /\ position[c] < Len(topic)
Message(c) == topic[position[c] + 1]

Notifying(e) == {s \in DOMAIN subs : ShouldNotify(EventOf[e], subs[s], now)}

\* Which of a user's notifying subscriptions the row can name, whatever the
\* order of the rows (MatchingLoop!WinnerNearlyClosest).
Winners(e, u) ==
  {s \in Notifying(e) :
     /\ subs[s].user = u
     /\ \A t \in Notifying(e) :
          subs[t].user = u =>
            HaversineKm(subs[s].place, EventOf[e].place)
              < HaversineKm(subs[t].place, EventOf[e].place) + 5}

BuildNotifications(e) ==
  LET matched == {subs[s].user : s \in Notifying(e)}
  IN  {{[userId |-> u, eventId |-> e, subscriptionId |-> w[u]] : u \in matched} :
         w \in {f \in [matched -> DOMAIN subs] : \A u \in matched : f[u] \in Winners(e, u)}}

\* A bug to look for: a message that violates the contract is thrown back.
SkipInvalidStuck(c) ==
  /\ pc[c] = "idle"
  /\ HasNext(c)
  /\ Message(c) = Garbage
  /\ UNCHANGED vars

\* An invalid message is logged and counted as handled.
SkipInvalid(c) ==
  /\ pc[c] = "idle"
  /\ HasNext(c)
  /\ Message(c) = Garbage
  /\ position' = [position EXCEPT ![c] = @ + 1]
  /\ UNCHANGED <<now, dbVars, notifications, topic, groupVars, pc, built, faults>>

Match(c) ==
  /\ pc[c] = "idle"
  /\ HasNext(c)
  /\ Message(c) # Garbage
  /\ \E rows \in BuildNotifications(Message(c)) :
       /\ built' = [built EXCEPT ![c] = rows]
       /\ pc' = [pc EXCEPT ![c] = IF rows = {} THEN "idle" ELSE "insert"]
       /\ position' = [position EXCEPT ![c] = IF rows = {} THEN @ + 1 ELSE @]
  /\ UNCHANGED <<now, dbVars, notifications, topic, groupVars, faults>>

\* The foreign keys of the rows still hold.
Referenced(rows) ==
  \A r \in rows : r.userId \in users /\ r.subscriptionId \in DOMAIN subs

\* A bug to look for: the rows inserted without ON CONFLICT.
NewRowsAll(rows) == rows

\* ON CONFLICT ("userId", "eventId") DO NOTHING
NewRows(rows) ==
  {r \in rows : ~ \E n \in notifications : n.userId = r.userId /\ n.eventId = r.eventId}

\* A bug to look for: ON CONFLICT ... DO UPDATE instead of DO NOTHING.
InsertUpdating(c) ==
  /\ pc[c] = "insert"
  /\ Referenced(built[c])
  /\ notifications' =
       {n \in notifications : ~ \E r \in built[c] : n.userId = r.userId /\ n.eventId = r.eventId}
         \cup built[c]
  /\ position' = [position EXCEPT ![c] = @ + 1]
  /\ pc' = [pc EXCEPT ![c] = "idle"]
  /\ built' = [built EXCEPT ![c] = {}]
  /\ UNCHANGED <<now, dbVars, topic, groupVars, faults>>

\* A bug to look for: rows inserted without their foreign keys.
InsertUnchecked(c) ==
  /\ pc[c] = "insert"
  /\ notifications' = notifications \cup NewRows(built[c])
  /\ position' = [position EXCEPT ![c] = @ + 1]
  /\ pc' = [pc EXCEPT ![c] = "idle"]
  /\ built' = [built EXCEPT ![c] = {}]
  /\ UNCHANGED <<now, dbVars, topic, groupVars, faults>>

Insert(c) ==
  /\ pc[c] = "insert"
  /\ Referenced(built[c])
  /\ notifications' = notifications \cup NewRows(built[c])
  /\ position' = [position EXCEPT ![c] = @ + 1]
  /\ pc' = [pc EXCEPT ![c] = "idle"]
  /\ built' = [built EXCEPT ![c] = {}]
  /\ UNCHANGED <<now, dbVars, topic, groupVars, faults>>

\* A bug to look for: the error of one insert swallowed, the message dropped.
InsertRejectedDrops(c) ==
  /\ pc[c] = "insert"
  /\ ~ Referenced(built[c])
  /\ position' = [position EXCEPT ![c] = @ + 1]
  /\ pc' = [pc EXCEPT ![c] = "idle"]
  /\ built' = [built EXCEPT ![c] = {}]
  /\ UNCHANGED <<now, dbVars, notifications, topic, groupVars, faults>>

\* A user or subscription was deleted since the rows were built: the whole
\* statement fails and the message is handled again from the start.
InsertRejected(c) ==
  /\ pc[c] = "insert"
  /\ ~ Referenced(built[c])
  /\ pc' = [pc EXCEPT ![c] = "idle"]
  /\ built' = [built EXCEPT ![c] = {}]
  /\ UNCHANGED <<now, dbVars, notifications, topic, groupVars, position, faults>>

\* The database fails; the statement may have been executed all the same.
InsertFails(c) ==
  /\ pc[c] = "insert"
  /\ Fault
  /\ \/ UNCHANGED notifications
     \/ Referenced(built[c]) /\ notifications' = notifications \cup NewRows(built[c])
  /\ pc' = [pc EXCEPT ![c] = "idle"]
  /\ built' = [built EXCEPT ![c] = {}]
  /\ UNCHANGED <<now, dbVars, topic, groupVars, position>>

-----------------------------------------------------------------------------
Handle(c) ==
  \/ SkipInvalid(c)
  \/ Match(c)
  \/ Insert(c)
  \/ InsertRejected(c)

Account ==
  \/ \E s \in Subs, u \in Users, r \in Rules : CreateSub(s, u, r)
  \/ \E s \in Subs, r \in Rules, a \in BOOLEAN : EditSub(s, r, a)
  \/ \E s \in Subs : DeleteSub(s)
  \/ \E u \in Users : DeleteUser(u)

Consume(c) ==
  \/ Assign(c)
  \/ Commit(c)
  \/ Leave(c)
  \/ Handle(c)
  \/ InsertFails(c)

Next ==
  \/ Tick
  \/ \E n \in 1 .. MaxTopic : \E batch \in [1 .. n -> Messages] :
       Len(topic) + n <= MaxTopic /\ Produce(batch)
  \/ Account
  \/ \E c \in Consumers : Consume(c)

Spec == Init /\ [][Next]_vars

\* The consumer under producers that send as much as they like.
OpenNext ==
  \/ Tick
  \/ \E batch \in Seq(Messages) : Produce(batch)
  \/ Account
  \/ \E c \in Consumers : Consume(c)

OpenSpec == Init /\ [][OpenNext]_vars

(***************************************************************************)
(* The hosting platform restarts the service, the group hands the          *)
(* partition to a live member, and a member that has it keeps calling the  *)
(* handler and committing.                                                 *)
(***************************************************************************)
Fairness ==
  /\ WF_vars(\E c \in Consumers : owner = Nobody /\ Assign(c))
  /\ \A c \in Consumers : WF_vars(Handle(c)) /\ WF_vars(Commit(c))

FairSpec == Spec /\ Fairness

-----------------------------------------------------------------------------
(***************************************************************************)
(* Types, and what a consumer holds while it inserts.                      *)
(***************************************************************************)
TypeOK ==
  /\ now \in 0 .. MaxTime
  /\ users \subseteq Users
  /\ DOMAIN subs \subseteq used
  /\ subs \in [DOMAIN subs -> Subscription]
  /\ used \subseteq Subs
  /\ edited \subseteq used
  /\ notifications \subseteq Notification
  /\ topic \in Seq(Messages)
  /\ committed \in 0 .. Len(topic)
  /\ owner \in Consumers \cup {Nobody}
  /\ position \in [Consumers -> -1 .. Len(topic)]
  /\ pc \in [Consumers -> {"idle", "insert"}]
  /\ built \in [Consumers -> SUBSET Notification]
  /\ faults \in 0 .. MaxFaults
  /\ \A c \in Consumers : pc[c] = "insert" => HasNext(c)

(***************************************************************************)
(* A message delivered twice, or handled by two consumers at once, leaves  *)
(* at most one notification per user and event, also when another          *)
(* subscription of the user matches the second time (ingest.js:13-14,      *)
(* docs/architecture.md "Idempotent consumer").                            *)
(***************************************************************************)
AtMostOnePerUserEvent ==
  \A m, n \in notifications :
    m.userId = n.userId /\ m.eventId = n.eventId => m = n

(***************************************************************************)
(* No alert is missed: once the offset of a message is committed, every    *)
(* subscription that was there before the event and was never edited has   *)
(* its user notified, unless the event is too old by now.  Crashes,        *)
(* rebalances, rejected inserts and database errors in between do not      *)
(* matter (handler.js:5-7, 32-35).                                         *)
(***************************************************************************)
NoMissedAlert ==
  \A k \in 1 .. committed : \A s \in DOMAIN subs \ edited :
    topic[k] \in Events /\ ShouldNotify(EventOf[topic[k]], subs[s], now) =>
      \E n \in notifications : n.userId = subs[s].user /\ n.eventId = topic[k]

(***************************************************************************)
(* A notification belongs to an existing account, and the subscription it  *)
(* names exists, is that account's and was created before the event        *)
(* happened (match.js:61-62), although both are deleted concurrently.      *)
(***************************************************************************)
AlertsAreAnchored ==
  \A n \in notifications :
    /\ n.userId \in users
    /\ n.subscriptionId # NoSub =>
         /\ n.subscriptionId \in DOMAIN subs
         /\ subs[n.subscriptionId].user = n.userId
         /\ subs[n.subscriptionId].created <= EventOf[n.eventId].at

(***************************************************************************)
(* A notification stays as the user first saw it: redelivery neither       *)
(* removes it nor moves it to another subscription (db.js:60-66).          *)
(***************************************************************************)
AlertsStay ==
  [][\A n \in notifications :
       n.userId \in users' =>
         \E m \in notifications' :
           /\ m.userId = n.userId /\ m.eventId = n.eventId
           /\ m.subscriptionId \in {n.subscriptionId, NoSub}]_vars

(***************************************************************************)
(* Every message is eventually handled and committed: an invalid one is    *)
(* skipped, a failing one retried, so the consumer never gets stuck        *)
(* (handler.js:5-7).                                                       *)
(***************************************************************************)
EventuallyHandled ==
  \A k \in 1 .. MaxTopic : k <= Len(topic) ~> k <= committed
=============================================================================
