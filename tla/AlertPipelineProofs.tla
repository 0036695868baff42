------------------------ MODULE AlertPipelineProofs ------------------------
(***************************************************************************)
(* Proofs about the notification service and the pipeline it ends.         *)
(*                                                                         *)
(* The consumers (AlertConsumer), under producers that send whatever and   *)
(* as much as they like: one notification per user and event, none missed, *)
(* none that names what is gone, none taken back.  The loop that builds    *)
(* the rows (MatchingLoop), and that its result is one the consumer's step *)
(* Match allows.  The pipeline (AlertPipeline): its steps are steps of the *)
(* outbox and of the consumers, so what is proved of each holds of both    *)
(* together, and it implements the abstract AlertService.                  *)
(***************************************************************************)
EXTENDS AlertPipeline, MatchingLoop, TLAPS, FiniteSetTheorems, SequenceTheorems

\* A function on an initial segment of the naturals is a sequence.
LEMMA FunctionIsSeq ==
  ASSUME NEW S, NEW k \in Nat, NEW f \in [1 .. k -> S]
  PROVE  f \in Seq(S) /\ DOMAIN f = 1 .. k
<1>1. [n \in 1 .. k |-> f[n]] \in Seq(S)
  BY IsASeq
<1>2. f = [n \in 1 .. k |-> f[n]]
  OBVIOUS
<1> QED
  BY <1>1, <1>2

\* A sequence appended to another: what is kept and what is added.
LEMMA Appended ==
  ASSUME NEW S, NEW s \in Seq(S), NEW t \in Seq(S)
  PROVE  /\ s \o t \in Seq(S)
         /\ Range(s \o t) = Range(s) \cup Range(t)
<1>1. /\ s \o t \in Seq(S)
      /\ DOMAIN s = 1 .. Len(s) /\ DOMAIN t = 1 .. Len(t)
      /\ DOMAIN (s \o t) = 1 .. Len(s) + Len(t)
      /\ Len(s \o t) = Len(s) + Len(t)
      /\ Len(s) \in Nat /\ Len(t) \in Nat
      /\ \A k \in 1 .. Len(s) + Len(t) :
           (s \o t)[k] = IF k <= Len(s) THEN s[k] ELSE t[k - Len(s)]
  BY ConcatProperties, LenProperties
<1>2. ASSUME NEW k \in DOMAIN (s \o t)
      PROVE  (s \o t)[k] \in Range(s) \cup Range(t)
  <2>1. CASE k <= Len(s)
    BY <1>1, <2>1 DEF Range
  <2>2. CASE ~ (k <= Len(s))
    <3>1. k - Len(s) \in DOMAIN t
      BY <1>1, <2>2
    <3> QED
      BY <1>1, <2>2, <3>1 DEF Range
  <2> QED
    BY <2>1, <2>2
<1>3. ASSUME NEW k \in DOMAIN s
      PROVE  s[k] \in Range(s \o t)
  BY <1>1 DEF Range
<1>4. ASSUME NEW k \in DOMAIN t
      PROVE  t[k] \in Range(s \o t)
  <2>1. Len(s) + k \in DOMAIN (s \o t) /\ (s \o t)[Len(s) + k] = t[k]
    BY <1>1
  <2> QED
    BY <2>1 DEF Range
<1>5. Range(s \o t) = Range(s) \cup Range(t)
  BY <1>2, <1>3, <1>4 DEF Range
<1> QED
  BY <1>1, <1>5

-----------------------------------------------------------------------------
(***************************************************************************)
(* The consumers.                                                          *)
(***************************************************************************)
USE BoundsAssumption, NamesAssumption

\* The messages of the log, also after one more was produced.
LEMMA MessageFacts ==
  ASSUME TypeOK, NEW c \in Consumers, HasNext(c)
  PROVE  /\ position[c] \in Nat /\ position[c] + 1 \in 1 .. Len(topic)
         /\ Message(c) \in Messages
<1>1. position[c] \in -1 .. Len(topic) /\ Len(topic) \in Nat
  BY LenProperties DEF TypeOK
<1>2. position[c] \in Nat /\ position[c] + 1 \in 1 .. Len(topic)
  BY <1>1 DEF HasNext
<1> QED
  BY <1>2, ElementOfSeq DEF TypeOK, Message

LEMMA Produced ==
  ASSUME TypeOK, NEW batch \in Seq(Messages), Produce(batch)
  PROVE  /\ topic' \in Seq(Messages)
         /\ Len(topic) \in Nat /\ Len(topic') \in Nat /\ Len(topic) <= Len(topic')
         /\ \A k \in 1 .. Len(topic) : topic'[k] = topic[k]
         /\ \A k \in 1 .. Len(topic') : k \in 1 .. Len(topic) \/ topic'[k] \in Range(batch)
<1>1. topic \in Seq(Messages) /\ topic' = topic \o batch
  BY DEF TypeOK, Produce
<1>2. /\ topic' \in Seq(Messages) /\ Len(topic') = Len(topic) + Len(batch)
      /\ Len(topic) \in Nat /\ Len(batch) \in Nat /\ DOMAIN batch = 1 .. Len(batch)
  BY <1>1, ConcatProperties, LenProperties
<1>3. \A k \in 1 .. Len(topic) + Len(batch) :
        topic'[k] = IF k <= Len(topic) THEN topic[k] ELSE batch[k - Len(topic)]
  BY <1>1, ConcatProperties
<1>4. ASSUME NEW k \in 1 .. Len(topic'), k \notin 1 .. Len(topic)
      PROVE  topic'[k] \in Range(batch)
  <2>1. k - Len(topic) \in DOMAIN batch /\ topic'[k] = batch[k - Len(topic)]
    BY <1>2, <1>3, <1>4
  <2> QED
    BY <2>1 DEF Range
<1> QED
  BY <1>2, <1>3, <1>4

LEMMA SubscriptionFacts ==
  ASSUME TypeOK, NEW s \in DOMAIN subs
  PROVE  s \in Subs /\ subs[s].user \in Users /\ subs[s].created \in Nat
<1>1. subs[s] \in Subscription
  BY DEF TypeOK
<1> QED
  BY <1>1 DEF TypeOK, Subscription

\* What buildNotifications returns: rows of one event, one for each user with
\* a notifying subscription, that name such a subscription of the user.
LEMMA BuiltRows ==
  ASSUME TypeOK, NEW e \in Events, NEW made \in BuildNotifications(e)
  PROVE  /\ made \subseteq Notification
         /\ \A r \in made :
              /\ r.eventId = e
              /\ r.subscriptionId \in DOMAIN subs
              /\ subs[r.subscriptionId].user = r.userId
              /\ subs[r.subscriptionId].created <= EventOf[e].at
         /\ \A m, n \in made : m.userId = n.userId => m = n
         /\ \A s \in Notifying(e) : \E r \in made : r.userId = subs[s].user
<1> DEFINE matched == {subs[s].user : s \in Notifying(e)}
           row(u, w) == [userId |-> u, eventId |-> e, subscriptionId |-> w]
<1>1. PICK w \in [matched -> DOMAIN subs] :
        /\ \A u \in matched : w[u] \in Winners(e, u)
        /\ made = {row(u, w[u]) : u \in matched}
  BY DEF BuildNotifications
<1>2. \A u \in matched :
        /\ w[u] \in DOMAIN subs
        /\ subs[w[u]].user = u
        /\ ShouldNotify(EventOf[e], subs[w[u]], now)
  BY <1>1 DEF Winners, Notifying
<1>3. \A u \in matched : u \in Users /\ w[u] \in Subs
  BY <1>2, SubscriptionFacts
<1>4. made \subseteq Notification
  BY <1>1, <1>3 DEF Notification
<1>5. \A u \in matched : subs[w[u]].created <= EventOf[e].at
  BY <1>2 DEF ShouldNotify
<1>6. \A s \in Notifying(e) : row(subs[s].user, w[subs[s].user]) \in made
  BY <1>1
<1>7. \A r \in made : \E u \in matched : r = row(u, w[u])
  BY <1>1
<1>8. \A r \in made :
        /\ r.eventId = e
        /\ r.subscriptionId \in DOMAIN subs
        /\ subs[r.subscriptionId].user = r.userId
        /\ subs[r.subscriptionId].created <= EventOf[e].at
  BY <1>2, <1>5, <1>7
<1>9. \A m, n \in made : m.userId = n.userId => m = n
  BY <1>7
<1>10. \A s \in Notifying(e) : \E r \in made : r.userId = subs[s].user
  BY <1>6
<1> QED
  BY <1>4, <1>8, <1>9, <1>10

\* A deleted subscription leaves its notifications with the user and event.
LEMMA Unlinked ==
  ASSUME TypeOK, NEW s, DeleteSub(s)
  PROVE  /\ \A m \in notifications' :
              /\ m \in Notification
              /\ \E n \in notifications :
                   /\ m.userId = n.userId /\ m.eventId = n.eventId
                   /\ m.subscriptionId = IF n.subscriptionId = s THEN NoSub ELSE n.subscriptionId
         /\ \A n \in notifications : \E m \in notifications' :
              /\ m.userId = n.userId /\ m.eventId = n.eventId
              /\ m.subscriptionId = IF n.subscriptionId = s THEN NoSub ELSE n.subscriptionId
<1> DEFINE unlink(n) == [n EXCEPT !.subscriptionId = IF @ = s THEN NoSub ELSE @]
<1>1. \A n \in Notification :
        /\ unlink(n) \in Notification
        /\ unlink(n).userId = n.userId /\ unlink(n).eventId = n.eventId
        /\ unlink(n).subscriptionId = IF n.subscriptionId = s THEN NoSub ELSE n.subscriptionId
  BY DEF Notification
<1>2. notifications \subseteq Notification /\ notifications' = {unlink(n) : n \in notifications}
  BY DEF TypeOK, DeleteSub
<1> HIDE DEF unlink
<1>3. \A m \in notifications' : \E n \in notifications : m = unlink(n)
  BY <1>2
<1>4. \A n \in notifications : unlink(n) \in notifications'
  BY <1>2
<1>5. \A m \in notifications' :
        /\ m \in Notification
        /\ \E n \in notifications :
             /\ m.userId = n.userId /\ m.eventId = n.eventId
             /\ m.subscriptionId = IF n.subscriptionId = s THEN NoSub ELSE n.subscriptionId
  BY <1>1, <1>2, <1>3
<1>6. \A n \in notifications : \E m \in notifications' :
        /\ m.userId = n.userId /\ m.eventId = n.eventId
        /\ m.subscriptionId = IF n.subscriptionId = s THEN NoSub ELSE n.subscriptionId
  BY <1>1, <1>2, <1>4
<1> QED
  BY <1>5, <1>6

-----------------------------------------------------------------------------
(***************************************************************************)
(* Types                                                                   *)
(***************************************************************************)
LEMMA TypeInit == Init => TypeOK
<1> SUFFICES ASSUME Init PROVE TypeOK
  OBVIOUS
<1>1. topic \in Seq(Messages) /\ Len(topic) = 0
  BY EmptySeq DEF Init
<1> QED
  BY <1>1 DEF Init, TypeOK, HasNext

\* The rows of a message that is still to be handled stay next in line.
LEMMA TypeAccount == ASSUME TypeOK, Account PROVE TypeOK'
<1>1. topic' = topic /\ position' = position /\ pc' = pc /\ built' = built /\ faults' = faults
      /\ committed' = committed /\ owner' = owner /\ now' = now
  BY DEF Account, CreateSub, EditSub, DeleteSub, DeleteUser, groupVars
<1>2. /\ users' \subseteq Users /\ used' \subseteq Subs /\ edited' \subseteq used'
      /\ DOMAIN subs' \subseteq used' /\ subs' \in [DOMAIN subs' -> Subscription]
      /\ notifications' \subseteq Notification
  <2>1. ASSUME NEW s \in Subs, NEW u \in Users, NEW r \in Rules, CreateSub(s, u, r) PROVE <1>2
    <3>1. Row(u, r, TRUE, now) \in Subscription
      BY RulesAssumption DEF TypeOK, Row, Rule, Subscription
    <3> QED
      BY <2>1, <3>1 DEF CreateSub, TypeOK
  <2>2. ASSUME NEW s \in Subs, NEW r \in Rules, NEW a \in BOOLEAN, EditSub(s, r, a) PROVE <1>2
    <3>1. Row(subs[s].user, r, a, subs[s].created) \in Subscription
      BY <2>2, RulesAssumption DEF EditSub, TypeOK, Row, Rule, Subscription
    <3> QED
      BY <2>2, <3>1 DEF EditSub, TypeOK
  <2>3. ASSUME NEW s \in Subs, DeleteSub(s) PROVE <1>2
    <3>1. /\ users' = users /\ used' = used /\ edited' = edited
          /\ subs' = [t \in DOMAIN subs \ {s} |-> subs[t]]
      BY <2>3 DEF DeleteSub, Restrict
    <3>2. notifications' \subseteq Notification
      BY <2>3, Unlinked
    <3>3. DOMAIN subs' \subseteq used' /\ subs' \in [DOMAIN subs' -> Subscription]
      BY <3>1 DEF TypeOK
    <3> QED
      BY <3>1, <3>2, <3>3 DEF TypeOK
  <2>4. ASSUME NEW u \in Users, DeleteUser(u) PROVE <1>2
    BY <2>4 DEF DeleteUser, TypeOK, Restrict
  <2> QED
    BY <2>1, <2>2, <2>3, <2>4 DEF Account
<1> QED
  BY <1>1, <1>2 DEF TypeOK, HasNext

LEMMA TypeConsume == ASSUME TypeOK, NEW c \in Consumers, Consume(c) PROVE TypeOK'
<1>1. /\ now' = now /\ topic' = topic /\ users' = users /\ subs' = subs
      /\ used' = used /\ edited' = edited
  BY DEF Consume, Assign, Commit, Leave, Handle, SkipInvalid, Match, Insert, InsertRejected,
         InsertFails, dbVars
<1>2. Len(topic) \in Nat
  BY LenProperties DEF TypeOK
<1>3. CASE Assign(c)
  BY <1>1, <1>2, <1>3 DEF Assign, TypeOK, HasNext, Fault
<1>4. CASE Commit(c)
  BY <1>1, <1>2, <1>4 DEF Commit, TypeOK, HasNext
<1>5. CASE Leave(c)
  BY <1>1, <1>2, <1>5 DEF Leave, TypeOK, HasNext, Fault
<1>6. CASE SkipInvalid(c)
  BY <1>1, <1>2, <1>6, MessageFacts DEF SkipInvalid, TypeOK, HasNext, groupVars
<1>7. CASE Match(c)
  <2>1. HasNext(c) /\ Message(c) \in Events
    BY <1>7, MessageFacts DEF Match, Messages
  <2>2. PICK made \in BuildNotifications(Message(c)) :
          /\ built' = [built EXCEPT ![c] = made]
          /\ pc' = [pc EXCEPT ![c] = IF made = {} THEN "idle" ELSE "insert"]
          /\ position' = [position EXCEPT ![c] = IF made = {} THEN @ + 1 ELSE @]
    BY <1>7 DEF Match
  <2>3. made \subseteq Notification
    BY <2>1, <2>2, BuiltRows
  <2>4. built' \in [Consumers -> SUBSET Notification]
    BY <2>2, <2>3 DEF TypeOK
  <2> QED
    BY <1>1, <1>2, <1>7, <2>1, <2>2, <2>4, MessageFacts DEF Match, TypeOK, HasNext, groupVars
<1>8. CASE Insert(c)
  <2>1. HasNext(c) /\ NewRows(built[c]) \subseteq Notification
    BY <1>8 DEF Insert, TypeOK, NewRows
  <2> QED
    BY <1>1, <1>2, <1>8, <2>1, MessageFacts DEF Insert, TypeOK, HasNext, groupVars
<1>9. CASE InsertRejected(c)
  BY <1>1, <1>2, <1>9 DEF InsertRejected, TypeOK, HasNext, groupVars
<1>10. CASE InsertFails(c)
  <2>1. NewRows(built[c]) \subseteq Notification
    BY DEF TypeOK, NewRows
  <2> QED
    BY <1>1, <1>2, <1>10, <2>1 DEF InsertFails, TypeOK, HasNext, groupVars, Fault
<1> QED
  BY <1>3, <1>4, <1>5, <1>6, <1>7, <1>8, <1>9, <1>10 DEF Consume, Handle

LEMMA TypeStep == TypeOK /\ [OpenNext]_vars => TypeOK'
<1> SUFFICES ASSUME TypeOK, [OpenNext]_vars PROVE TypeOK'
  OBVIOUS
<1>1. CASE Tick
  BY <1>1 DEF Tick, TypeOK, HasNext, dbVars, groupVars
<1>2. ASSUME NEW batch \in Seq(Messages), Produce(batch) PROVE TypeOK'
  BY <1>2, Produced DEF Produce, TypeOK, HasNext, dbVars, groupVars
<1>3. CASE Account
  BY <1>3, TypeAccount
<1>4. ASSUME NEW c \in Consumers, Consume(c) PROVE TypeOK'
  BY <1>4, TypeConsume
<1>5. CASE UNCHANGED vars
  BY <1>5 DEF vars, dbVars, groupVars, TypeOK, HasNext
<1> QED
  BY <1>1, <1>2, <1>3, <1>4, <1>5 DEF OpenNext

LEMMA TypesHold == OpenSpec => []TypeOK
<1>1. Init => TypeOK
  BY TypeInit
<1>2. TypeOK /\ [OpenNext]_vars => TypeOK'
  BY TypeStep
<1> QED
  BY <1>1, <1>2, PTL DEF OpenSpec

-----------------------------------------------------------------------------
(***************************************************************************)
(* What a step of a consumer can change: its own place, and the table of   *)
(* notifications by the new ones of the rows it holds.                     *)
(***************************************************************************)
LEMMA ConsumeEffects ==
  ASSUME TypeOK, NEW c \in Consumers, Consume(c)
  PROVE  /\ now' = now /\ topic' = topic /\ users' = users /\ subs' = subs
         /\ used' = used /\ edited' = edited
         /\ \A d \in Consumers \ {c} :
              pc'[d] = pc[d] /\ built'[d] = built[d] /\ position'[d] = position[d]
         /\ \/ notifications' = notifications
            \/ /\ pc[c] = "insert" /\ Referenced(built[c])
               /\ notifications' = notifications \cup NewRows(built[c])
         /\ \/ pc'[c] = pc[c] /\ built'[c] = built[c]
               /\ (pc[c] = "insert" => position'[c] = position[c])
            \/ pc'[c] = "idle" /\ built'[c] = {}
            \/ /\ pc'[c] = "insert" /\ position'[c] = position[c]
               /\ Message(c) \in Events /\ built'[c] \in BuildNotifications(Message(c))
<1>1. CASE Assign(c)
  BY <1>1 DEF Assign, TypeOK, dbVars
<1>2. CASE Commit(c)
  BY <1>2 DEF Commit, TypeOK, dbVars
<1>3. CASE Leave(c)
  BY <1>3 DEF Leave, TypeOK, dbVars
<1>4. CASE SkipInvalid(c)
  BY <1>4 DEF SkipInvalid, TypeOK, dbVars
<1>5. CASE Match(c)
  <2>1. HasNext(c) /\ Message(c) \in Events
    BY <1>5, MessageFacts DEF Match, Messages
  <2>2. PICK made \in BuildNotifications(Message(c)) :
          /\ built' = [built EXCEPT ![c] = made]
          /\ pc' = [pc EXCEPT ![c] = IF made = {} THEN "idle" ELSE "insert"]
          /\ position' = [position EXCEPT ![c] = IF made = {} THEN @ + 1 ELSE @]
    BY <1>5 DEF Match
  <2> QED
    BY <1>5, <2>1, <2>2 DEF Match, TypeOK, dbVars
<1>6. CASE Insert(c)
  BY <1>6 DEF Insert, TypeOK, dbVars
<1>7. CASE InsertRejected(c)
  BY <1>7 DEF InsertRejected, TypeOK, dbVars
<1>8. CASE InsertFails(c)
  BY <1>8 DEF InsertFails, TypeOK, dbVars
<1> QED
  BY <1>1, <1>2, <1>3, <1>4, <1>5, <1>6, <1>7, <1>8 DEF Consume, Handle

\* What the other steps leave alone.
LEMMA OtherEffects ==
  ASSUME TypeOK, Tick \/ (\E batch \in Seq(Messages) : Produce(batch)) \/ Account \/ UNCHANGED vars
  PROVE  /\ pc' = pc /\ built' = built /\ position' = position /\ committed' = committed
         /\ used \subseteq used' /\ edited \subseteq edited'
         /\ Len(topic) \in Nat /\ Len(topic') \in Nat /\ Len(topic) <= Len(topic')
         /\ \A k \in 1 .. Len(topic) : topic'[k] = topic[k]
<1>1. Len(topic) \in Nat
  BY LenProperties DEF TypeOK
<1>2. ASSUME NEW batch \in Seq(Messages), Produce(batch)
      PROVE  /\ pc' = pc /\ built' = built /\ position' = position /\ committed' = committed
             /\ used' = used /\ edited' = edited
             /\ Len(topic') \in Nat /\ Len(topic) <= Len(topic')
             /\ \A k \in 1 .. Len(topic) : topic'[k] = topic[k]
  BY <1>2, Produced DEF Produce, dbVars, groupVars
<1>3. ASSUME Tick \/ Account \/ UNCHANGED vars
      PROVE  /\ pc' = pc /\ built' = built /\ position' = position /\ committed' = committed
             /\ used \subseteq used' /\ edited \subseteq edited' /\ topic' = topic
  BY <1>3 DEF Tick, Account, CreateSub, EditSub, DeleteSub, DeleteUser, vars, dbVars, groupVars
<1> QED
  BY <1>1, <1>2, <1>3

LEMMA NextCases ==
  ASSUME [OpenNext]_vars
  PROVE  \/ Tick \/ (\E batch \in Seq(Messages) : Produce(batch)) \/ Account \/ UNCHANGED vars
         \/ \E c \in Consumers : Consume(c)
  BY DEF OpenNext

-----------------------------------------------------------------------------
(***************************************************************************)
(* The rows a consumer holds: one per user, all about the message it is    *)
(* at, and none once the consumer is idle.                                 *)
(***************************************************************************)
HeldRows ==
  \A c \in Consumers :
    /\ pc[c] = "idle" => built[c] = {}
    /\ \A r \in built[c] : r.eventId = Message(c) /\ r.subscriptionId \in used
    /\ \A m, n \in built[c] : m.userId = n.userId => m = n

HeldInv == TypeOK /\ HeldRows

LEMMA HeldStep == HeldInv /\ [OpenNext]_vars => HeldInv'
<1> SUFFICES ASSUME TypeOK, HeldRows, [OpenNext]_vars PROVE HeldRows'
  BY TypeStep DEF HeldInv
<1>1. ASSUME NEW c \in Consumers, Consume(c) PROVE HeldRows'
  <2> DEFINE Held(d) ==
        /\ pc'[d] = "idle" => built'[d] = {}
        /\ \A r \in built'[d] : r.eventId = Message(d)' /\ r.subscriptionId \in used'
        /\ \A m, n \in built'[d] : m.userId = n.userId => m = n
  <2>1. ASSUME NEW d \in Consumers \ {c} PROVE Held(d)
    <3>1. Message(d)' = Message(d)
      BY <1>1, ConsumeEffects DEF Message
    <3> QED
      BY <1>1, <3>1, ConsumeEffects DEF HeldRows
  <2>2. Held(c) => HeldRows'
    BY <2>1 DEF HeldRows
  <2>3. CASE /\ pc'[c] = pc[c] /\ built'[c] = built[c]
             /\ (pc[c] = "insert" => position'[c] = position[c])
    <3>1. ASSUME pc[c] = "idle" PROVE Held(c)
      BY <2>3, <3>1 DEF HeldRows
    <3>2. ASSUME pc[c] = "insert" PROVE Held(c)
      <4>1. Message(c)' = Message(c) /\ used' = used
        BY <1>1, <2>3, <3>2, ConsumeEffects DEF Message
      <4> QED
        BY <2>3, <4>1 DEF HeldRows
    <3> QED
      BY <2>2, <3>1, <3>2 DEF TypeOK
  <2>4. CASE pc'[c] = "idle" /\ built'[c] = {}
    <3>1. Held(c)
      BY <2>4
    <3> QED
      BY <2>2, <3>1
  <2>5. CASE /\ pc'[c] = "insert" /\ position'[c] = position[c]
             /\ Message(c) \in Events /\ built'[c] \in BuildNotifications(Message(c))
    <3>1. Message(c)' = Message(c) /\ used' = used
      BY <1>1, <2>5, ConsumeEffects DEF Message
    <3>2. /\ \A r \in built'[c] : r.eventId = Message(c) /\ r.subscriptionId \in DOMAIN subs
          /\ \A m, n \in built'[c] : m.userId = n.userId => m = n
      BY <2>5, BuiltRows
    <3>3. Held(c)
      BY <2>5, <3>1, <3>2 DEF TypeOK
    <3> QED
      BY <2>2, <3>3
  <2> QED
    BY <1>1, <2>3, <2>4, <2>5, ConsumeEffects
<1>2. CASE Tick \/ (\E batch \in Seq(Messages) : Produce(batch)) \/ Account \/ UNCHANGED vars
  <2>1. ASSUME NEW d \in Consumers, pc[d] = "insert" PROVE Message(d)' = Message(d)
    <3>1. HasNext(d)
      BY <2>1 DEF TypeOK
    <3> QED
      BY <1>2, <3>1, OtherEffects, MessageFacts DEF Message
  <2> QED
    BY <1>2, <2>1, OtherEffects DEF HeldRows, TypeOK
<1> QED
  BY <1>1, <1>2, NextCases

LEMMA HeldInit == Init => HeldInv
  BY TypeInit DEF Init, HeldInv, HeldRows

LEMMA HeldAlways == OpenSpec => []HeldInv
  BY HeldInit, HeldStep, PTL DEF OpenSpec

-----------------------------------------------------------------------------
(***************************************************************************)
(* One notification per user and event.                                    *)
(***************************************************************************)
OneInv == HeldInv /\ AtMostOnePerUserEvent

LEMMA OneStep == OneInv /\ [OpenNext]_vars => OneInv'
<1> SUFFICES ASSUME TypeOK, HeldRows, AtMostOnePerUserEvent, [OpenNext]_vars
             PROVE  AtMostOnePerUserEvent'
  BY HeldStep DEF OneInv, HeldInv
<1>1. ASSUME NEW c \in Consumers, Consume(c) PROVE AtMostOnePerUserEvent'
  <2>1. CASE notifications' = notifications
    BY <2>1 DEF AtMostOnePerUserEvent
  <2>2. CASE notifications' = notifications \cup NewRows(built[c])
    BY <2>2 DEF AtMostOnePerUserEvent, NewRows, HeldRows
  <2> QED
    BY <1>1, <2>1, <2>2, ConsumeEffects
<1>2. ASSUME NEW s \in Subs, DeleteSub(s) PROVE AtMostOnePerUserEvent'
  <2> SUFFICES ASSUME NEW m \in notifications', NEW n \in notifications',
                      m.userId = n.userId, m.eventId = n.eventId
               PROVE  m = n
    BY DEF AtMostOnePerUserEvent
  <2>1. m.subscriptionId = n.subscriptionId
    BY <1>2, Unlinked DEF AtMostOnePerUserEvent
  <2>2. m \in Notification /\ n \in Notification
    BY <1>2, Unlinked
  <2> QED
    BY <2>1, <2>2 DEF Notification
<1>3. ASSUME NEW u \in Users, DeleteUser(u) PROVE AtMostOnePerUserEvent'
  BY <1>3 DEF DeleteUser, AtMostOnePerUserEvent
<1>4. ASSUME notifications' = notifications PROVE AtMostOnePerUserEvent'
  BY <1>4 DEF AtMostOnePerUserEvent
<1> QED
  BY <1>1, <1>2, <1>3, <1>4 DEF OpenNext, Tick, Produce, Account, CreateSub, EditSub, vars

LEMMA OneEach == OpenSpec => []AtMostOnePerUserEvent
<1>1. Init => OneInv
  BY HeldInit DEF OneInv, Init, AtMostOnePerUserEvent
<1>2. OneInv => AtMostOnePerUserEvent
  BY DEF OneInv
<1> QED
  BY <1>1, <1>2, OneStep, PTL DEF OpenSpec

-----------------------------------------------------------------------------
(***************************************************************************)
(* What a notification names.  A row that was built before its             *)
(* subscription was deleted is refused, since no id is given out twice.    *)
(***************************************************************************)
Names(r) ==
  /\ subs[r.subscriptionId].user = r.userId
  /\ subs[r.subscriptionId].created <= EventOf[r.eventId].at

BuiltAnchored ==
  \A c \in Consumers : \A r \in built[c] :
    r.subscriptionId \in DOMAIN subs => Names(r)

AnchorInv == HeldInv /\ AlertsAreAnchored /\ BuiltAnchored

LEMMA AnchorAccount ==
  ASSUME TypeOK, HeldRows, AlertsAreAnchored, BuiltAnchored, Account
  PROVE  AlertsAreAnchored' /\ BuiltAnchored'
<1>0. built' = built
  BY OtherEffects
<1>1. ASSUME NEW s \in Subs, NEW u \in Users, NEW r \in Rules, CreateSub(s, u, r)
      PROVE  AlertsAreAnchored' /\ BuiltAnchored'
  <2>1. \A t \in DOMAIN subs : t \in DOMAIN subs' /\ subs'[t] = subs[t]
    BY <1>1 DEF CreateSub, TypeOK
  <2>2. \A t \in used : t \in DOMAIN subs' => t \in DOMAIN subs
    BY <1>1 DEF CreateSub
  <2>3. users' = users /\ notifications' = notifications
    BY <1>1 DEF CreateSub
  <2>4. AlertsAreAnchored'
    BY <2>1, <2>3 DEF AlertsAreAnchored
  <2>5. BuiltAnchored'
    BY <1>0, <2>1, <2>2 DEF BuiltAnchored, HeldRows, Names
  <2> QED
    BY <2>4, <2>5
<1>2. ASSUME NEW s \in Subs, NEW r \in Rules, NEW a \in BOOLEAN, EditSub(s, r, a)
      PROVE  AlertsAreAnchored' /\ BuiltAnchored'
  <2>1. /\ DOMAIN subs' = DOMAIN subs
        /\ \A t \in DOMAIN subs :
             subs'[t].user = subs[t].user /\ subs'[t].created = subs[t].created
    BY <1>2 DEF EditSub, TypeOK, Row
  <2>2. users' = users /\ notifications' = notifications
    BY <1>2 DEF EditSub
  <2>3. AlertsAreAnchored'
    BY <2>1, <2>2 DEF AlertsAreAnchored
  <2>4. BuiltAnchored'
    BY <1>0, <2>1 DEF BuiltAnchored, Names
  <2> QED
    BY <2>3, <2>4
<1>3. ASSUME NEW s \in Subs, DeleteSub(s) PROVE AlertsAreAnchored' /\ BuiltAnchored'
  <2>1. DOMAIN subs' = DOMAIN subs \ {s} /\ \A t \in DOMAIN subs' : subs'[t] = subs[t]
    BY <1>3 DEF DeleteSub, Restrict
  <2>2. users' = users
    BY <1>3 DEF DeleteSub
  <2>3. AlertsAreAnchored'
    BY <1>3, <2>1, <2>2, Unlinked DEF AlertsAreAnchored
  <2>4. BuiltAnchored'
    BY <1>0, <2>1 DEF BuiltAnchored, Names
  <2> QED
    BY <2>3, <2>4
<1>4. ASSUME NEW u \in Users, DeleteUser(u) PROVE AlertsAreAnchored' /\ BuiltAnchored'
  <2>1. /\ DOMAIN subs' = {t \in DOMAIN subs : subs[t].user # u}
        /\ \A t \in DOMAIN subs' : subs'[t] = subs[t]
    BY <1>4 DEF DeleteUser, Restrict
  <2>2. AlertsAreAnchored'
    BY <1>4, <2>1 DEF AlertsAreAnchored, DeleteUser
  <2>3. BuiltAnchored'
    BY <1>0, <2>1 DEF BuiltAnchored, Names
  <2> QED
    BY <2>2, <2>3
<1> QED
  BY <1>1, <1>2, <1>3, <1>4 DEF Account

LEMMA AnchorConsume ==
  ASSUME TypeOK, HeldRows, AlertsAreAnchored, BuiltAnchored, NEW c \in Consumers, Consume(c)
  PROVE  AlertsAreAnchored' /\ BuiltAnchored'
<1>1. AlertsAreAnchored'
  <2>1. users' = users /\ subs' = subs
    BY ConsumeEffects
  <2>2. CASE notifications' = notifications
    BY <2>1, <2>2 DEF AlertsAreAnchored
  <2>3. CASE Referenced(built[c]) /\ notifications' = notifications \cup NewRows(built[c])
    BY <2>1, <2>3 DEF AlertsAreAnchored, Referenced, NewRows, BuiltAnchored, Names
  <2> QED
    BY <2>2, <2>3, ConsumeEffects
<1>2. ASSUME NEW r \in built'[c], r.subscriptionId \in DOMAIN subs PROVE Names(r)
  <2>1. CASE built'[c] = built[c]
    BY <1>2, <2>1 DEF BuiltAnchored
  <2>2. CASE Message(c) \in Events /\ built'[c] \in BuildNotifications(Message(c))
    BY <2>2, BuiltRows DEF Names
  <2> QED
    BY <1>2, <2>1, <2>2, ConsumeEffects
<1>3. \A r : Names(r)' = Names(r)
  BY ConsumeEffects DEF Names
<1>4. BuiltAnchored'
  BY <1>2, <1>3, ConsumeEffects DEF BuiltAnchored
<1> QED
  BY <1>1, <1>4

LEMMA AnchorStep == AnchorInv /\ [OpenNext]_vars => AnchorInv'
<1> SUFFICES ASSUME TypeOK, HeldRows, AlertsAreAnchored, BuiltAnchored, [OpenNext]_vars
             PROVE  AlertsAreAnchored' /\ BuiltAnchored'
  BY HeldStep DEF AnchorInv, HeldInv
<1>1. ASSUME Tick \/ (\E batch \in Seq(Messages) : Produce(batch)) \/ UNCHANGED vars
      PROVE  AlertsAreAnchored' /\ BuiltAnchored'
  BY <1>1 DEF Tick, Produce, vars, dbVars, AlertsAreAnchored, BuiltAnchored, Names
<1> QED
  BY <1>1, NextCases, AnchorAccount, AnchorConsume

LEMMA Anchored == OpenSpec => []AlertsAreAnchored
<1>1. Init => AnchorInv
  BY HeldInit DEF AnchorInv, Init, AlertsAreAnchored, BuiltAnchored
<1>2. AnchorInv => AlertsAreAnchored
  BY DEF AnchorInv
<1> QED
  BY <1>1, <1>2, AnchorStep, PTL DEF OpenSpec

-----------------------------------------------------------------------------
(***************************************************************************)
(* What a user may expect of an event, and has.                            *)
(***************************************************************************)
Owed(e) ==
  {subs[s].user : s \in {t \in DOMAIN subs \ edited : ShouldNotify(EventOf[e], subs[t], now)}}
Told(e) == {n.userId : n \in {m \in notifications : m.eventId = e}}

Covered(k) == \A e \in Events : topic[k] = e => Owed(e) \subseteq Told(e)

HappenedBefore == \A k \in 1 .. Len(topic) : topic[k] \in Events => EventOf[topic[k]].at < now

BuiltCovers ==
  \A c \in Consumers : \A e \in Events :
    pc[c] = "insert" /\ Message(c) = e => Owed(e) \subseteq {r.userId : r \in built[c]}

ReadIsCovered == \A c \in Consumers : \A k \in 1 .. position[c] : Covered(k)
CommittedIsCovered == \A k \in 1 .. committed : Covered(k)

MissInv == HeldInv /\ HappenedBefore /\ BuiltCovers /\ ReadIsCovered /\ CommittedIsCovered

LEMMA CoveredIsNotMissed ==
  ASSUME CommittedIsCovered PROVE NoMissedAlert
<1> SUFFICES ASSUME NEW k \in 1 .. committed, NEW s \in DOMAIN subs \ edited,
                    topic[k] \in Events, ShouldNotify(EventOf[topic[k]], subs[s], now)
             PROVE  \E n \in notifications : n.userId = subs[s].user /\ n.eventId = topic[k]
  BY DEF NoMissedAlert
<1>1. subs[s].user \in Owed(topic[k])
  BY DEF Owed
<1>2. subs[s].user \in Told(topic[k])
  BY <1>1 DEF CommittedIsCovered, Covered
<1> QED
  BY <1>2 DEF Told

\* Time, new subscriptions, edits and deletions owe nobody an alert about an
\* event of the past, and a deleted account is owed none.
LEMMA OwedShrinks ==
  ASSUME TypeOK, NEW e \in Events, EventOf[e].at < now,
         Tick \/ (\E batch \in Seq(Messages) : Produce(batch)) \/ Account \/ UNCHANGED vars
  PROVE  /\ Owed(e)' \subseteq Owed(e)
         /\ \A u \in Users : DeleteUser(u) => u \notin Owed(e)'
<1>1. EventOf[e].at \in Nat /\ now \in Nat
  BY EventOfAssumption DEF EventData, TypeOK
<1>2. CASE Tick
  <2>1. subs' = subs /\ edited' = edited /\ now' = now + 1
    BY <1>2 DEF Tick, dbVars
  <2>2. \A s : ShouldNotify(EventOf[e], subs[s], now)' => ShouldNotify(EventOf[e], subs[s], now)
    BY <1>1, <2>1, AgeAssumption DEF ShouldNotify
  <2>3. Owed(e)' \subseteq Owed(e)
    BY <2>1, <2>2 DEF Owed
  <2> QED
    BY <1>1, <2>1, <2>3 DEF DeleteUser
<1>3. ASSUME NEW s \in Subs, NEW u \in Users, NEW r \in Rules, CreateSub(s, u, r)
      PROVE  Owed(e)' \subseteq Owed(e)
  <2>1. /\ DOMAIN subs' = DOMAIN subs \cup {s} /\ edited' = edited /\ now' = now
        /\ \A t \in DOMAIN subs : subs'[t] = subs[t]
        /\ subs'[s].created = now
    BY <1>3 DEF CreateSub, TypeOK, Row
  <2>2. ~ ShouldNotify(EventOf[e], subs'[s], now)
    BY <1>1, <2>1 DEF ShouldNotify
  <2> QED
    BY <2>1, <2>2 DEF Owed
<1>4. ASSUME NEW s \in Subs, NEW r \in Rules, NEW a \in BOOLEAN, EditSub(s, r, a)
      PROVE  Owed(e)' \subseteq Owed(e)
  <2>1. /\ DOMAIN subs' = DOMAIN subs /\ edited' = edited \cup {s} /\ now' = now
        /\ \A t \in DOMAIN subs \ {s} : subs'[t] = subs[t]
    BY <1>4 DEF EditSub, TypeOK
  <2> QED
    BY <2>1 DEF Owed
<1>5. ASSUME NEW s \in Subs, DeleteSub(s) PROVE Owed(e)' \subseteq Owed(e)
  <2>1. /\ DOMAIN subs' = DOMAIN subs \ {s} /\ edited' = edited /\ now' = now
        /\ \A t \in DOMAIN subs' : subs'[t] = subs[t]
    BY <1>5 DEF DeleteSub, Restrict
  <2> QED
    BY <2>1 DEF Owed
<1>6. ASSUME NEW u \in Users, DeleteUser(u)
      PROVE  Owed(e)' \subseteq Owed(e) /\ u \notin Owed(e)'
  <2>1. /\ DOMAIN subs' = {t \in DOMAIN subs : subs[t].user # u} /\ edited' = edited /\ now' = now
        /\ \A t \in DOMAIN subs' : subs'[t] = subs[t]
    BY <1>6 DEF DeleteUser, Restrict
  <2> QED
    BY <2>1 DEF Owed
<1>7. ASSUME UNCHANGED <<subs, edited, now>> PROVE Owed(e)' \subseteq Owed(e)
  BY <1>7 DEF Owed
<1>8. Owed(e)' \subseteq Owed(e)
  BY <1>2, <1>3, <1>4, <1>5, <1>6, <1>7 DEF Account, Produce, vars, dbVars
<1> QED
  BY <1>6, <1>8

\* Only an account deleted takes notifications along.
LEMMA ToldKept ==
  ASSUME TypeOK, NEW e \in Events,
         Tick \/ (\E batch \in Seq(Messages) : Produce(batch)) \/ Account \/ UNCHANGED vars
  PROVE  \A u \in Told(e) \ Told(e)' : u \in Users /\ DeleteUser(u)
<1>1. ASSUME NEW s \in Subs, DeleteSub(s) PROVE Told(e) \subseteq Told(e)'
  BY <1>1, Unlinked DEF Told
<1>2. ASSUME NEW v \in Users, DeleteUser(v) PROVE Told(e) \ {v} \subseteq Told(e)'
  BY <1>2 DEF DeleteUser, Told
<1>3. ASSUME notifications' = notifications PROVE Told(e)' = Told(e)
  BY <1>3 DEF Told
<1>4. \/ notifications' = notifications
      \/ \E s \in Subs : DeleteSub(s)
      \/ \E v \in Users : DeleteUser(v)
  BY DEF Tick, Produce, Account, CreateSub, EditSub, vars
<1> QED
  BY <1>1, <1>2, <1>3, <1>4

\* What a step other than a consumer's leaves covered.
LEMMA CoveredKept ==
  ASSUME TypeOK, HappenedBefore, NEW k \in 1 .. Len(topic), Covered(k),
         Tick \/ (\E batch \in Seq(Messages) : Produce(batch)) \/ Account \/ UNCHANGED vars
  PROVE  Covered(k)'
<1> SUFFICES ASSUME NEW e \in Events, topic[k] = e PROVE Owed(e)' \subseteq Told(e)'
  BY OtherEffects DEF Covered
<1>1. EventOf[e].at < now
  BY DEF HappenedBefore
<1>2. Owed(e)' \subseteq Owed(e) /\ Owed(e) \subseteq Told(e)
  BY <1>1, OwedShrinks DEF Covered
<1> QED
  BY <1>1, <1>2, OwedShrinks, ToldKept

\* A consumer covers the message it moves past.
LEMMA ConsumeMoves ==
  ASSUME TypeOK, NEW c \in Consumers, Consume(c)
  PROVE  /\ committed' \in {committed, position[c]}
         /\ \/ position'[c] \in {position[c], committed, -1}
            \/ /\ position'[c] = position[c] + 1 /\ HasNext(c)
               /\ \/ Message(c) = Garbage
                  \/ Message(c) \in Events /\ {} \in BuildNotifications(Message(c))
                  \/ pc[c] = "insert" /\ notifications' = notifications \cup NewRows(built[c])
<1>1. CASE Assign(c) \/ Commit(c) \/ Leave(c)
  BY <1>1 DEF Assign, Commit, Leave, TypeOK
<1>2. CASE SkipInvalid(c)
  BY <1>2 DEF SkipInvalid, TypeOK, groupVars
<1>3. CASE Match(c)
  <2>1. HasNext(c) /\ Message(c) \in Events /\ committed' = committed
    BY <1>3, MessageFacts DEF Match, Messages, groupVars
  <2>2. PICK made \in BuildNotifications(Message(c)) :
          position' = [position EXCEPT ![c] = IF made = {} THEN @ + 1 ELSE @]
    BY <1>3 DEF Match
  <2> QED
    BY <2>1, <2>2 DEF TypeOK
<1>4. CASE Insert(c)
  BY <1>4 DEF Insert, TypeOK, groupVars
<1>5. CASE InsertRejected(c) \/ InsertFails(c)
  BY <1>5 DEF InsertRejected, InsertFails, groupVars
<1> QED
  BY <1>1, <1>2, <1>3, <1>4, <1>5 DEF Consume, Handle

LEMMA BuiltIsOwed ==
  ASSUME TypeOK, NEW e \in Events, NEW made \in BuildNotifications(e)
  PROVE  Owed(e) \subseteq {r.userId : r \in made}
<1>1. \A s \in DOMAIN subs \ edited : ShouldNotify(EventOf[e], subs[s], now) => s \in Notifying(e)
  BY DEF Notifying
<1>2. \A s \in Notifying(e) : \E r \in made : r.userId = subs[s].user
  BY BuiltRows
<1> QED
  BY <1>1, <1>2 DEF Owed

LEMMA MissConsume ==
  ASSUME MissInv, NEW c \in Consumers, Consume(c)
  PROVE  BuiltCovers' /\ ReadIsCovered' /\ CommittedIsCovered'
<1> USE DEF MissInv, HeldInv
<1>1. ASSUME NEW e \in Events PROVE Owed(e)' = Owed(e) /\ Told(e) \subseteq Told(e)'
  BY ConsumeEffects DEF Owed, Told
<1>2. topic' = topic
  BY ConsumeEffects
<1>3. \A k : Covered(k) => Covered(k)'
  BY <1>1, <1>2 DEF Covered
<1>4. ASSUME NEW e \in Events, pc'[c] = "insert", Message(c)' = e
      PROVE  Owed(e)' \subseteq {r.userId : r \in built'[c]}
  <2>1. CASE /\ pc'[c] = pc[c] /\ built'[c] = built[c] /\ position'[c] = position[c]
    BY <1>1, <1>2, <1>4, <2>1 DEF BuiltCovers, Message
  <2>2. CASE /\ position'[c] = position[c]
             /\ Message(c) \in Events /\ built'[c] \in BuildNotifications(Message(c))
    <3>1. Message(c) = e
      BY <1>2, <1>4, <2>2 DEF Message
    <3> QED
      BY <1>1, <2>2, <3>1, BuiltIsOwed
  <2> QED
    BY <1>4, <2>1, <2>2, ConsumeEffects
<1>5. ASSUME NEW d \in Consumers \ {c}, NEW e \in Events, pc'[d] = "insert", Message(d)' = e
      PROVE  Owed(e)' \subseteq {r.userId : r \in built'[d]}
  <2>1. pc[d] = "insert" /\ built'[d] = built[d] /\ Message(d) = e
    BY <1>2, <1>5, ConsumeEffects DEF Message
  <2> QED
    BY <1>1, <2>1 DEF BuiltCovers
<1>6. BuiltCovers'
  BY <1>4, <1>5 DEF BuiltCovers
<1>7. CommittedIsCovered'
  BY <1>3, ConsumeMoves DEF CommittedIsCovered, ReadIsCovered
<1>8. ASSUME NEW k, k = position[c] + 1,
             \/ Message(c) = Garbage
             \/ Message(c) \in Events /\ {} \in BuildNotifications(Message(c))
             \/ pc[c] = "insert" /\ notifications' = notifications \cup NewRows(built[c])
      PROVE  Covered(k)'
  <2> SUFFICES ASSUME NEW e \in Events, Message(c) = e PROVE Owed(e) \subseteq Told(e)'
    <3>1. topic'[k] = Message(c)
      BY <1>2, <1>8 DEF Message
    <3> QED
      BY <1>1, <3>1 DEF Covered
  <2>1. CASE {} \in BuildNotifications(e)
    BY <2>1, BuiltIsOwed
  <2>2. CASE pc[c] = "insert" /\ notifications' = notifications \cup NewRows(built[c])
    <3>1. ASSUME NEW u \in Owed(e) PROVE u \in Told(e)'
      <4>1. PICK r \in built[c] : r.userId = u /\ r.eventId = e
        BY <2>2, <3>1 DEF BuiltCovers, HeldRows
      <4>2. \E n \in notifications' : n.userId = u /\ n.eventId = e
        BY <2>2, <4>1 DEF NewRows
      <4> QED
        BY <4>2 DEF Told
    <3> QED
      BY <3>1
  <2> QED
    BY <1>8, <2>1, <2>2
<1>9. \A d \in Consumers \ {c} : position'[d] = position[d]
  BY ConsumeEffects
<1>10. ReadIsCovered'
  <2> SUFFICES ASSUME NEW d \in Consumers, NEW k \in 1 .. position'[d] PROVE Covered(k)'
    BY DEF ReadIsCovered
  <2>1. position[c] \in Int /\ committed \in Int
    BY LenProperties DEF TypeOK
  <2>2. CASE d # c
    BY <1>3, <1>9, <2>2 DEF ReadIsCovered
  <2>3. CASE d = c /\ position'[c] \in {position[c], committed, -1}
    BY <1>3, <2>1, <2>3 DEF ReadIsCovered, CommittedIsCovered
  <2>4. CASE d = c /\ position'[c] = position[c] + 1 /\ k # position[c] + 1
    <3>1. k \in 1 .. position[c]
      BY <2>1, <2>4
    <3> QED
      BY <1>3, <3>1 DEF ReadIsCovered
  <2>5. CASE /\ d = c /\ k = position[c] + 1
             /\ position'[c] \notin {position[c], committed, -1}
    BY <1>8, <2>5, ConsumeMoves
  <2> QED
    BY <2>2, <2>3, <2>4, <2>5, ConsumeMoves
<1> QED
  BY <1>6, <1>7, <1>10

LEMMA HappenedStep ==
  ASSUME TypeOK, HappenedBefore, [OpenNext]_vars
  PROVE  HappenedBefore'
<1>1. now \in Nat /\ \A e \in Events : EventOf[e].at \in Nat
  BY EventOfAssumption DEF EventData, TypeOK
<1>2. CASE Tick
  BY <1>1, <1>2 DEF Tick, HappenedBefore
<1>3. ASSUME NEW batch \in Seq(Messages), Produce(batch) PROVE HappenedBefore'
  <2>1. now' = now /\ \A m \in Range(batch) \cap Events : EventOf[m].at < now
    BY <1>3 DEF Produce
  <2> SUFFICES ASSUME NEW k \in 1 .. Len(topic'), topic'[k] \in Events
               PROVE  EventOf[topic'[k]].at < now
    BY <2>1 DEF HappenedBefore
  <2>2. CASE k \in 1 .. Len(topic)
    BY <1>3, <2>2, Produced DEF HappenedBefore
  <2>3. CASE topic'[k] \in Range(batch)
    BY <2>1, <2>3
  <2> QED
    BY <1>3, <2>2, <2>3, Produced
<1>4. CASE UNCHANGED <<topic, now>>
  BY <1>4 DEF HappenedBefore
<1>5. ASSUME NEW c \in Consumers, Consume(c) PROVE UNCHANGED <<topic, now>>
  BY <1>5, ConsumeEffects
<1> QED
  BY <1>2, <1>3, <1>4, <1>5 DEF OpenNext, Account, CreateSub, EditSub, DeleteSub, DeleteUser, vars

LEMMA MissOther ==
  ASSUME MissInv,
         Tick \/ (\E batch \in Seq(Messages) : Produce(batch)) \/ Account \/ UNCHANGED vars
  PROVE  BuiltCovers' /\ ReadIsCovered' /\ CommittedIsCovered'
<1> USE DEF MissInv, HeldInv
<1>1. /\ pc' = pc /\ built' = built /\ position' = position /\ committed' = committed
      /\ \A k \in 1 .. Len(topic) : topic'[k] = topic[k]
  BY OtherEffects
<1>2. \A k \in 1 .. Len(topic) : Covered(k) => Covered(k)'
  BY CoveredKept
<1>3. Len(topic) \in Nat /\ committed \in 0 .. Len(topic)
      /\ \A c \in Consumers : position[c] \in -1 .. Len(topic)
  BY LenProperties DEF TypeOK
<1>4. ReadIsCovered' /\ CommittedIsCovered'
  BY <1>1, <1>2, <1>3 DEF ReadIsCovered, CommittedIsCovered
<1>5. ASSUME NEW c \in Consumers, NEW e \in Events, pc'[c] = "insert", Message(c)' = e
      PROVE  Owed(e)' \subseteq {r.userId : r \in built'[c]}
  <2>1. pc[c] = "insert" /\ HasNext(c)
    BY <1>1, <1>5 DEF TypeOK
  <2>2. Message(c) = e /\ position[c] + 1 \in 1 .. Len(topic)
    BY <1>1, <1>5, <2>1, MessageFacts DEF Message
  <2>3. EventOf[e].at < now
    BY <2>2 DEF HappenedBefore, Message
  <2> QED
    BY <1>1, <2>1, <2>2, <2>3, OwedShrinks DEF BuiltCovers
<1> QED
  BY <1>4, <1>5 DEF BuiltCovers

LEMMA NothingIsMissed == OpenSpec => []NoMissedAlert
<1>1. Init => MissInv
  <2> SUFFICES ASSUME Init PROVE MissInv
    OBVIOUS
  <2>1. HeldInv
    BY HeldInit
  <2>2. Len(topic) = 0 /\ committed = 0
    BY EmptySeq DEF Init
  <2> QED
    BY <2>1, <2>2 DEF MissInv, Init, HappenedBefore, BuiltCovers, ReadIsCovered, CommittedIsCovered
<1>2. MissInv /\ [OpenNext]_vars => MissInv'
  <2> SUFFICES ASSUME MissInv, [OpenNext]_vars PROVE MissInv'
    OBVIOUS
  <2>1. HeldInv' /\ HappenedBefore'
    BY HeldStep, HappenedStep DEF MissInv, HeldInv
  <2> QED
    BY <2>1, NextCases, MissOther, MissConsume DEF MissInv
<1>3. MissInv => NoMissedAlert
  BY CoveredIsNotMissed DEF MissInv
<1> QED
  BY <1>1, <1>2, <1>3, PTL DEF OpenSpec

-----------------------------------------------------------------------------
\* What AlertsStay says of one step.
Stays ==
  \A n \in notifications :
    n.userId \in users' =>
      \E m \in notifications' :
        /\ m.userId = n.userId /\ m.eventId = n.eventId
        /\ m.subscriptionId \in {n.subscriptionId, NoSub}

LEMMA StaysStep == TypeOK /\ [OpenNext]_vars => Stays
<1> SUFFICES ASSUME TypeOK, [OpenNext]_vars PROVE Stays
  OBVIOUS
<1>1. CASE notifications \subseteq notifications'
  BY <1>1 DEF Stays
<1>2. ASSUME NEW c \in Consumers, Consume(c) PROVE notifications \subseteq notifications'
  BY <1>2, ConsumeEffects
<1>3. ASSUME NEW s \in Subs, DeleteSub(s) PROVE Stays
  BY <1>3, Unlinked DEF Stays
<1>4. ASSUME NEW u \in Users, DeleteUser(u) PROVE Stays
  BY <1>4 DEF DeleteUser, Stays
<1> QED
  BY <1>1, <1>2, <1>3, <1>4 DEF OpenNext, Tick, Produce, Account, CreateSub, EditSub, vars

LEMMA AllStay == OpenSpec => AlertsStay
<1>1. TypeOK /\ [OpenNext]_vars => [Stays]_vars
  BY StaysStep
<1>2. OpenSpec => [][Stays]_vars
  BY <1>1, TypesHold, PTL DEF OpenSpec
<1> QED
  BY <1>2 DEF AlertsStay, Stays

-----------------------------------------------------------------------------
(***************************************************************************)
(* The bounded producers of AlertConsumer are producers.                   *)
(***************************************************************************)
LEMMA SendersAreOpen == Spec => OpenSpec
<1>1. [Next]_vars => [OpenNext]_vars
  <2>1. ASSUME NEW n \in 1 .. MaxTopic, NEW batch \in [1 .. n -> Messages], Produce(batch)
        PROVE  OpenNext
    <3>1. n \in Nat
      OBVIOUS
    <3>2. batch \in Seq(Messages)
      BY <3>1, FunctionIsSeq
    <3> QED
      BY <2>1, <3>2 DEF OpenNext
  <2> QED
    BY <2>1 DEF Next, OpenNext
<1> QED
  BY <1>1, PTL DEF Spec, OpenSpec

(***************************************************************************)
(* Types: whatever is produced, edited, deleted, delivered again or        *)
(* interrupted, tables, offsets and the rows a consumer holds keep their   *)
(* types, and a consumer that inserts has the message still ahead.         *)
(***************************************************************************)
THEOREM TypeCorrect == Spec => []TypeOK
  BY SendersAreOpen, TypesHold

(***************************************************************************)
(* However often a message is delivered, and whichever subscription        *)
(* matches each time, a user has one notification of an event: a consumer  *)
(* inserts rows of one event, one per user, and none that is there.        *)
(***************************************************************************)
THEOREM AtMostOneCorrect == Spec => []AtMostOnePerUserEvent
  BY SendersAreOpen, OneEach

(***************************************************************************)
(* No notification outlives its account or names a subscription that is    *)
(* gone, another user's or newer than the event, although the rows were    *)
(* built from what was read earlier.                                       *)
(***************************************************************************)
THEOREM AnchoredCorrect == Spec => []AlertsAreAnchored
  BY SendersAreOpen, Anchored

(***************************************************************************)
(* No alert is missed.  An offset is committed only up to where the owner  *)
(* has read, a reader moves on only once the users it owes have their      *)
(* rows, and what is owed about a past event never grows.                  *)
(***************************************************************************)
THEOREM NoMissedCorrect == Spec => []NoMissedAlert
  BY SendersAreOpen, NothingIsMissed

(***************************************************************************)
(* Notifications stay: no step removes one of an account that remains, and *)
(* the subscription it names changes only to none.                         *)
(***************************************************************************)
THEOREM AlertsStayCorrect == Spec => AlertsStay
  BY SendersAreOpen, AllStay

-----------------------------------------------------------------------------
(***************************************************************************)
(* The loop that builds the rows of one event, for any rows, any order of  *)
(* them and any distances.                                                 *)
(***************************************************************************)
\* Rounding to tenths: how far it moves a distance, and what a distance
\* below a rounded one rounds to.
LEMMA RoundingError ==
  ASSUME NEW d \in Nat
  PROVE  /\ RoundToTenth(d) \in Nat
         /\ RoundToTenth(d) <= d + 5
         /\ d <= RoundToTenth(d) + 4
  BY DEF RoundToTenth

LEMMA RoundingBelow ==
  ASSUME NEW d \in Nat, NEW e \in Nat, d < RoundToTenth(e)
  PROVE  RoundToTenth(d) <= RoundToTenth(e)
  BY DEF RoundToTenth

\* The rows and their distances.
LEMMA RowFacts ==
  ASSUME LoopTypeOK, NEW n \in 1 .. Len(subscriptions)
  PROVE  subscriptions[n].user \in Users /\ DistanceOf(n) \in Nat
<1>1. subscriptions[n] \in SubscriptionRows
  BY ElementOfSeq DEF LoopTypeOK
<1>2. subscriptions[n].user \in Users /\ subscriptions[n].place \in Places
  BY <1>1, RowsAssumption
<1>3. input.event.place \in Places
  BY InputsAssumption DEF LoopTypeOK, EventData
<1> QED
  BY <1>2, <1>3, DistanceAssumption DEF DistanceOf, HaversineKm

-----------------------------------------------------------------------------
(***************************************************************************)
(* The inductive invariant: the distance stored with a row is the rounded  *)
(* distance of the subscription the row names, and it exceeds no notifying *)
(* subscription's distance by more than half a tenth.                      *)
(***************************************************************************)
StoredIsRounded ==
  \A u \in DOMAIN byUser : byUser[u].distanceKm = RoundToTenth(DistanceOf(byUser[u].sub))

StoredIsLow ==
  \A u \in DOMAIN byUser : \A n \in Seen :
    subscriptions[n].user = u /\ Notifies(n) => byUser[u].distanceKm <= DistanceOf(n) + 5

LoopInv == /\ LoopTypeOK
       /\ RowIffMatched
       /\ WinnerNearlyClosest
       /\ StoredIsRounded
       /\ StoredIsLow

LEMMA LoopStart == LoopInit => LoopInv
<1> SUFFICES ASSUME LoopInit
             PROVE  LoopInv
  OBVIOUS
<1>1. subscriptions \in Seq(SubscriptionRows) /\ Len(subscriptions) \in Nat
  <2>1. PICK n \in 0 .. MaxRows : subscriptions \in [1 .. n -> SubscriptionRows]
    BY DEF LoopInit
  <2>2. n \in Nat
    BY MaxRowsAssumption
  <2> QED
    BY <2>1, <2>2, FunctionIsSeq, LenProperties
<1>2. LoopTypeOK
  BY <1>1 DEF LoopInit, LoopTypeOK
<1>3. Seen = {} /\ DOMAIN byUser = {}
  BY DEF LoopInit, Seen
<1> QED
  BY <1>2, <1>3 DEF LoopInv, RowIffMatched, WinnerNearlyClosest, StoredIsRounded, StoredIsLow

(***************************************************************************)
(* One turn of the loop.                                                   *)
(***************************************************************************)
\* What both kinds of turn have in common.
LEMMA LoopStepFacts ==
  ASSUME LoopInv, Step
  PROVE  /\ i \in 1 .. Len(subscriptions) /\ Len(subscriptions) \in Nat
         /\ Seen' = Seen \cup {i} /\ Seen \subseteq 1 .. Len(subscriptions)
         /\ input' = input /\ subscriptions' = subscriptions
         /\ i' \in 1 .. Len(subscriptions) + 1
<1>1. subscriptions \in Seq(SubscriptionRows) /\ i \in 1 .. Len(subscriptions) + 1
  BY DEF LoopInv, LoopTypeOK
<1>2. Len(subscriptions) \in Nat
  BY <1>1, LenProperties
<1>3. i <= Len(subscriptions) /\ i' = i + 1 /\ input' = input /\ subscriptions' = subscriptions
  BY DEF Step
<1> QED
  BY <1>1, <1>2, <1>3 DEF Seen

\* The row is not kept: it does not notify, or a closer one is known.
LEMMA LoopPassesOver ==
  ASSUME LoopInv, Step, ~(Notifies(i) /\ Replaces(i))
  PROVE  LoopInv'
<1>1. byUser' = byUser
  BY DEF Step
<1>2. /\ i \in 1 .. Len(subscriptions) /\ Seen' = Seen \cup {i} /\ Seen \subseteq 1 .. Len(subscriptions)
      /\ input' = input /\ subscriptions' = subscriptions /\ i' \in 1 .. Len(subscriptions) + 1
  BY LoopStepFacts
<1>3. \A n : DistanceOf(n)' = DistanceOf(n) /\ Notifies(n)' = Notifies(n)
  BY <1>2 DEF DistanceOf, Notifies
<1>4. LoopTypeOK'
  BY <1>1, <1>2 DEF LoopInv, LoopTypeOK
<1>5. Notifies(i) => /\ subscriptions[i].user \in DOMAIN byUser
                     /\ ~(DistanceOf(i) < byUser[subscriptions[i].user].distanceKm)
  BY DEF Replaces
<1>6. RowIffMatched'
  BY <1>1, <1>2, <1>3, <1>5 DEF LoopInv, RowIffMatched
<1>7. StoredIsRounded'
  BY <1>1, <1>3 DEF LoopInv, StoredIsRounded
<1>8. ASSUME NEW u \in DOMAIN byUser, NEW n \in Seen', subscriptions[n].user = u, Notifies(n)
      PROVE  /\ byUser[u].distanceKm <= DistanceOf(n) + 5
             /\ DistanceOf(byUser[u].sub) < DistanceOf(n) + 5
  <2>1. CASE n \in Seen
    BY <1>8, <2>1 DEF LoopInv, StoredIsLow, WinnerNearlyClosest
  <2>2. CASE n = i
    <3>1. byUser[u].sub \in 1 .. Len(subscriptions)
      BY <1>2 DEF LoopInv, RowIffMatched
    <3>2. DistanceOf(n) \in Nat /\ DistanceOf(byUser[u].sub) \in Nat
      BY <1>2, <2>2, <3>1, RowFacts DEF LoopInv
    <3>3. byUser[u].distanceKm = RoundToTenth(DistanceOf(byUser[u].sub))
      BY DEF LoopInv, StoredIsRounded
    <3>4. byUser[u].distanceKm <= DistanceOf(n)
      BY <1>5, <1>8, <2>2, <3>2, <3>3, RoundingError
    <3> QED
      BY <3>2, <3>3, <3>4, RoundingError
  <2> QED
    BY <1>2, <2>1, <2>2
<1>9. StoredIsLow' /\ WinnerNearlyClosest'
  BY <1>1, <1>2, <1>3, <1>8 DEF StoredIsLow, WinnerNearlyClosest
<1> QED
  BY <1>4, <1>6, <1>7, <1>9 DEF LoopInv

\* The row is kept: it is the user's first, or closer than what is stored.
LEMMA LoopKeeps ==
  ASSUME LoopInv, Step, Notifies(i), Replaces(i)
  PROVE  LoopInv'
<1> DEFINE u == subscriptions[i].user
<1>1. Keep(i)
  BY DEF Step
<1>2. /\ i \in 1 .. Len(subscriptions) /\ Seen' = Seen \cup {i} /\ Seen \subseteq 1 .. Len(subscriptions)
      /\ input' = input /\ subscriptions' = subscriptions /\ i' \in 1 .. Len(subscriptions) + 1
  BY LoopStepFacts
<1>3. \A n : DistanceOf(n)' = DistanceOf(n) /\ Notifies(n)' = Notifies(n)
  BY <1>2 DEF DistanceOf, Notifies
<1>4. /\ DOMAIN byUser' = DOMAIN byUser \cup {u}
      /\ byUser'[u].sub = i /\ byUser'[u].distanceKm = RoundToTenth(DistanceOf(i))
      /\ byUser'[u] \in [sub : {i}, distanceKm : {RoundToTenth(DistanceOf(i))}]
      /\ \A v \in DOMAIN byUser \ {u} : byUser'[v] = byUser[v]
  BY <1>1 DEF Keep, Candidate
<1>5. u \in Users /\ DistanceOf(i) \in Nat /\ RoundToTenth(DistanceOf(i)) \in Nat
  BY <1>2, RowFacts, RoundingError DEF LoopInv
<1> HIDE DEF u
<1>6. LoopTypeOK'
  <2>1. DOMAIN byUser' \subseteq Users
    BY <1>4, <1>5 DEF LoopInv, LoopTypeOK
  <2>2. ASSUME NEW v \in DOMAIN byUser'
        PROVE  byUser'[v] \in [sub : 1 .. Len(subscriptions), distanceKm : Nat]
    BY <1>2, <1>4, <1>5 DEF LoopInv, LoopTypeOK
  <2> QED
    BY <1>2, <2>1, <2>2 DEF LoopInv, LoopTypeOK
<1>7. RowIffMatched'
  <2>1. DOMAIN byUser' = {subscriptions[n].user : n \in {m \in Seen \cup {i} : Notifies(m)}}
    BY <1>4 DEF LoopInv, RowIffMatched, u
  <2>2. ASSUME NEW v \in DOMAIN byUser'
        PROVE  /\ byUser'[v].sub \in Seen \cup {i}
               /\ subscriptions[byUser'[v].sub].user = v
               /\ Notifies(byUser'[v].sub)
    BY <1>4 DEF LoopInv, RowIffMatched, u
  <2> QED
    BY <1>2, <1>3, <2>1, <2>2 DEF RowIffMatched
<1>8. StoredIsRounded'
  BY <1>3, <1>4 DEF LoopInv, StoredIsRounded
<1>9. ASSUME NEW v \in DOMAIN byUser', NEW n \in Seen', subscriptions[n].user = v, Notifies(n)
      PROVE  /\ byUser'[v].distanceKm <= DistanceOf(n) + 5
             /\ DistanceOf(byUser'[v].sub) < DistanceOf(n) + 5
  <2>1. CASE n = i
    <3>1. v = u
      BY <1>9, <2>1 DEF u
    <3> QED
      BY <1>4, <1>5, <2>1, <3>1, RoundingError
  <2>2. CASE n \in Seen /\ v # u
    BY <1>4, <1>9, <2>2 DEF LoopInv, StoredIsLow, WinnerNearlyClosest
  <2>3. CASE n \in Seen /\ v = u
    <3> DEFINE w == byUser[u].sub
    <3>1. u \in DOMAIN byUser
      BY <1>9, <2>3 DEF LoopInv, RowIffMatched
    <3>2. DistanceOf(i) < byUser[u].distanceKm
      BY <3>1 DEF Replaces, u
    <3>3. byUser[u].distanceKm <= DistanceOf(n) + 5
      BY <1>9, <2>3, <3>1 DEF LoopInv, StoredIsLow
    <3>4. byUser[u].distanceKm = RoundToTenth(DistanceOf(w)) /\ w \in 1 .. Len(subscriptions)
      BY <1>2, <3>1 DEF LoopInv, StoredIsRounded, RowIffMatched
    <3>5. DistanceOf(w) \in Nat /\ DistanceOf(n) \in Nat
      BY <1>2, <2>3, <3>4, RowFacts DEF LoopInv
    <3>6. RoundToTenth(DistanceOf(i)) <= RoundToTenth(DistanceOf(w))
      BY <1>5, <3>2, <3>4, <3>5, RoundingBelow
    <3>7. RoundToTenth(DistanceOf(w)) \in Nat
      BY <3>5, RoundingError
    <3> QED
      BY <1>4, <1>5, <2>3, <3>2, <3>3, <3>4, <3>5, <3>6, <3>7
  <2> QED
    BY <1>2, <2>1, <2>2, <2>3
<1>10. StoredIsLow' /\ WinnerNearlyClosest'
  BY <1>2, <1>3, <1>9 DEF StoredIsLow, WinnerNearlyClosest
<1> QED
  BY <1>6, <1>7, <1>8, <1>10 DEF LoopInv

LEMMA LoopStep == LoopInv /\ [LoopNext]_loopVars => LoopInv'
<1> SUFFICES ASSUME LoopInv, [LoopNext]_loopVars
             PROVE  LoopInv'
  OBVIOUS
<1>1. CASE UNCHANGED loopVars
  BY <1>1 DEF loopVars, LoopInv, LoopTypeOK, RowIffMatched, WinnerNearlyClosest,
     StoredIsRounded, StoredIsLow, Seen, Notifies, DistanceOf
<1> QED
  BY <1>1, LoopPassesOver, LoopKeeps DEF LoopNext, Return

-----------------------------------------------------------------------------
(***************************************************************************)
(* The rows of the loop are well formed in every state.                    *)
(***************************************************************************)
THEOREM LoopTypeCorrect == LoopSpec => []LoopTypeOK
<1>1. LoopInv => LoopTypeOK
  BY DEF LoopInv
<1> QED
  BY <1>1, LoopStart, LoopStep, PTL DEF LoopSpec

(***************************************************************************)
(* For any list of subscriptions in any order, exactly the users with a    *)
(* notifying subscription among those seen have a row, and it names one.   *)
(***************************************************************************)
THEOREM RowsAreMatches == LoopSpec => []RowIffMatched
<1>1. LoopInv => RowIffMatched
  BY DEF LoopInv
<1> QED
  BY <1>1, LoopStart, LoopStep, PTL DEF LoopSpec

(***************************************************************************)
(* For any distances and any number of replacements, the subscription a    *)
(* row names is less than half a tenth of a kilometre farther than any     *)
(* other notifying subscription of its user.                               *)
(***************************************************************************)
THEOREM RoundingDoesNotAccumulate == LoopSpec => []WinnerNearlyClosest
<1>1. LoopInv => WinnerNearlyClosest
  BY DEF LoopInv
<1> QED
  BY <1>1, LoopStart, LoopStep, PTL DEF LoopSpec

-----------------------------------------------------------------------------
(***************************************************************************)
(* The consumer's step Match takes any result of BuildNotifications; what  *)
(* the loop returns is one of them.                                        *)
(***************************************************************************)
\* What loadSubscriptions returned, in any order: row n is that of the
\* subscription ids[n], and every active subscription has a row.
Lists(ids) ==
  /\ ids \in [1 .. Len(subscriptions) -> DOMAIN subs]
  /\ \A n \in 1 .. Len(subscriptions) : subscriptions[n] = subs[ids[n]]
  /\ \A s \in DOMAIN subs :
       subs[s].active => \E n \in 1 .. Len(subscriptions) : ids[n] = s

Returned(ids, e) ==
  {[userId |-> u, eventId |-> e, subscriptionId |-> ids[byUser[u].sub]] : u \in DOMAIN byUser}

ReturnsARow ==
  \A e \in Events : \A ids \in [1 .. Len(subscriptions) -> DOMAIN subs] :
    /\ i > Len(subscriptions)
    /\ input = [event |-> EventOf[e], now |-> now]
    /\ Lists(ids)
    => Returned(ids, e) \in BuildNotifications(e)

LEMMA LoopReturns == LoopInv => ReturnsARow
<1> SUFFICES ASSUME LoopInv, NEW e \in Events,
                    NEW ids \in [1 .. Len(subscriptions) -> DOMAIN subs],
                    i > Len(subscriptions), Lists(ids),
                    input = [event |-> EventOf[e], now |-> now]
             PROVE  Returned(ids, e) \in BuildNotifications(e)
  BY DEF ReturnsARow
<1> DEFINE matched == {subs[s].user : s \in Notifying(e)}
           w == [u \in matched |-> ids[byUser[u].sub]]
<1>1. Seen = 1 .. Len(subscriptions)
  BY LenProperties DEF LoopInv, LoopTypeOK, Seen
<1>2. input.event = EventOf[e] /\ input.now = now
  OBVIOUS
<1>3. ASSUME NEW n \in Seen
      PROVE  /\ ids[n] \in DOMAIN subs /\ subscriptions[n] = subs[ids[n]]
             /\ Notifies(n) <=> ids[n] \in Notifying(e)
             /\ DistanceOf(n) = HaversineKm(subs[ids[n]].place, EventOf[e].place)
  BY <1>1, <1>2, <1>3 DEF Lists, Notifies, Notifying, DistanceOf
<1>4. ASSUME NEW s \in Notifying(e)
      PROVE  \E n \in Seen : ids[n] = s /\ Notifies(n) /\ subscriptions[n].user = subs[s].user
  <2>1. s \in DOMAIN subs /\ subs[s].active
    BY DEF Notifying, ShouldNotify, MatchesSubscription
  <2>2. PICK n \in Seen : ids[n] = s
    BY <1>1, <2>1 DEF Lists
  <2> QED
    BY <1>3, <2>2
<1>5. DOMAIN byUser = {subscriptions[n].user : n \in {m \in Seen : Notifies(m)}}
  BY DEF LoopInv, RowIffMatched
<1>6. matched = DOMAIN byUser
  <2>1. \A u \in matched : u \in DOMAIN byUser
    BY <1>4, <1>5
  <2>2. \A n \in Seen : Notifies(n) => subscriptions[n].user \in matched
    BY <1>3
  <2> QED
    BY <1>5, <2>1, <2>2
<1>7. ASSUME NEW u \in matched
      PROVE  w[u] \in DOMAIN subs /\ w[u] \in Winners(e, u)
  <2>1. /\ byUser[u].sub \in Seen /\ subscriptions[byUser[u].sub].user = u
        /\ Notifies(byUser[u].sub) /\ w[u] = ids[byUser[u].sub]
    BY <1>6 DEF LoopInv, RowIffMatched
  <2>2. w[u] \in Notifying(e) /\ w[u] \in DOMAIN subs /\ subs[w[u]].user = u
    BY <1>3, <2>1
  <2>3. ASSUME NEW t \in Notifying(e), subs[t].user = u
        PROVE  HaversineKm(subs[w[u]].place, EventOf[e].place)
                 < HaversineKm(subs[t].place, EventOf[e].place) + 5
    <3>1. PICK n \in Seen : ids[n] = t /\ Notifies(n) /\ subscriptions[n].user = u
      BY <1>4, <2>3
    <3>2. DistanceOf(byUser[u].sub) < DistanceOf(n) + 5
      BY <1>6, <3>1 DEF LoopInv, WinnerNearlyClosest
    <3> QED
      BY <1>3, <2>1, <3>1, <3>2
  <2> QED
    BY <2>2, <2>3 DEF Winners
<1>8. w \in [matched -> DOMAIN subs] /\ \A u \in matched : w[u] \in Winners(e, u)
  BY <1>7
<1>9. Returned(ids, e) = {[userId |-> u, eventId |-> e, subscriptionId |-> w[u]] : u \in matched}
  BY <1>6 DEF Returned
<1> HIDE DEF w
<1> QED
  BY <1>8, <1>9 DEF BuildNotifications

(***************************************************************************)
(* The consumer's one step Match is what the loop computes: given the      *)
(* active subscriptions in any order, the loop ends with the rows of one   *)
(* of the results Match chooses from, for the event and the time at hand.  *)
(***************************************************************************)
THEOREM MatchIsTheLoop == LoopSpec => []ReturnsARow
  BY LoopStart, LoopStep, LoopReturns, PTL DEF LoopSpec

-----------------------------------------------------------------------------
(***************************************************************************)
(* The pipeline.  What its ingestion does to the consumers is to send them *)
(* events that have happened: what is in the tables and in the hands of a  *)
(* run was listed by a feed, and what is in the topic was recorded or      *)
(* published by hand.                                                      *)
(***************************************************************************)
IngestionTypes ==
  /\ now \in Nat
  /\ feed \subseteq FeedEvents
  /\ recorded \in Seq(FeedEvents)
  /\ found \in [Backends -> SUBSET FeedEvents]
  /\ rows \in [Backends -> SUBSET (1 .. Len(recorded))]
  /\ topic \in Seq(Events)

TopicIsKnown == Range(topic) \subseteq Range(recorded) \cup ManualEvents

ListedHappened ==
  /\ \A e \in feed : Happened(e)
  /\ Range(recorded) \subseteq feed
  /\ \A b \in Backends : found[b] \subseteq feed

PipelineInv ==
  /\ IngestionTypes
  /\ TopicIsKnown
  /\ ListedHappened

\* What the service knows, and what it has told its users.
Known == Range(recorded) \cup (Range(topic) \cap ManualEvents)
Alerts == [a \in Users \X Events |-> TimesTold(a[1], a[2])]

LEMMA EventKinds == FeedEvents \subseteq Events /\ ManualEvents \subseteq Events
  BY SourcesAssumption

\* The operators of the library that the instance of the outbox brings along
\* are those of the library.
LEMMA SameLibrary ==
  ASSUME NEW S, NEW T
  PROVE  /\ Outbox!Cardinality(S) = Cardinality(S)
         /\ Outbox!Bijection(S, T) = Bijection(S, T)
         /\ Outbox!Range(S) = Range(S)
<1>1. Outbox!Cardinality(S) = Cardinality(S)
  BY DEF Outbox!Cardinality, Cardinality
<1>2. Outbox!Bijection(S, T) = Bijection(S, T)
  BY DEF Outbox!Bijection, Bijection, Outbox!Injection, Injection, Outbox!IsInjective,
     IsInjective, Outbox!Surjection, Surjection
<1> QED
  BY <1>1, <1>2 DEF Outbox!Range, Range

\* An order of a finite set is a function on an initial segment.
LEMMA OrderingIsSeq ==
  ASSUME NEW S, IsFiniteSet(S), NEW order \in Outbox!Orderings(S)
  PROVE  Cardinality(S) \in Nat /\ order \in [1 .. Cardinality(S) -> S]
<1>1. order \in Bijection(1 .. Cardinality(S), S)
  BY SameLibrary DEF Outbox!Orderings
<1> QED
  BY <1>1, FS_CardinalityType DEF Bijection, Injection

\* Inserting events appends their rows to the table.
LEMMA RecordAppends ==
  ASSUME PipelineInv, NEW b \in Backends, Outbox!Record(b)
  PROVE  /\ \E new \in Seq(FeedEvents) :
               recorded' = recorded \o new /\ Range(new) \subseteq feed
         /\ found' \in [Backends -> SUBSET feed]
         /\ UNCHANGED <<feed, topic, rows>>
<1>0. IngestionTypes /\ \A d \in Backends : found[d] \subseteq feed
  BY DEF PipelineInv, ListedHappened
<1>1. PICK chunk \in SUBSET found[b] :
        /\ \E new \in Outbox!Orderings(chunk \ Outbox!Recorded) : recorded' = recorded \o new
        /\ found' = [found EXCEPT ![b] = @ \ chunk]
  BY DEF Outbox!Record
<1> DEFINE S == chunk \ Outbox!Recorded
<1>2. PICK new \in Outbox!Orderings(S) : recorded' = recorded \o new
  BY <1>1
<1>3. S \subseteq feed /\ S \subseteq FeedEvents /\ IsFiniteSet(S)
  BY <1>0, SourcesAssumption, FS_Subset DEF IngestionTypes
<1>4. Cardinality(S) \in Nat /\ new \in [1 .. Cardinality(S) -> S]
  BY <1>2, <1>3, OrderingIsSeq
<1>5. new \in [1 .. Cardinality(S) -> FeedEvents]
  BY <1>3, <1>4
<1>6. new \in Seq(FeedEvents)
  BY <1>4, <1>5, FunctionIsSeq
<1>7. Range(new) \subseteq feed
  BY <1>3, <1>4 DEF Range
<1>8. found' \in [Backends -> SUBSET feed]
  BY <1>0, <1>1 DEF IngestionTypes
<1> QED
  BY <1>2, <1>6, <1>7, <1>8 DEF Outbox!Record

\* Sending rows appends messages of recorded events to the log.
LEMMA SendAppends ==
  ASSUME IngestionTypes, NEW ids \in SUBSET (1 .. Len(recorded)), Outbox!Send(ids)
  PROVE  \E sent \in Seq(Events) : topic' = topic \o sent /\ Range(sent) \subseteq Range(recorded)
<1>1. Len(recorded) \in Nat /\ DOMAIN recorded = 1 .. Len(recorded)
  BY LenProperties DEF IngestionTypes
<1>2. IsFiniteSet(ids)
  <2>1. IsFiniteSet(1 .. Len(recorded))
    BY <1>1, FS_Interval
  <2> QED
    BY <2>1, FS_Subset
<1>3. PICK order \in Outbox!Orderings(ids) :
        topic' = topic \o [n \in 1 .. Cardinality(ids) |-> recorded[order[n]]]
  BY SameLibrary DEF Outbox!Send
<1> DEFINE sent == [n \in 1 .. Cardinality(ids) |-> recorded[order[n]]]
<1>4. /\ Cardinality(ids) \in Nat
      /\ \A n \in 1 .. Cardinality(ids) : order[n] \in 1 .. Len(recorded)
  <2>1. Cardinality(ids) \in Nat /\ order \in [1 .. Cardinality(ids) -> ids]
    BY <1>2, OrderingIsSeq
  <2> QED
    BY <2>1
<1>5. \A n \in 1 .. Cardinality(ids) : recorded[order[n]] \in Events
  BY <1>4, EventKinds, ElementOfSeq DEF IngestionTypes
<1>6. sent \in Seq(Events)
  BY <1>4, <1>5, IsASeq
<1>7. Range(sent) \subseteq Range(recorded)
  BY <1>1, <1>4 DEF Range
<1> QED
  BY <1>3, <1>6, <1>7

\* A step of the ingestion: what was recorded and sent stays, and what it
\* sends has happened and was recorded or published by hand.
Sends ==
  \/ topic' = topic
  \/ \E sent \in Seq(Events) :
       topic' = topic \o sent /\ \A e \in Range(sent) : Happened(e)

Grows ==
  /\ PipelineInv'
  /\ Known \subseteq Known'
  /\ Sends

LEMMA HappenedKept == ASSUME now' = now PROVE \A e : Happened(e)' = Happened(e)
  BY DEF Happened

\* A step that changes neither table nor log.
LEMMA QuietGrows ==
  ASSUME PipelineInv, UNCHANGED <<now, recorded, topic>>,
         feed \subseteq feed', feed' \subseteq FeedEvents, \A e \in feed' : Happened(e),
         found' \in [Backends -> SUBSET feed'],
         rows' \in [Backends -> SUBSET (1 .. Len(recorded))]
  PROVE  Grows
<1>1. IngestionTypes' /\ TopicIsKnown'
  BY DEF PipelineInv, IngestionTypes, TopicIsKnown
<1>2. ListedHappened'
  BY HappenedKept DEF PipelineInv, ListedHappened
<1> QED
  BY <1>1, <1>2 DEF PipelineInv, Grows, Sends, Known

LEMMA FetchGrows ==
  ASSUME PipelineInv, NEW b \in Backends, Outbox!Fetch(b), now' = now
  PROVE  Grows
<1>1. PICK failed : Outbox!FetchWith(b, failed)
  BY DEF Outbox!Fetch
<1>2. PICK new \in SUBSET feed : found' = [found EXCEPT ![b] = new]
  BY <1>1 DEF Outbox!FetchWith, Outbox!NewIn
<1>3. found' \in [Backends -> SUBSET feed] /\ UNCHANGED <<feed, recorded, topic, rows>>
  BY <1>1, <1>2 DEF Outbox!FetchWith, PipelineInv, IngestionTypes, ListedHappened
<1> QED
  BY <1>3, QuietGrows DEF PipelineInv, IngestionTypes, ListedHappened

LEMMA RecordGrows ==
  ASSUME PipelineInv, NEW b \in Backends, Outbox!Record(b), now' = now
  PROVE  Grows
<1>0. IngestionTypes /\ ListedHappened /\ TopicIsKnown
  BY DEF PipelineInv
<1>1. found' \in [Backends -> SUBSET feed] /\ UNCHANGED <<feed, topic, rows>>
  BY RecordAppends
<1>2. PICK new \in Seq(FeedEvents) : recorded' = recorded \o new /\ Range(new) \subseteq feed
  BY RecordAppends
<1>3. /\ recorded' \in Seq(FeedEvents)
      /\ Range(recorded') = Range(recorded) \cup Range(new)
  BY <1>0, <1>2, Appended DEF IngestionTypes
<1>4. rows' \in [Backends -> SUBSET (1 .. Len(recorded'))]
  <2>1. Len(recorded') = Len(recorded) + Len(new) /\ Len(recorded) \in Nat /\ Len(new) \in Nat
    BY <1>0, <1>2, ConcatProperties, LenProperties DEF IngestionTypes
  <2>2. 1 .. Len(recorded) \subseteq 1 .. Len(recorded')
    BY <2>1
  <2> QED
    BY <1>0, <1>1, <2>2 DEF IngestionTypes
<1>5. IngestionTypes'
  BY <1>0, <1>1, <1>3, <1>4 DEF IngestionTypes
<1>6. ListedHappened'
  BY <1>0, <1>1, <1>2, <1>3, HappenedKept DEF ListedHappened
<1> QED
  BY <1>0, <1>1, <1>3, <1>5, <1>6 DEF PipelineInv, Grows, Sends, TopicIsKnown, Known

\* The rows that a run takes, and the chunk it sends, are rows of the table.
LEMMA ChunkIsRows ==
  ASSUME IngestionTypes, NEW b \in Backends
  PROVE  Outbox!Chunk(b) \in SUBSET (1 .. Len(recorded)) /\ Outbox!Chunk(b) \subseteq rows[b]
  BY DEF Outbox!Chunk, Outbox!Oldest, IngestionTypes

LEMMA QueryGrows ==
  ASSUME PipelineInv, NEW b \in Backends, Outbox!QueryOutbox(b), now' = now
  PROVE  Grows
<1>1. PICK taken \in SUBSET (1 .. Len(recorded)) : rows' = [rows EXCEPT ![b] = taken]
  BY DEF Outbox!QueryOutbox, Outbox!Oldest, Outbox!Pending, Outbox!Ids
<1>2. rows' \in [Backends -> SUBSET (1 .. Len(recorded))] /\ UNCHANGED <<feed, recorded, topic, found>>
  BY <1>1 DEF Outbox!QueryOutbox, PipelineInv, IngestionTypes
<1>3. found \in [Backends -> SUBSET feed]
  BY DEF PipelineInv, IngestionTypes, ListedHappened
<1> QED
  BY <1>2, <1>3, QuietGrows DEF PipelineInv, IngestionTypes, ListedHappened

\* Messages appended to the log.
LEMMA AppendingGrows ==
  ASSUME PipelineInv, UNCHANGED <<now, feed, recorded, found>>,
         rows' \in [Backends -> SUBSET (1 .. Len(recorded))],
         NEW sent \in Seq(Events), topic' = topic \o sent,
         Range(sent) \subseteq Range(recorded) \cup ManualEvents,
         \A e \in Range(sent) : Happened(e)
  PROVE  Grows
<1>1. topic \in Seq(Events)
  BY DEF PipelineInv, IngestionTypes
<1>2. topic' \in Seq(Events) /\ Range(topic') = Range(topic) \cup Range(sent)
  BY <1>1, Appended
<1>3. IngestionTypes' /\ TopicIsKnown'
  BY <1>2 DEF PipelineInv, IngestionTypes, TopicIsKnown
<1>4. ListedHappened'
  BY HappenedKept DEF PipelineInv, ListedHappened
<1> QED
  BY <1>2, <1>3, <1>4 DEF Grows, PipelineInv, Sends, Known

LEMMA PublishGrows ==
  ASSUME PipelineInv, NEW b \in Backends, now' = now,
         Outbox!Publish(b) \/ Outbox!PublishFails(b)
  PROVE  Grows
<1>0. IngestionTypes /\ \A e \in Range(recorded) : Happened(e)
  BY DEF PipelineInv, ListedHappened
<1>1. PICK ids \in SUBSET (1 .. Len(recorded)) : Outbox!Send(ids)
  BY <1>0, ChunkIsRows DEF Outbox!Publish, Outbox!PublishFails
<1>2. PICK sent \in Seq(Events) :
        topic' = topic \o sent /\ Range(sent) \subseteq Range(recorded)
  BY <1>0, <1>1, SendAppends
<1>3. /\ UNCHANGED <<feed, recorded, found>>
      /\ rows' \in [Backends -> SUBSET (1 .. Len(recorded))]
  BY <1>0 DEF Outbox!Publish, Outbox!PublishFails, IngestionTypes
<1> QED
  BY <1>0, <1>2, <1>3, AppendingGrows

LEMMA AdminPublishGrows ==
  ASSUME PipelineInv, NEW e \in ManualEvents, Happened(e), Outbox!AdminPublish(e), now' = now
  PROVE  Grows
<1>1. UNCHANGED <<feed, recorded, found, rows>> /\ topic' = topic \o <<e>>
  BY DEF Outbox!AdminPublish
<1>2. <<e>> \in Seq(Events) /\ Range(<<e>>) = {e}
  BY EventKinds DEF Range
<1>3. PICK sent \in Seq(Events) : sent = <<e>>
  BY <1>2
<1>4. Range(sent) \subseteq Range(recorded) \cup ManualEvents /\ \A m \in Range(sent) : Happened(m)
  BY <1>2, <1>3
<1>5. topic' = topic \o sent
  BY <1>1, <1>3
<1> QED
  BY <1>1, <1>4, <1>5, AppendingGrows DEF PipelineInv, IngestionTypes

LEMMA IngestionGrows ==
  ASSUME PipelineInv, Ingestion
  PROVE  Grows
<1>0. now' = now
  BY DEF Ingestion
<1>1. /\ IngestionTypes /\ \A e \in feed : Happened(e)
      /\ found \in [Backends -> SUBSET feed]
  BY DEF PipelineInv, IngestionTypes, ListedHappened
<1>2. ASSUME NEW e \in FeedEvents, Happened(e), Outbox!EventAppears(e)
      PROVE  Grows
  <2>1. feed' = feed \cup {e} /\ UNCHANGED <<recorded, topic, found, rows>>
    BY <1>2 DEF Outbox!EventAppears
  <2>2. found' \in [Backends -> SUBSET feed']
    BY <1>1, <2>1
  <2> QED
    BY <1>0, <1>1, <1>2, <2>1, <2>2, QuietGrows DEF IngestionTypes
<1>3. ASSUME NEW b \in Backends, Outbox!Mark(b) \/ Outbox!Interrupted(b)
      PROVE  Grows
  <2>1. /\ UNCHANGED <<feed, recorded, topic>>
        /\ found' \in [Backends -> SUBSET feed]
        /\ rows' \in [Backends -> SUBSET (1 .. Len(recorded))]
    BY <1>1, <1>3 DEF Outbox!Mark, Outbox!Interrupted, IngestionTypes
  <2> QED
    BY <1>0, <1>1, <2>1, QuietGrows DEF IngestionTypes
<1>4. ASSUME NEW b \in Backends, Outbox!RunStep(b)
      PROVE  Grows
  BY <1>0, <1>3, <1>4, FetchGrows, RecordGrows, QueryGrows, PublishGrows DEF Outbox!RunStep
<1> QED
  BY <1>0, <1>2, <1>3, <1>4, AdminPublishGrows DEF Ingestion

-----------------------------------------------------------------------------
(***************************************************************************)
(* PipelineInv is an invariant.                                            *)
(***************************************************************************)
LEMMA PipelineStart == PipelineInit => PipelineInv
<1> SUFFICES ASSUME PipelineInit
             PROVE  PipelineInv
  OBVIOUS
<1>1. /\ now = 0 /\ feed = {} /\ recorded = <<>> /\ topic = <<>>
      /\ found = [b \in Backends |-> {}] /\ rows = [b \in Backends |-> {}]
  BY DEF PipelineInit, Init, Outbox!Init
<1>2. recorded \in Seq(FeedEvents) /\ topic \in Seq(Events)
  BY <1>1, EmptySeq
<1>3. Range(recorded) = {} /\ Range(topic) = {}
  BY <1>1 DEF Range
<1> QED
  BY <1>1, <1>2, <1>3 DEF PipelineInv, IngestionTypes, TopicIsKnown, ListedHappened

\* A step of the delivery leaves tables and log of the ingestion alone.
LEMMA DeliveryReads ==
  ASSUME Delivery
  PROVE  UNCHANGED <<runVars, topic>> /\ (now' = now \/ now' = now + 1)
<1>1. UNCHANGED topic /\ (now' = now \/ now' = now + 1)
  BY DEF Delivery, Tick, Account, CreateSub, EditSub, DeleteSub, DeleteUser, Consume, Handle,
         Assign, Commit, Leave, SkipInvalid, Match, Insert, InsertRejected, InsertFails
<1> QED
  BY <1>1 DEF Delivery

LEMMA PipelineStep == PipelineInv /\ [PipelineNext]_pipelineVars => PipelineInv'
<1> SUFFICES ASSUME PipelineInv, [PipelineNext]_pipelineVars
             PROVE  PipelineInv'
  OBVIOUS
<1>1. ASSUME UNCHANGED <<runVars, topic>>, now' = now \/ now' = now + 1
      PROVE  PipelineInv'
  <2>1. UNCHANGED <<feed, recorded, found, rows, topic>> /\ now' \in Nat
    BY <1>1 DEF runVars, PipelineInv, IngestionTypes
  <2>2. IngestionTypes' /\ TopicIsKnown'
    BY <2>1 DEF PipelineInv, IngestionTypes, TopicIsKnown
  <2>3. ASSUME NEW e \in feed PROVE Happened(e)'
    <3>1. EventOf[e].at \in Nat /\ now \in Nat /\ Happened(e)
      BY EventKinds, EventOfAssumption
         DEF EventData, PipelineInv, IngestionTypes, ListedHappened
    <3> QED
      BY <1>1, <3>1 DEF Happened
  <2> QED
    BY <2>1, <2>2, <2>3 DEF PipelineInv, ListedHappened
<1>2. CASE UNCHANGED pipelineVars
  BY <1>1, <1>2 DEF pipelineVars
<1>3. CASE Ingestion
  BY <1>3, IngestionGrows DEF Grows
<1>4. CASE Delivery
  BY <1>1, <1>4, DeliveryReads
<1> QED
  BY <1>2, <1>3, <1>4 DEF PipelineNext

(***************************************************************************)
(* What is in the topic was recorded by a run or published by an admin,    *)
(* and what a feed lists, a run holds or the table records has happened.   *)
(***************************************************************************)
THEOREM PipelineInvariant == PipelineSpec => []PipelineInv
<1> USE PipelineStart, PipelineStep
<1> HIDE DEF PipelineInv
<1> QED
  BY PTL DEF PipelineSpec

(***************************************************************************)
(* Joined to the consumers, the outbox still does only what the outbox     *)
(* alone does: what is proved of IngestOutbox holds in the pipeline.       *)
(***************************************************************************)
THEOREM PipelineIngests == PipelineSpec => Outbox!Spec
<1>1. PipelineInit => Outbox!Init
  BY DEF PipelineInit
<1>2. [PipelineNext]_pipelineVars => [Outbox!Next]_Outbox!vars
  <2> SUFFICES ASSUME [PipelineNext]_pipelineVars
               PROVE  [Outbox!Next]_Outbox!vars
    OBVIOUS
  <2>1. CASE Ingestion
    <3>1. ASSUME NEW e \in FeedEvents, Outbox!EventAppears(e)
          PROVE  Outbox!Next
      BY <3>1 DEF Outbox!Next, FeedEvents, Outbox!FeedEvents
    <3>2. ASSUME NEW b \in Backends, Outbox!RunStep(b) \/ Outbox!Interrupted(b)
          PROVE  Outbox!Next
      BY <3>2 DEF Outbox!Next
    <3>3. ASSUME NEW e \in ManualEvents, Outbox!AdminPublish(e)
          PROVE  Outbox!Next
      BY <3>3 DEF Outbox!Next
    <3> QED
      BY <2>1, <3>1, <3>2, <3>3 DEF Ingestion
  <2>2. CASE Delivery
    BY <2>2, DeliveryReads DEF runVars, Outbox!vars
  <2>3. CASE UNCHANGED pipelineVars
    BY <2>3 DEF pipelineVars, runVars, Outbox!vars
  <2> QED
    BY <2>1, <2>2, <2>3 DEF PipelineNext
<1> QED
  BY <1>1, <1>2, PTL DEF PipelineSpec, Outbox!Spec

(***************************************************************************)
(* Joined to the ingestion, the consumers do only what they do under       *)
(* producers of any kind: what is proved of AlertConsumer holds in the     *)
(* pipeline, however much the backends send.                               *)
(***************************************************************************)
THEOREM PipelineDelivers == PipelineSpec => OpenSpec
<1>1. PipelineInit => Init
  BY DEF PipelineInit
<1>2. PipelineInv /\ [PipelineNext]_pipelineVars => [OpenNext]_vars
  <2> SUFFICES ASSUME PipelineInv, [PipelineNext]_pipelineVars
               PROVE  [OpenNext]_vars
    OBVIOUS
  <2>1. CASE Ingestion
    <3>1. Sends /\ UNCHANGED <<now, consumerVars>>
      BY <2>1, IngestionGrows DEF Grows, Ingestion
    <3>2. CASE topic' = topic
      BY <3>1, <3>2 DEF consumerVars, dbVars, groupVars, vars
    <3>3. ASSUME NEW sent \in Seq(Events), topic' = topic \o sent,
                 \A e \in Range(sent) : Happened(e)
          PROVE  OpenNext
      <4>1. sent \in Seq(Messages)
        BY SeqMonotonic DEF Messages
      <4>2. Produce(sent)
        BY <3>1, <3>3 DEF Produce, Happened, consumerVars
      <4> QED
        BY <4>1, <4>2 DEF OpenNext
    <3> QED
      BY <3>1, <3>2, <3>3 DEF Sends
  <2>2. CASE Delivery
    BY <2>2 DEF Delivery, OpenNext
  <2>3. CASE UNCHANGED pipelineVars
    BY <2>3 DEF pipelineVars, consumerVars, dbVars, groupVars, vars
  <2> QED
    BY <2>1, <2>2, <2>3 DEF PipelineNext
<1> HIDE DEF PipelineInv
<1> QED
  BY <1>1, <1>2, PipelineInvariant, PTL DEF PipelineSpec, OpenSpec

-----------------------------------------------------------------------------
(***************************************************************************)
(* So the consumer's promises hold of the pipeline as a whole.             *)
(***************************************************************************)
\* Through every retry, duplicate and rebalance between feed and user, no alert is missed.
THEOREM PipelineMissesNoAlert == PipelineSpec => []NoMissedAlert
  BY PipelineDelivers, NothingIsMissed

\* However often the outbox sends an event again, a user has one notification of it.
THEOREM PipelineAlertsOnce == PipelineSpec => []AtMostOnePerUserEvent
  BY PipelineDelivers, OneEach

\* Nor does a notification name what is gone, foreign or newer than its event.
THEOREM PipelineAlertsAreAnchored == PipelineSpec => []AlertsAreAnchored
  BY PipelineDelivers, Anchored

\* And what a user has seen stays, whatever is sent or delivered again.
THEOREM PipelineAlertsStay == PipelineSpec => AlertsStay
  BY PipelineDelivers, AllStay

-----------------------------------------------------------------------------
(***************************************************************************)
(* Every step maps to a step of the abstract service or to none.           *)
(***************************************************************************)
\* What an account has been told of an event: with one notification at most,
\* none or one.
Of(u, e) == {n \in notifications : n.userId = u /\ n.eventId = e}

LEMMA ToldOnce ==
  ASSUME AtMostOnePerUserEvent, NEW u, NEW e
  PROVE  TimesTold(u, e) = IF Of(u, e) = {} THEN 0 ELSE 1
<1>1. CASE Of(u, e) = {}
  BY <1>1, FS_EmptySet DEF TimesTold, Of
<1>2. ASSUME NEW m \in Of(u, e)
      PROVE  TimesTold(u, e) = 1
  <2>1. Of(u, e) = {m}
    BY <1>2 DEF Of, AtMostOnePerUserEvent
  <2> QED
    BY <2>1, FS_Singleton DEF TimesTold, Of
<1> QED
  BY <1>1, <1>2

\* The same after a step.
LEMMA ToldOnceNext ==
  ASSUME AtMostOnePerUserEvent', NEW u, NEW e
  PROVE  TimesTold(u, e)' = IF Of(u, e)' = {} THEN 0 ELSE 1
<1>1. CASE Of(u, e)' = {}
  BY <1>1, FS_EmptySet DEF TimesTold, Of
<1>2. ASSUME NEW m \in Of(u, e)'
      PROVE  TimesTold(u, e)' = 1
  <2>1. Of(u, e)' = {m}
    BY <1>2 DEF Of, AtMostOnePerUserEvent
  <2> QED
    BY <2>1, FS_Singleton DEF TimesTold, Of
<1> QED
  BY <1>1, <1>2

LEMMA ServiceStart == PipelineInit => Service!Init
<1> SUFFICES ASSUME PipelineInit
             PROVE  Service!Init
  OBVIOUS
<1>1. notifications = {}
  BY DEF PipelineInit, Init
<1>2. \A u, e : TimesTold(u, e) = 0
  BY <1>1, FS_EmptySet DEF TimesTold
<1> QED
  BY <1>2 DEF PipelineInit, Init, Outbox!Init, Service!Init, Range

ServiceInv == PipelineInv /\ HeldInv /\ AtMostOnePerUserEvent

\* Ingestion: the service learns of the events newly recorded or published.
LEMMA ServiceLearns ==
  ASSUME PipelineInv, Ingestion
  PROVE  Service!Next
<1>1. Grows /\ UNCHANGED <<users, notifications>>
  BY IngestionGrows DEF Ingestion, consumerVars, dbVars
<1>0. UNCHANGED Alerts
  BY <1>1 DEF Alerts, TimesTold
<1>2. Known' \subseteq Events
  <2>1. Range(recorded') \subseteq FeedEvents
    BY <1>1, ElementOfSeq, LenProperties DEF Grows, PipelineInv, IngestionTypes, Range
  <2> QED
    BY <2>1, EventKinds DEF Known
<1>3. PICK E : E = Known' \ Known
  OBVIOUS
<1>4. E \subseteq Events \ Known /\ Known' = Known \cup E
  BY <1>1, <1>2, <1>3 DEF Grows
<1>5. Service!Learn(E)
  BY <1>0, <1>1, <1>4 DEF Service!Learn, Known, Alerts
<1>6. E \in SUBSET Events
  BY <1>4
<1> QED
  BY <1>5, <1>6 DEF Service!Next

\* Rows inserted for the event of a message: the service tells their users.
LEMMA ServiceTells ==
  ASSUME ServiceInv, AtMostOnePerUserEvent', UNCHANGED <<users, recorded, topic>>,
         NEW c \in Consumers, pc[c] = "insert", Referenced(built[c]),
         notifications' = notifications \cup NewRows(built[c])
  PROVE  Service!Next
<1> DEFINE new == NewRows(built[c])
           U == {r.userId : r \in new}
<1>0. TypeOK /\ HeldRows /\ IngestionTypes /\ TopicIsKnown
  BY DEF ServiceInv, PipelineInv, HeldInv
<1>1. PICK e : e = Message(c)
  OBVIOUS
<1>2. new \subseteq built[c] /\ \A r \in built[c] : r.eventId = e /\ r.userId \in users
  BY <1>0, <1>1 DEF HeldRows, NewRows, Referenced
<1>3. e \in Range(topic) /\ e \in Events
  <2>1. Len(topic) \in Nat /\ DOMAIN topic = 1 .. Len(topic)
    BY <1>0, LenProperties DEF IngestionTypes
  <2>2. position[c] + 1 \in DOMAIN topic
    BY <1>0, <2>1, MessageFacts DEF TypeOK
  <2> QED
    BY <1>0, <1>1, <2>1, <2>2, ElementOfSeq DEF Range, Message, IngestionTypes
<1>4. e \in Known
  BY <1>0, <1>3 DEF TopicIsKnown, Known
<1>5. U \subseteq users /\ users \subseteq Users
  BY <1>0, <1>2 DEF TypeOK
<1>6. \A u \in U : TimesTold(u, e) = 0
  <2>1. \A u \in U : Of(u, e) = {}
    BY <1>2 DEF Of, NewRows
  <2> QED
    BY <2>1, ToldOnce DEF ServiceInv
<1>7. Alerts' = [a \in Users \X Events |->
                   IF a \in U \X {e} THEN TimesTold(a[1], a[2]) + 1 ELSE TimesTold(a[1], a[2])]
  <2> SUFFICES ASSUME NEW u \in Users, NEW f \in Events
               PROVE  TimesTold(u, f)' = IF u \in U /\ f = e THEN TimesTold(u, f) + 1 ELSE TimesTold(u, f)
    BY DEF Alerts
  <2>1. Of(u, f)' = Of(u, f) \cup {r \in new : r.userId = u /\ r.eventId = f}
    BY DEF Of
  <2>2. CASE u \in U /\ f = e
    <3>1. Of(u, f)' # {}
      BY <1>2, <2>1, <2>2
    <3> QED
      BY <1>6, <2>2, <3>1, ToldOnceNext
  <2>3. CASE ~ (u \in U /\ f = e)
    <3>1. Of(u, f)' = Of(u, f)
      BY <1>2, <2>1, <2>3
    <3> QED
      BY <2>3, <3>1, ToldOnce, ToldOnceNext DEF ServiceInv
  <2> QED
    BY <2>2, <2>3
<1> HIDE DEF U
<1>8. PICK V \in SUBSET Users : V = U
  BY <1>5
<1>9. \A v \in V : Alerts[<<v, e>>] = 0
  <2> SUFFICES ASSUME NEW v \in V
               PROVE  Alerts[<<v, e>>] = 0
    OBVIOUS
  <2>1. <<v, e>> \in Users \X Events /\ <<v, e>>[1] = v /\ <<v, e>>[2] = e
    BY <1>3, <1>8
  <2>2. Alerts[<<v, e>>] = TimesTold(v, e)
    BY <2>1 DEF Alerts
  <2> QED
    BY <1>6, <1>8, <2>2
<1>10. Alerts' = [a \in Users \X Events |->
                    IF a \in V \X {e} THEN Alerts[a] + 1 ELSE Alerts[a]]
  BY <1>7, <1>8 DEF Alerts
<1>11. Service!Alert(e, V)
  <2>1. UNCHANGED <<users, Known>>
    BY DEF Known
  <2> QED
    BY <1>4, <1>5, <1>8, <1>9, <1>10, <2>1 DEF Service!Alert, Known, Alerts
<1> QED
  BY <1>3, <1>11 DEF Service!Next

LEMMA ServiceCloses ==
  ASSUME UNCHANGED <<recorded, topic>>, NEW u \in Users, DeleteUser(u)
  PROVE  Service!Next
<1>1. /\ u \in users /\ users' = users \ {u}
      /\ notifications' = {n \in notifications : n.userId # u}
  BY DEF DeleteUser
<1>2. Alerts' = [a \in Users \X Events |-> IF a[1] = u THEN 0 ELSE Alerts[a]]
  <2> SUFFICES ASSUME NEW v \in Users, NEW e \in Events
               PROVE  TimesTold(v, e)' = IF v = u THEN 0 ELSE TimesTold(v, e)
    BY DEF Alerts
  <2>1. CASE v = u
    <3>1. Of(v, e)' = {}
      BY <1>1, <2>1 DEF Of
    <3> QED
      BY <2>1, <3>1, FS_EmptySet DEF TimesTold, Of
  <2>2. CASE v # u
    <3>1. Of(v, e)' = Of(v, e)
      BY <1>1, <2>2 DEF Of
    <3> QED
      BY <2>2, <3>1 DEF TimesTold, Of
  <2> QED
    BY <2>1, <2>2
<1>3. Service!Close(u)
  BY <1>1, <1>2 DEF Service!Close, Alerts
<1> QED
  BY <1>3 DEF Service!Next

\* A deleted subscription takes its name off the notifications: they stay
\* alerts of the same account about the same event.
LEMMA ServiceKeepsAlerts ==
  ASSUME TypeOK, AtMostOnePerUserEvent, AtMostOnePerUserEvent', NEW s \in Subs, DeleteSub(s)
  PROVE  Alerts' = Alerts
<1>1. \A m \in notifications' : \E n \in notifications :
        m.userId = n.userId /\ m.eventId = n.eventId
  BY Unlinked
<1>2. \A n \in notifications : \E m \in notifications' :
        m.userId = n.userId /\ m.eventId = n.eventId
  BY Unlinked
<1>3. \A u, e : Of(u, e)' = {} <=> Of(u, e) = {}
  BY <1>1, <1>2 DEF Of
<1>4. \A u, e : TimesTold(u, e)' = TimesTold(u, e)
  BY <1>3, ToldOnce, ToldOnceNext
<1> QED
  BY <1>4 DEF Alerts

LEMMA QuietService ==
  ASSUME UNCHANGED <<users, recorded, topic>>, Alerts' = Alerts
  PROVE  UNCHANGED Service!vars
<1>1. UNCHANGED <<users, Known, Alerts>>
  BY DEF Known
<1> QED
  BY <1>1 DEF Service!vars, Known, Alerts

LEMMA ConsumeServes ==
  ASSUME ServiceInv, AtMostOnePerUserEvent', UNCHANGED <<recorded, topic>>,
         NEW c \in Consumers, Consume(c)
  PROVE  [Service!Next]_Service!vars
<1>0. TypeOK
  BY DEF ServiceInv, HeldInv
<1>1. CASE notifications' = notifications
  <2>1. Alerts' = Alerts /\ users' = users
    BY <1>0, <1>1, ConsumeEffects DEF Alerts, TimesTold
  <2> QED
    BY <2>1, QuietService
<1>2. CASE /\ pc[c] = "insert" /\ Referenced(built[c])
           /\ notifications' = notifications \cup NewRows(built[c])
  BY <1>0, <1>2, ConsumeEffects, ServiceTells
<1> QED
  BY <1>0, <1>1, <1>2, ConsumeEffects

LEMMA AccountServes ==
  ASSUME TypeOK, AtMostOnePerUserEvent, AtMostOnePerUserEvent',
         UNCHANGED <<recorded, topic>>, Account
  PROVE  [Service!Next]_Service!vars
<1>1. ASSUME NEW s \in Subs, NEW u \in Users, NEW r \in Rules, CreateSub(s, u, r)
      PROVE  users' = users /\ Alerts' = Alerts
  BY <1>1 DEF CreateSub, Alerts, TimesTold
<1>2. ASSUME NEW s \in Subs, NEW r \in Rules, NEW a \in BOOLEAN, EditSub(s, r, a)
      PROVE  users' = users /\ Alerts' = Alerts
  BY <1>2 DEF EditSub, Alerts, TimesTold
<1>3. ASSUME NEW s \in Subs, DeleteSub(s)
      PROVE  users' = users /\ Alerts' = Alerts
  BY <1>3, ServiceKeepsAlerts DEF DeleteSub
<1>4. ASSUME NEW u \in Users, DeleteUser(u)
      PROVE  Service!Next
  BY <1>4, ServiceCloses
<1> QED
  BY <1>1, <1>2, <1>3, <1>4, QuietService DEF Account

LEMMA ServiceStep ==
  ServiceInv /\ AtMostOnePerUserEvent' /\ [PipelineNext]_pipelineVars
    => [Service!Next]_Service!vars
<1> SUFFICES ASSUME ServiceInv, AtMostOnePerUserEvent', [PipelineNext]_pipelineVars
             PROVE  [Service!Next]_Service!vars
  OBVIOUS
<1>1. CASE UNCHANGED <<users, recorded, topic, notifications>>
  <2>1. Alerts' = Alerts
    BY <1>1 DEF Alerts, TimesTold
  <2> QED
    BY <1>1, <2>1, QuietService
<1>2. CASE Ingestion
  BY <1>2, ServiceLearns DEF ServiceInv
<1>3. CASE Delivery
  <2>1. UNCHANGED <<recorded, topic>>
    BY <1>3, DeliveryReads DEF runVars
  <2>2. CASE Tick
    BY <1>1, <2>1, <2>2 DEF Tick, dbVars
  <2>3. CASE Account
    BY <2>1, <2>3, AccountServes DEF ServiceInv, HeldInv
  <2>4. ASSUME NEW c \in Consumers, Consume(c)
        PROVE  [Service!Next]_Service!vars
    BY <2>1, <2>4, ConsumeServes
  <2> QED
    BY <1>3, <2>2, <2>3, <2>4 DEF Delivery
<1>4. CASE UNCHANGED pipelineVars
  BY <1>1, <1>4 DEF pipelineVars, runVars, consumerVars, dbVars
<1> QED
  BY <1>2, <1>3, <1>4 DEF PipelineNext

(***************************************************************************)
(* The pipeline is an alert service: recorded and published events are     *)
(* what the service knows of, an inserted row is an alert about one of     *)
(* them to an account that is open and was not told of it before, a        *)
(* deleted account takes its alerts along, and nothing else that the       *)
(* pipeline does is seen by its users.                                     *)
(***************************************************************************)
THEOREM PipelineIsAnAlertService == PipelineSpec => ImplementsAlertService
<1>1. PipelineSpec => []ServiceInv
  <2>1. PipelineInv /\ HeldInv /\ AtMostOnePerUserEvent => ServiceInv
    BY DEF ServiceInv
  <2> HIDE DEF PipelineInv, HeldInv, ServiceInv, AtMostOnePerUserEvent
  <2> QED
    BY <2>1, PipelineInvariant, PipelineDelivers, HeldAlways, PipelineAlertsOnce, PTL
<1>2. ServiceInv /\ AtMostOnePerUserEvent' /\ [PipelineNext]_pipelineVars
        => [Service!Next]_Service!vars
  BY ServiceStep
<1> HIDE DEF ServiceInv, AtMostOnePerUserEvent
<1> QED
  BY <1>1, <1>2, ServiceStart, PipelineAlertsOnce, PTL DEF PipelineSpec, ImplementsAlertService, Service!Spec
=============================================================================
