------------------------- MODULE IngestOutboxProofs -------------------------
(***************************************************************************)
(* Proofs about IngestOutbox and IngestRunner: type correctness, that a    *)
(* marked row is in the topic, that an event is recorded once and goes out *)
(* a bounded number of times, that a single backend drains the outbox      *)
(* oldest first, and that a wake-up call is answered truthfully.           *)
(***************************************************************************)
EXTENDS IngestRunner, TLAPS, FiniteSetTheorems, SequenceTheorems,
        WellFoundedInduction

-----------------------------------------------------------------------------
(***************************************************************************)
(* Lemmas about the helpers on sequences and sets of ids.                  *)
(***************************************************************************)

\* Any set of events that a run found is finite.
LEMMA FoundFinite ==
  ASSUME NEW S \in SUBSET FeedEvents
  PROVE  IsFiniteSet(S) /\ Cardinality(S) \in Nat
  BY EventsAssumption, FS_Subset, FS_CardinalityType

\* Any set of row ids is finite.
LEMMA IdsFinite ==
  ASSUME NEW n \in Nat, NEW S \in SUBSET (1 .. n)
  PROVE  IsFiniteSet(S) /\ Cardinality(S) \in Nat
<1>1. IsFiniteSet(1 .. n)
  BY FS_Interval
<1> QED
  BY <1>1, FS_Subset, FS_CardinalityType

\* A nonempty set of naturals has a least element.
LEMMA LeastExists ==
  ASSUME NEW S \in SUBSET Nat, S # {}
  PROVE  \E m \in S : \A n \in S : m <= n
<1>1. PICK m \in S : \A n \in S : ~(<<n, m>> \in OpToRel(<, Nat))
  BY NatLessThanWellFounded, WFMin
<1>2. \A n \in S : ~(n < m)
  BY <1>1 DEF OpToRel
<1> QED
  BY <1>2

\* The k oldest ids of a set are ids of it, and there are some.
LEMMA OldestProperties ==
  ASSUME NEW S \in SUBSET Nat, NEW k \in Nat \ {0}
  PROVE  /\ Oldest(S, k) \subseteq S
         /\ S # {} => Oldest(S, k) # {}
<1>1. ASSUME S # {}
      PROVE  Oldest(S, k) # {}
  <2>1. PICK m \in S : \A n \in S : m <= n
    BY <1>1, LeastExists
  <2>2. \A n \in S : ~(n < m)
    BY <2>1
  <2>3. Cardinality({n \in S : n < m}) < k
    <3>1. {n \in S : n < m} = {}
      BY <2>2
    <3> QED
      BY <3>1, FS_EmptySet
  <2> QED
    BY <2>3 DEF Oldest
<1> QED
  BY <1>1 DEF Oldest

\* Nothing older is left out of the k oldest ids.
LEMMA OldestIsClosed ==
  ASSUME NEW l \in Nat, NEW S \in SUBSET (1 .. l), NEW k \in Nat,
         NEW n \in Oldest(S, k), NEW m \in S, m < n
  PROVE  m \in Oldest(S, k)
<1> DEFINE below(x) == {y \in S : y < x}
<1>1. below(m) \subseteq below(n)
  <2>1. n \in 1 .. l /\ m \in 1 .. l
    BY DEF Oldest
  <2>2. \A y \in S : y \in 1 .. l /\ (y < m => y < n)
    BY <2>1
  <2> QED
    BY <2>2
<1>2. IsFiniteSet(below(n)) /\ Cardinality(below(n)) \in Nat
  BY IdsFinite
<1>3. Cardinality(below(m)) \in Nat /\ Cardinality(below(m)) <= Cardinality(below(n))
  BY <1>1, <1>2, IdsFinite, FS_Subset
<1>4. Cardinality(below(n)) < k
  BY DEF Oldest
<1>5. Cardinality(below(m)) < k
  BY <1>2, <1>3, <1>4
<1> QED
  BY <1>5 DEF Oldest

\* A function on an initial segment of the naturals is a sequence.
LEMMA FunctionIsSeq ==
  ASSUME NEW S, NEW k \in Nat, NEW f \in [1 .. k -> S]
  PROVE  f \in Seq(S)
<1>1. [n \in 1 .. k |-> f[n]] \in Seq(S)
  BY IsASeq
<1>2. f = [n \in 1 .. k |-> f[n]]
  OBVIOUS
<1> QED
  BY <1>1, <1>2

\* Appending a sequence keeps what was there and adds the new elements.
LEMMA ConcatRange ==
  ASSUME NEW S, NEW s \in Seq(S), NEW t \in Seq(S)
  PROVE  /\ Range(s) \subseteq Range(s \o t)
         /\ Range(t) \subseteq Range(s \o t)
<1>1. ASSUME NEW n \in DOMAIN s
      PROVE  s[n] \in Range(s \o t)
  BY ConcatProperties, LenProperties DEF Range
<1>2. ASSUME NEW n \in DOMAIN t
      PROVE  t[n] \in Range(s \o t)
  <2>1. Len(s) + n \in DOMAIN (s \o t) /\ (s \o t)[Len(s) + n] = t[n]
    BY ConcatProperties, LenProperties
  <2> QED
    BY <2>1 DEF Range
<1> QED
  BY <1>1, <1>2 DEF Range

\* Two sequences without repetition or a common element, appended, have none.
LEMMA ConcatInjective ==
  ASSUME NEW S, NEW s \in Seq(S), NEW t \in Seq(S),
         IsInjective(s), IsInjective(t),
         \A n \in DOMAIN t : t[n] \notin Range(s)
  PROVE  IsInjective(s \o t)
<1> DEFINE c == s \o t
<1>1. /\ DOMAIN c = 1 .. Len(s) + Len(t)
      /\ Len(s) \in Nat /\ Len(t) \in Nat
      /\ \A n \in DOMAIN c : c[n] = IF n <= Len(s) THEN s[n] ELSE t[n - Len(s)]
      /\ DOMAIN s = 1 .. Len(s) /\ DOMAIN t = 1 .. Len(t)
  BY ConcatProperties, LenProperties
<1> HIDE DEF c
<1>2. SUFFICES ASSUME NEW m \in DOMAIN c, NEW n \in DOMAIN c, c[m] = c[n]
               PROVE  m = n
  BY DEF IsInjective, c
<1>3. CASE m <= Len(s) /\ n <= Len(s)
  BY <1>1, <1>2, <1>3 DEF IsInjective
<1>4. CASE m > Len(s) /\ n > Len(s)
  <2>1. m - Len(s) \in DOMAIN t /\ n - Len(s) \in DOMAIN t
    BY <1>1, <1>4
  <2>2. t[m - Len(s)] = t[n - Len(s)]
    BY <1>1, <1>2, <1>4
  <2>3. m - Len(s) = n - Len(s)
    BY <2>1, <2>2 DEF IsInjective
  <2> QED
    BY <1>1, <2>3
<1>5. CASE m <= Len(s) /\ n > Len(s)
  <2>1. m \in DOMAIN s /\ n - Len(s) \in DOMAIN t /\ s[m] = t[n - Len(s)]
    BY <1>1, <1>2, <1>5
  <2> QED
    BY <2>1 DEF Range
<1>6. CASE m > Len(s) /\ n <= Len(s)
  <2>1. n \in DOMAIN s /\ m - Len(s) \in DOMAIN t /\ s[n] = t[m - Len(s)]
    BY <1>1, <1>2, <1>6
  <2> QED
    BY <2>1 DEF Range
<1> QED
  BY <1>1, <1>3, <1>4, <1>5, <1>6

\* What sending some rows does to the log: it keeps the messages, and every
\* one of the rows is in it afterwards.
LEMMA SendProperties ==
  ASSUME TypeOK, NEW ids \in SUBSET Ids, Send(ids)
  PROVE  /\ topic' \in Seq(AllEvents)
         /\ Range(topic) \subseteq Range(topic')
         /\ \A n \in ids : recorded[n] \in Range(topic')
<1>1. Cardinality(ids) \in Nat
  BY IdsFinite, LenProperties DEF TypeOK, Ids
<1>2. PICK order \in Orderings(ids) :
        topic' = topic \o [n \in 1 .. Cardinality(ids) |-> recorded[order[n]]]
  BY DEF Send
<1> DEFINE t == [n \in 1 .. Cardinality(ids) |-> recorded[order[n]]]
<1>3. /\ order \in [1 .. Cardinality(ids) -> ids]
      /\ \A n \in ids : \E k \in 1 .. Cardinality(ids) : order[k] = n
  BY DEF Orderings, Bijection, Surjection, Injection
<1>4. \A n \in 1 .. Cardinality(ids) : recorded[order[n]] \in AllEvents
  BY <1>3, ElementOfSeq DEF TypeOK, Ids, AllEvents
<1>5. t \in Seq(AllEvents)
  BY <1>1, <1>4, IsASeq
<1>6. \A n \in ids : recorded[n] \in Range(t)
  BY <1>3 DEF Range
<1> HIDE DEF t
<1>7. topic \in Seq(AllEvents) /\ topic' = topic \o t
  BY <1>2 DEF TypeOK, t
<1> QED
  BY <1>5, <1>6, <1>7, ConcatProperties, ConcatRange

-----------------------------------------------------------------------------
(***************************************************************************)
(* The table only grows at its end, and ids and rows keep their meaning.   *)
(***************************************************************************)
LEMMA RecordProperties ==
  ASSUME TypeOK, NEW chunk \in SUBSET FeedEvents,
         NEW new \in Orderings(chunk \ Recorded), recorded' = recorded \o new
  PROVE  /\ recorded' \in Seq(FeedEvents)
         /\ Ids \subseteq Ids'
         /\ \A n \in Ids : recorded'[n] = recorded[n]
         /\ IsInjective(recorded) => IsInjective(recorded')
<1> DEFINE S == chunk \ Recorded
<1>1. Cardinality(S) \in Nat
  BY FoundFinite
<1>2. /\ new \in [1 .. Cardinality(S) -> S]
      /\ IsInjective(new)
  BY DEF Orderings, Bijection, Injection
<1>3. new \in Seq(FeedEvents) /\ DOMAIN new = 1 .. Cardinality(S)
  <2>1. new \in [1 .. Cardinality(S) -> FeedEvents]
    BY <1>2
  <2> QED
    BY <1>1, <2>1, FunctionIsSeq
<1>4. recorded \in Seq(FeedEvents)
  BY DEF TypeOK
<1>5. /\ recorded \o new \in Seq(FeedEvents)
      /\ Len(recorded \o new) = Len(recorded) + Len(new)
      /\ Len(recorded) \in Nat /\ Len(new) \in Nat
      /\ \A n \in 1 .. Len(recorded) : (recorded \o new)[n] = recorded[n]
  BY <1>3, <1>4, ConcatProperties, LenProperties
<1>6. ASSUME IsInjective(recorded)
      PROVE  IsInjective(recorded \o new)
  <2>1. \A n \in DOMAIN new : new[n] \notin Range(recorded)
    BY <1>2, <1>3 DEF Recorded
  <2> QED
    BY <1>2, <1>3, <1>4, <1>6, <2>1, ConcatInjective
<1> QED
  BY <1>5, <1>6 DEF Ids

(***************************************************************************)
(* Type correctness.                                                       *)
(***************************************************************************)
LEMMA TypeInit == Init => TypeOK
<1> SUFFICES ASSUME Init
             PROVE  TypeOK
  OBVIOUS
<1>1. recorded \in Seq(FeedEvents) /\ topic \in Seq(AllEvents)
  BY EmptySeq DEF Init
<1> QED
  BY <1>1, FaultsAssumption DEF Init, TypeOK, Ids

LEMMA TypeFetch ==
  ASSUME TypeOK, NEW b \in Backends, Fetch(b)
  PROVE  TypeOK'
<1>1. PICK failed \in SUBSET {"nasa", "usgs"} : FetchWith(b, failed)
  BY DEF Fetch
<1>2. faults' \in 0 .. MaxFaults
  BY FaultsAssumption DEF Fetch, Fault, TypeOK
<1>3. NewIn(failed) \subseteq FeedEvents
  BY DEF NewIn, TypeOK
<1> QED
  BY <1>1, <1>2, <1>3 DEF FetchWith, TypeOK, Ids

LEMMA TypeRecord ==
  ASSUME TypeOK, NEW b \in Backends, Record(b)
  PROVE  TypeOK'
<1>1. PICK chunk \in SUBSET found[b] :
        /\ \E new \in Orderings(chunk \ Recorded) : recorded' = recorded \o new
        /\ found' = [found EXCEPT ![b] = @ \ chunk]
        /\ pc' = [pc EXCEPT ![b] = IF found[b] = chunk THEN "query" ELSE "record"]
  BY DEF Record
<1>2. chunk \in SUBSET FeedEvents
  BY DEF TypeOK
<1>3. recorded' \in Seq(FeedEvents) /\ Ids \subseteq Ids'
  BY <1>1, <1>2, RecordProperties
<1>4. /\ pc[b] = "record"
      /\ UNCHANGED <<feed, published, topic, rows, faults>>
  BY DEF Record
<1> QED
  BY <1>1, <1>2, <1>3, <1>4 DEF TypeOK

LEMMA TypeQueryOutbox ==
  ASSUME TypeOK, NEW b \in Backends, QueryOutbox(b)
  PROVE  TypeOK'
<1>1. Pending \subseteq Ids /\ Pending \in SUBSET Nat
  BY DEF Pending, Ids
<1>2. /\ Oldest(Pending, OutboxBatch) \subseteq Pending
      /\ Pending # {} => Oldest(Pending, OutboxBatch) # {}
  BY <1>1, ChunkAssumption, OldestProperties
<1> QED
  BY <1>1, <1>2 DEF QueryOutbox, TypeOK, Ids

\* A chunk is part of the rows a run holds.
LEMMA ChunkProperties ==
  ASSUME TypeOK, NEW b \in Backends
  PROVE  /\ Chunk(b) \subseteq rows[b]
         /\ Chunk(b) \in SUBSET Ids
  BY DEF Chunk, Oldest, TypeOK

LEMMA TypePublish ==
  ASSUME TypeOK, NEW b \in Backends, Publish(b)
  PROVE  TypeOK'
  BY ChunkProperties, SendProperties DEF Publish, TypeOK, Ids

LEMMA TypePublishFails ==
  ASSUME TypeOK, NEW b \in Backends, PublishFails(b)
  PROVE  TypeOK'
<1>1. PICK delivered \in SUBSET Chunk(b) : Send(delivered)
  BY DEF PublishFails
<1>2. topic' \in Seq(AllEvents)
  BY <1>1, ChunkProperties, SendProperties
<1> QED
  BY <1>2, FaultsAssumption DEF PublishFails, Fault, TypeOK, Ids

LEMMA TypeMark ==
  ASSUME TypeOK, NEW b \in Backends, Mark(b)
  PROVE  TypeOK'
  BY ChunkProperties DEF Mark, TypeOK, Ids

LEMMA TypeInterrupted ==
  ASSUME TypeOK, NEW b \in Backends, Interrupted(b)
  PROVE  TypeOK'
  BY FaultsAssumption DEF Interrupted, Fault, TypeOK, Ids

LEMMA TypeAdminPublish ==
  ASSUME TypeOK, NEW e \in ManualEvents, AdminPublish(e)
  PROVE  TypeOK'
<1>1. topic' \in Seq(AllEvents)
  <2>1. <<e>> \in Seq(AllEvents)
    BY DEF AllEvents
  <2> QED
    BY <2>1, ConcatProperties DEF AdminPublish, TypeOK
<1> QED
  BY <1>1 DEF AdminPublish, TypeOK, Ids

LEMMA TypeNext == TypeOK /\ [Next]_vars => TypeOK'
<1> SUFFICES ASSUME TypeOK, [Next]_vars
             PROVE  TypeOK'
  OBVIOUS
<1>1. ASSUME NEW e \in FeedEvents, EventAppears(e)
      PROVE  TypeOK'
  BY <1>1 DEF EventAppears, TypeOK, Ids
<1>2. ASSUME NEW b \in Backends, RunStep(b)
      PROVE  TypeOK'
  BY <1>2, TypeFetch, TypeRecord, TypeQueryOutbox, TypePublish,
     TypePublishFails, TypeMark DEF RunStep
<1>3. CASE UNCHANGED vars
  BY <1>3 DEF vars, TypeOK, Ids
<1> QED
  BY <1>1, <1>2, <1>3, TypeInterrupted, TypeAdminPublish DEF Next

(***************************************************************************)
(* In every reachable state the tables, the log and what the runs hold     *)
(* have their types, and a run holds rows exactly while it publishes and   *)
(* marks them.                                                             *)
(***************************************************************************)
THEOREM TypeCorrect == Spec => []TypeOK
  BY TypeInit, TypeNext, PTL DEF Spec

-----------------------------------------------------------------------------
(***************************************************************************)
(* MarkedIsInTopic is not inductive: a run that marks a chunk has sent it  *)
(* in an earlier step.  What makes it so is that the chunk of a run that   *)
(* is about to mark is in the log already.                                 *)
(***************************************************************************)
SentBeforeMark ==
  \A b \in Backends : pc[b] = "mark" => \A n \in Chunk(b) : recorded[n] \in Range(topic)

Inv == TypeOK /\ MarkedIsInTopic /\ SentBeforeMark /\ RecordedOnce

\* A step that only adds rows and messages, and marks nothing, keeps what is
\* known of the rows that were there.
GrowsOnly ==
  /\ published' = published
  /\ rows' = rows
  /\ \A n \in Ids : recorded'[n] = recorded[n]
  /\ Range(topic) \subseteq Range(topic')
  /\ \A b \in Backends : pc'[b] = "mark" => pc[b] = "mark"

LEMMA GrowthKeepsInv ==
  ASSUME Inv, GrowsOnly
  PROVE  MarkedIsInTopic' /\ SentBeforeMark'
<1>1. MarkedIsInTopic'
  BY DEF Inv, GrowsOnly, MarkedIsInTopic, TypeOK
<1>2. ASSUME NEW b \in Backends, pc'[b] = "mark", NEW n \in Chunk(b)'
      PROVE  recorded'[n] \in Range(topic')
  <2>1. n \in Chunk(b) /\ n \in Ids
    BY <1>2, ChunkProperties DEF Chunk, Inv, GrowsOnly
  <2> QED
    BY <1>2, <2>1 DEF Inv, GrowsOnly, SentBeforeMark
<1> QED
  BY <1>1, <1>2 DEF SentBeforeMark

LEMMA InvInit == Init => Inv
<1> SUFFICES ASSUME Init
             PROVE  Inv
  OBVIOUS
<1>1. RecordedOnce
  BY EmptySeq DEF Init, RecordedOnce, IsInjective
<1> QED
  BY <1>1, TypeInit DEF Init, Inv, MarkedIsInTopic, SentBeforeMark

LEMMA InvRecord ==
  ASSUME Inv, NEW b \in Backends, Record(b)
  PROVE  Inv'
<1> USE DEF Inv
<1>1. PICK chunk \in SUBSET found[b] :
        \E new \in Orderings(chunk \ Recorded) : recorded' = recorded \o new
  BY DEF Record
<1>2. chunk \in SUBSET FeedEvents
  BY DEF TypeOK
<1>3. /\ \A n \in Ids : recorded'[n] = recorded[n]
      /\ RecordedOnce'
  BY <1>1, <1>2, RecordProperties DEF RecordedOnce
<1>4. GrowsOnly
  BY <1>3 DEF Record, GrowsOnly, TypeOK
<1> QED
  BY <1>3, <1>4, GrowthKeepsInv, TypeRecord

LEMMA InvPublish ==
  ASSUME Inv, NEW b \in Backends, Publish(b)
  PROVE  Inv'
<1>1. /\ Range(topic) \subseteq Range(topic')
      /\ \A n \in Chunk(b) : recorded[n] \in Range(topic')
  BY ChunkProperties, SendProperties DEF Inv, Publish
<1>2. MarkedIsInTopic'
  BY <1>1 DEF Inv, Publish, MarkedIsInTopic
<1>3. SentBeforeMark'
  <2> SUFFICES ASSUME NEW c \in Backends, pc'[c] = "mark", NEW n \in Chunk(c)
               PROVE  recorded[n] \in Range(topic')
    BY DEF Publish, SentBeforeMark, Chunk
  <2>1. CASE c = b
    BY <1>1, <2>1
  <2>2. CASE c # b
    BY <1>1, <2>2 DEF Inv, Publish, SentBeforeMark, TypeOK
  <2> QED
    BY <2>1, <2>2
<1> QED
  BY <1>2, <1>3, TypePublish DEF Inv, Publish, RecordedOnce

LEMMA InvPublishFails ==
  ASSUME Inv, NEW b \in Backends, PublishFails(b)
  PROVE  Inv'
<1>1. Range(topic) \subseteq Range(topic')
  <2>1. PICK delivered \in SUBSET Chunk(b) : Send(delivered)
    BY DEF PublishFails
  <2> QED
    BY <2>1, ChunkProperties, SendProperties DEF Inv
<1>2. MarkedIsInTopic'
  BY <1>1 DEF Inv, PublishFails, MarkedIsInTopic
<1>3. SentBeforeMark'
  <2> SUFFICES ASSUME NEW c \in Backends, pc'[c] = "mark", NEW n \in Chunk(c)'
               PROVE  recorded[n] \in Range(topic')
    BY DEF PublishFails, SentBeforeMark
  <2>1. c # b /\ pc[c] = "mark" /\ rows'[c] = rows[c]
    BY DEF Inv, PublishFails, TypeOK
  <2> QED
    BY <1>1, <2>1 DEF Inv, SentBeforeMark, Chunk
<1> QED
  BY <1>2, <1>3, TypePublishFails DEF Inv, PublishFails, RecordedOnce

LEMMA InvMark ==
  ASSUME Inv, NEW b \in Backends, Mark(b)
  PROVE  Inv'
<1>1. MarkedIsInTopic'
  BY DEF Inv, Mark, MarkedIsInTopic, SentBeforeMark
<1>2. SentBeforeMark'
  <2> SUFFICES ASSUME NEW c \in Backends, pc'[c] = "mark", NEW n \in Chunk(c)'
               PROVE  recorded[n] \in Range(topic)
    BY DEF Mark, SentBeforeMark
  <2>1. c # b /\ pc[c] = "mark" /\ rows'[c] = rows[c]
    BY DEF Inv, Mark, TypeOK
  <2> QED
    BY <2>1 DEF Inv, SentBeforeMark, Chunk
<1> QED
  BY <1>1, <1>2, TypeMark DEF Inv, Mark, RecordedOnce

LEMMA InvAdminPublish ==
  ASSUME Inv, NEW e \in ManualEvents, AdminPublish(e)
  PROVE  Inv'
<1>1. Range(topic) \subseteq Range(topic')
  <2>1. <<e>> \in Seq(AllEvents) /\ topic \in Seq(AllEvents)
    BY DEF AllEvents, Inv, TypeOK
  <2> QED
    BY <2>1, ConcatRange DEF AdminPublish
<1>2. GrowsOnly
  BY <1>1 DEF AdminPublish, GrowsOnly
<1> QED
  BY <1>2, GrowthKeepsInv, TypeAdminPublish DEF Inv, AdminPublish, RecordedOnce

\* The other steps of a run change neither the tables nor the log.
LEMMA InvRunQuiet ==
  ASSUME Inv, NEW b \in Backends, Fetch(b) \/ QueryOutbox(b) \/ Interrupted(b)
  PROVE  Inv'
<1>1. UNCHANGED <<recorded, published, topic>>
  BY DEF Fetch, FetchWith, QueryOutbox, Interrupted
<1>2. SentBeforeMark'
  <2> SUFFICES ASSUME NEW c \in Backends, pc'[c] = "mark", NEW n \in Chunk(c)'
               PROVE  recorded[n] \in Range(topic)
    BY <1>1 DEF SentBeforeMark
  <2>1. c # b /\ pc[c] = "mark" /\ rows'[c] = rows[c]
    BY DEF Inv, Fetch, FetchWith, QueryOutbox, Interrupted, TypeOK
  <2> QED
    BY <2>1 DEF Inv, SentBeforeMark, Chunk
<1>3. TypeOK'
  BY TypeFetch, TypeQueryOutbox, TypeInterrupted DEF Inv
<1> QED
  BY <1>1, <1>2, <1>3 DEF Inv, MarkedIsInTopic, RecordedOnce

LEMMA InvNext == Inv /\ [Next]_vars => Inv'
<1> SUFFICES ASSUME Inv, [Next]_vars
             PROVE  Inv'
  OBVIOUS
<1>1. TypeOK'
  BY TypeNext DEF Inv
<1>2. ASSUME NEW e \in FeedEvents, EventAppears(e)
      PROVE  Inv'
  BY <1>1, <1>2 DEF EventAppears, Inv, MarkedIsInTopic, SentBeforeMark, Chunk, RecordedOnce
<1>3. ASSUME NEW b \in Backends, RunStep(b)
      PROVE  Inv'
  BY <1>3, InvRunQuiet, InvRecord, InvPublish, InvPublishFails, InvMark DEF RunStep
<1>4. CASE UNCHANGED vars
  BY <1>1, <1>4 DEF vars, Inv, MarkedIsInTopic, SentBeforeMark, Chunk, RecordedOnce
<1> QED
  BY <1>2, <1>3, <1>4, InvRunQuiet, InvAdminPublish DEF Next

(***************************************************************************)
(* A row that is marked published has its event in the topic, for any      *)
(* number of backends, events and failures: no event is lost between the   *)
(* table and the topic.                                                    *)
(***************************************************************************)
THEOREM MarkedStaysSent == Spec => []MarkedIsInTopic
<1>1. Inv => MarkedIsInTopic
  BY DEF Inv
<1> QED
  BY <1>1, InvInit, InvNext, PTL DEF Spec

(***************************************************************************)
(* No two rows of the table are for the same event.                        *)
(***************************************************************************)
THEOREM RecordedAtMostOnce == Spec => []RecordedOnce
<1>1. Inv => RecordedOnce
  BY DEF Inv
<1> QED
  BY <1>1, InvInit, InvNext, PTL DEF Spec

-----------------------------------------------------------------------------
(***************************************************************************)
(* With one backend, the rows a run holds leave no gap: what is older is   *)
(* published or held too.                                                  *)
(***************************************************************************)
HeldWithoutGap ==
  \A b \in Backends : \A n \in rows[b] : 1 .. n - 1 \subseteq published \cup rows[b]

OrderInv == TypeOK /\ DrainedInOrder /\ HeldWithoutGap

LEMMA OrderQueryOutbox ==
  ASSUME OrderInv, NEW b \in Backends, QueryOutbox(b)
  PROVE  HeldWithoutGap'
<1> SUFFICES ASSUME NEW c \in Backends, NEW n \in rows'[c], NEW m \in 1 .. n - 1
             PROVE  m \in published' \cup rows'[c]
  BY DEF HeldWithoutGap
<1>1. CASE c = b
  <2>1. /\ Len(recorded) \in Nat
        /\ Pending \in SUBSET (1 .. Len(recorded))
    BY LenProperties DEF OrderInv, TypeOK, Pending, Ids
  <2>2. n \in Oldest(Pending, OutboxBatch) /\ n \in Pending
    BY <1>1 DEF QueryOutbox, OrderInv, TypeOK, Oldest
  <2>3. CASE m \in published
    BY <2>3 DEF QueryOutbox
  <2>4. CASE m \notin published
    <3>1. m \in Pending /\ m < n
      BY <2>1, <2>2, <2>4 DEF Pending, Ids
    <3>2. m \in Oldest(Pending, OutboxBatch)
      BY <2>1, <2>2, <3>1, ChunkAssumption, OldestIsClosed
    <3> QED
      BY <1>1, <3>2 DEF QueryOutbox, OrderInv, TypeOK
  <2> QED
    BY <2>3, <2>4
<1>2. CASE c # b
  BY <1>2 DEF QueryOutbox, OrderInv, HeldWithoutGap, TypeOK
<1> QED
  BY <1>1, <1>2

LEMMA OrderMark ==
  ASSUME OrderInv, NEW b \in Backends, Backends = {b}, Mark(b)
  PROVE  DrainedInOrder' /\ HeldWithoutGap'
<1>1. /\ Len(recorded) \in Nat
      /\ rows[b] \in SUBSET (1 .. Len(recorded))
  BY LenProperties DEF OrderInv, TypeOK, Ids
<1>2. /\ published' = published \cup Chunk(b)
      /\ rows'[b] = rows[b] \ Chunk(b)
  BY DEF Mark, OrderInv, TypeOK
<1>3. ASSUME NEW n \in Chunk(b), NEW m \in 1 .. n - 1
      PROVE  m \in published'
  <2>1. n \in rows[b] /\ m < n
    BY <1>1, <1>3, ChunkProperties DEF OrderInv
  <2>2. CASE m \in published
    BY <1>2, <2>2
  <2>3. CASE m \in rows[b]
    BY <1>1, <1>2, <2>1, <2>3, ChunkAssumption, OldestIsClosed DEF Chunk
  <2> QED
    BY <1>3, <2>1, <2>2, <2>3 DEF OrderInv, HeldWithoutGap
<1>4. DrainedInOrder'
  <2> SUFFICES ASSUME NEW n \in published', NEW m \in 1 .. n
               PROVE  m \in published'
    BY DEF DrainedInOrder
  <2>1. CASE n \in published
    BY <1>2, <2>1 DEF OrderInv, DrainedInOrder
  <2>2. CASE n \in Chunk(b)
    BY <1>1, <1>2, <1>3, <2>2, ChunkProperties DEF OrderInv
  <2> QED
    BY <1>2, <2>1, <2>2
<1>5. HeldWithoutGap'
  BY <1>2 DEF OrderInv, HeldWithoutGap
<1> QED
  BY <1>4, <1>5

LEMMA OrderNext ==
  ASSUME NEW b \in Backends, Backends = {b}, OrderInv, [Next]_vars
  PROVE  OrderInv'
<1>1. TypeOK'
  BY TypeNext DEF OrderInv
<1>2. CASE QueryOutbox(b)
  BY <1>1, <1>2, OrderQueryOutbox DEF QueryOutbox, OrderInv, DrainedInOrder
<1>3. CASE Mark(b)
  BY <1>1, <1>3, OrderMark DEF OrderInv
<1>4. CASE PublishFails(b) \/ Interrupted(b)
  BY <1>1, <1>4 DEF PublishFails, Interrupted, OrderInv, DrainedInOrder,
     HeldWithoutGap, TypeOK
<1>5. CASE UNCHANGED <<published, rows>>
  BY <1>1, <1>5 DEF OrderInv, DrainedInOrder, HeldWithoutGap
<1>6. ASSUME NEW c \in Backends, RunStep(c) \/ Interrupted(c)
      PROVE  OrderInv'
  <2>1. c = b
    OBVIOUS
  <2>2. Fetch(b) \/ Record(b) \/ Publish(b) => UNCHANGED <<published, rows>>
    BY DEF Fetch, FetchWith, Record, Publish
  <2> QED
    BY <1>2, <1>3, <1>4, <1>5, <1>6, <2>1, <2>2 DEF RunStep
<1> QED
  BY <1>5, <1>6 DEF Next, EventAppears, AdminPublish, vars

(***************************************************************************)
(* A single backend drains the outbox oldest first, whatever the chunk and *)
(* batch sizes: no row is marked published before an older one.            *)
(***************************************************************************)
THEOREM SingleBackendDrainsInOrder ==
  ASSUME NEW b, Backends = {b}
  PROVE  Spec => []DrainedInOrder
<1>1. Init => OrderInv
  BY TypeInit DEF Init, OrderInv, DrainedInOrder, HeldWithoutGap
<1>2. OrderInv /\ [Next]_vars => OrderInv'
  BY OrderNext
<1>3. OrderInv => DrainedInOrder
  BY DEF OrderInv
<1> QED
  BY <1>1, <1>2, <1>3, PTL DEF Spec

-----------------------------------------------------------------------------
(***************************************************************************)
(* How often a row goes out.  Each sending of a row that is not marked yet *)
(* has a backend that is about to mark it, or a failure that ended its     *)
(* run; once it is marked no further backend takes it up, so only those    *)
(* that hold it already can send it again.                                 *)
(***************************************************************************)
Sent(n) == {b \in Backends : pc[b] = "mark" /\ n \in Chunk(b)}

ToSend(n) == {b \in Backends : n \in rows[b] /\ ~ (pc[b] = "mark" /\ n \in Chunk(b))}

Counted(n, e) ==
  /\ n \notin published =>
       Cardinality(Sendings(e)) <= Cardinality(Sent(n)) + faults
  /\ n \in published =>
       Cardinality(Sendings(e)) + Cardinality(ToSend(n)) <= Cardinality(Backends) + faults

SendingsCounted ==
  \A e \in FeedEvents : \A n \in Ids : recorded[n] = e => Counted(n, e)

TopicIsRecorded == Range(topic) \subseteq Recorded \cup ManualEvents

CountInv == Inv /\ TopicIsRecorded /\ SendingsCounted

\* Sets of backends are finite.
LEMMA BackendSets ==
  ASSUME NEW S \in SUBSET Backends
  PROVE  /\ IsFiniteSet(S)
         /\ Cardinality(S) \in Nat
         /\ Cardinality(Backends) \in Nat
         /\ Cardinality(S) <= Cardinality(Backends)
  BY BackendsAssumption, FS_Subset, FS_CardinalityType

\* Taking one element away makes a set at most one smaller.
LEMMA OneFewer ==
  ASSUME NEW S, IsFiniteSet(S), NEW x
  PROVE  /\ Cardinality(S \ {x}) \in Nat
         /\ Cardinality(S) <= Cardinality(S \ {x}) + 1
<1>1. Cardinality(S) \in Nat /\ Cardinality(S \ {x}) \in Nat
  BY FS_RemoveElement, FS_CardinalityType
<1>2. Cardinality(S \ {x}) = Cardinality(S) - 1 \/ Cardinality(S \ {x}) = Cardinality(S)
  BY FS_RemoveElement
<1> QED
  BY <1>1, <1>2

\* The sizes of disjoint sets add up.
LEMMA DisjointUnion ==
  ASSUME NEW S, NEW T, IsFiniteSet(S), IsFiniteSet(T), S \cap T = {}
  PROVE  Cardinality(S \cup T) = Cardinality(S) + Cardinality(T)
<1>1. Cardinality(S) \in Nat /\ Cardinality(T) \in Nat
  BY FS_CardinalityType
<1>2. Cardinality(S \cup T) = Cardinality(S) + Cardinality(T) - Cardinality(S \cap T)
  BY FS_Union
<1>3. Cardinality(S \cap T) = 0
  BY FS_EmptySet
<1> QED
  BY <1>1, <1>2, <1>3

\* Finitely many messages are about an event.
LEMMA SendingsFinite ==
  ASSUME TypeOK, NEW e
  PROVE  IsFiniteSet(Sendings(e)) /\ Cardinality(Sendings(e)) \in Nat
<1>1. Len(topic) \in Nat /\ DOMAIN topic = 1 .. Len(topic)
  BY LenProperties DEF TypeOK
<1>2. Sendings(e) \in SUBSET (1 .. Len(topic))
  BY <1>1 DEF Sendings
<1> QED
  BY <1>1, <1>2, IdsFinite

\* A message appended to the log adds one sending of its event, and none of
\* any other event.
LEMMA SendCounts ==
  ASSUME TypeOK, RecordedOnce, NEW ids \in SUBSET Ids, Send(ids),
         NEW n \in Ids, NEW e \in FeedEvents, recorded[n] = e
  PROVE  /\ n \notin ids => Sendings(e)' = Sendings(e)
         /\ n \in ids => Cardinality(Sendings(e)') = Cardinality(Sendings(e)) + 1
<1>1. Cardinality(ids) \in Nat
  BY IdsFinite, LenProperties DEF TypeOK, Ids
<1>2. PICK order \in Orderings(ids) :
        topic' = topic \o [k \in 1 .. Cardinality(ids) |-> recorded[order[k]]]
  BY DEF Send
<1> DEFINE t == [k \in 1 .. Cardinality(ids) |-> recorded[order[k]]]
<1>3. /\ order \in [1 .. Cardinality(ids) -> ids]
      /\ \A m \in ids : \E k \in 1 .. Cardinality(ids) : order[k] = m
      /\ \A j, k \in 1 .. Cardinality(ids) : order[j] = order[k] => j = k
  BY DEF Orderings, Bijection, Surjection, Injection, IsInjective
<1>4. \A k \in 1 .. Cardinality(ids) : recorded[order[k]] \in AllEvents
  BY <1>3, ElementOfSeq DEF TypeOK, Ids, AllEvents
<1>5. t \in Seq(AllEvents) /\ Len(t) = Cardinality(ids)
  BY <1>1, <1>4, IsASeq
<1>6. \A k \in 1 .. Cardinality(ids) : t[k] = e <=> order[k] = n
  <2>1. DOMAIN recorded = Ids
    BY LenProperties DEF TypeOK, Ids
  <2> QED
    BY <1>3, <2>1 DEF RecordedOnce, IsInjective
<1> HIDE DEF t
<1>7. topic \in Seq(AllEvents) /\ topic' = topic \o t
  BY <1>2 DEF TypeOK, t
<1>8. /\ DOMAIN topic' = 1 .. Len(topic) + Len(t)
      /\ DOMAIN topic = 1 .. Len(topic)
      /\ Len(topic) \in Nat
      /\ \A k \in DOMAIN topic' :
           topic'[k] = IF k <= Len(topic) THEN topic[k] ELSE t[k - Len(topic)]
  BY <1>5, <1>7, ConcatProperties, LenProperties
<1>9. \A k \in DOMAIN topic' :
        topic'[k] = e <=> \/ k \in DOMAIN topic /\ topic[k] = e
                          \/ k > Len(topic) /\ order[k - Len(topic)] = n
  <2> SUFFICES ASSUME NEW k \in DOMAIN topic'
               PROVE  topic'[k] = e <=> \/ k \in DOMAIN topic /\ topic[k] = e
                                        \/ k > Len(topic) /\ order[k - Len(topic)] = n
    OBVIOUS
  <2>1. CASE k <= Len(topic)
    BY <1>8, <2>1
  <2>2. CASE ~ (k <= Len(topic))
    <3>1. k - Len(topic) \in 1 .. Cardinality(ids) /\ k \notin DOMAIN topic /\ k > Len(topic)
      BY <1>1, <1>5, <1>8, <2>2
    <3> QED
      BY <1>6, <1>8, <2>2, <3>1
  <2> QED
    BY <2>1, <2>2
<1>10. \A k \in DOMAIN topic : k \in DOMAIN topic' /\ ~ (k > Len(topic))
  BY <1>1, <1>5, <1>8
<1>11. CASE n \notin ids
  <2>1. \A k \in DOMAIN topic' : k > Len(topic) => order[k - Len(topic)] # n
    <3> SUFFICES ASSUME NEW k \in DOMAIN topic', k > Len(topic)
                 PROVE  order[k - Len(topic)] # n
      OBVIOUS
    <3>1. k - Len(topic) \in 1 .. Cardinality(ids)
      BY <1>1, <1>5, <1>8
    <3> QED
      BY <1>3, <1>11, <3>1
  <2> QED
    BY <1>9, <1>10, <1>11, <2>1 DEF Sendings
<1>12. CASE n \in ids
  <2>1. PICK j \in 1 .. Cardinality(ids) : order[j] = n
    BY <1>3, <1>12
  <2>2. /\ Len(topic) + j \in DOMAIN topic'
        /\ Len(topic) + j > Len(topic)
        /\ Len(topic) + j \notin DOMAIN topic
        /\ (Len(topic) + j) - Len(topic) = j
    BY <1>1, <1>5, <1>8
  <2>3. ASSUME NEW k \in DOMAIN topic', k > Len(topic), order[k - Len(topic)] = n
        PROVE  k = Len(topic) + j
    <3>1. k - Len(topic) \in 1 .. Cardinality(ids)
      BY <1>1, <1>5, <1>8, <2>3
    <3>2. k - Len(topic) = j
      BY <1>3, <2>1, <2>3, <3>1
    <3>3. k \in Int /\ Len(topic) \in Int
      BY <1>8
    <3> QED
      BY <3>2, <3>3
  <2>4. Sendings(e)' = Sendings(e) \cup {Len(topic) + j}
    BY <1>9, <1>10, <2>1, <2>2, <2>3 DEF Sendings
  <2>5. Len(topic) + j \notin Sendings(e)
    BY <2>2 DEF Sendings
  <2> QED
    BY <1>12, <2>4, <2>5, SendingsFinite, FS_AddElement
<1> QED
  BY <1>11, <1>12

\* A step that sends nothing and marks nothing keeps the count of a row.
LEMMA QuietKeepsCount ==
  ASSUME TypeOK, NEW n \in Ids, NEW e \in FeedEvents, Counted(n, e),
         Sendings(e)' = Sendings(e), published' = published,
         faults' \in Nat, faults <= faults',
         Sent(n)' = Sent(n),
         n \in published => ToSend(n)' \subseteq ToSend(n)
  PROVE  Counted(n, e)'
<1>1. /\ Cardinality(Sendings(e)) \in Nat
      /\ Cardinality(Sent(n)) \in Nat /\ Cardinality(Backends) \in Nat
      /\ IsFiniteSet(ToSend(n)) /\ Cardinality(ToSend(n)) \in Nat
  BY SendingsFinite, BackendSets DEF Sent, ToSend
<1>2. faults \in Nat
  BY FaultsAssumption DEF TypeOK
<1>3. n \in published =>
        Cardinality(ToSend(n)') \in Nat /\ Cardinality(ToSend(n)') <= Cardinality(ToSend(n))
  BY <1>1, FS_Subset, FS_CardinalityType
<1> QED
  BY <1>1, <1>2, <1>3 DEF Counted

\* What the steps of a run do to the count of a row that was there before.
LEMMA CountFetch ==
  ASSUME TypeOK, NEW b \in Backends, Fetch(b),
         NEW n \in Ids, NEW e \in FeedEvents, Counted(n, e)
  PROVE  Counted(n, e)'
<1>1. UNCHANGED <<topic, published, rows>>
  BY DEF Fetch, FetchWith
<1>2. faults' \in Nat /\ faults <= faults'
  BY FaultsAssumption DEF Fetch, Fault, TypeOK
<1>3. \A c \in Backends : pc'[c] = "mark" <=> pc[c] = "mark"
  BY DEF Fetch, FetchWith, TypeOK
<1>4. Sent(n)' = Sent(n) /\ ToSend(n)' = ToSend(n) /\ Sendings(e)' = Sendings(e)
  BY <1>1, <1>3 DEF Sent, ToSend, Chunk, Sendings
<1> QED
  BY <1>1, <1>2, <1>4, QuietKeepsCount

LEMMA CountRecord ==
  ASSUME TypeOK, NEW b \in Backends, Record(b),
         NEW n \in Ids, NEW e \in FeedEvents, Counted(n, e)
  PROVE  Counted(n, e)'
<1>1. UNCHANGED <<topic, published, rows, faults>>
  BY DEF Record
<1>2. faults' \in Nat /\ faults <= faults'
  BY <1>1, FaultsAssumption DEF TypeOK
<1>3. \A c \in Backends : pc'[c] = "mark" <=> pc[c] = "mark"
  BY DEF Record, TypeOK
<1>4. Sent(n)' = Sent(n) /\ ToSend(n)' = ToSend(n) /\ Sendings(e)' = Sendings(e)
  BY <1>1, <1>3 DEF Sent, ToSend, Chunk, Sendings
<1> QED
  BY <1>1, <1>2, <1>4, QuietKeepsCount

LEMMA CountQueryOutbox ==
  ASSUME TypeOK, NEW b \in Backends, QueryOutbox(b),
         NEW n \in Ids, NEW e \in FeedEvents, Counted(n, e)
  PROVE  Counted(n, e)'
<1>1. /\ UNCHANGED <<topic, published, faults>>
      /\ faults' \in Nat /\ faults <= faults'
  BY FaultsAssumption DEF QueryOutbox, TypeOK
<1>2. /\ pc[b] = "query" /\ pc'[b] # "mark"
      /\ rows'[b] \subseteq Pending
      /\ \A c \in Backends \ {b} : pc'[c] = pc[c] /\ rows'[c] = rows[c]
  BY DEF QueryOutbox, TypeOK, Oldest
<1>3. \A c \in Backends : pc'[c] = "mark" /\ n \in Chunk(c)' <=> pc[c] = "mark" /\ n \in Chunk(c)
  BY <1>2 DEF Chunk
<1>4. Sent(n)' = Sent(n)
  BY <1>3 DEF Sent
<1>5. n \in published => ToSend(n)' \subseteq ToSend(n)
  BY <1>2, <1>3 DEF ToSend, Pending
<1> QED
  BY <1>1, <1>4, <1>5, QuietKeepsCount DEF Sendings

LEMMA CountPublish ==
  ASSUME TypeOK, RecordedOnce, NEW b \in Backends, Publish(b),
         NEW n \in Ids, NEW e \in FeedEvents, recorded[n] = e, Counted(n, e)
  PROVE  Counted(n, e)'
<1>1. /\ UNCHANGED <<published, rows, faults>>
      /\ faults' \in Nat /\ faults <= faults' /\ faults \in Nat
  BY FaultsAssumption DEF Publish, TypeOK
<1>2. /\ pc[b] = "publish" /\ pc'[b] = "mark" /\ Chunk(b)' = Chunk(b)
      /\ \A c \in Backends \ {b} : pc'[c] = pc[c] /\ Chunk(c)' = Chunk(c)
  BY DEF Publish, TypeOK, Chunk
<1>3. Chunk(b) \in SUBSET Ids /\ Chunk(b) \subseteq rows[b] /\ Send(Chunk(b))
  BY ChunkProperties DEF Publish
<1>4. CASE n \notin Chunk(b)
  <2>1. Sendings(e)' = Sendings(e)
    BY <1>3, <1>4, SendCounts
  <2>2. Sent(n)' = Sent(n)
    BY <1>2, <1>4 DEF Sent
  <2>3. ToSend(n)' = ToSend(n)
    BY <1>1, <1>2, <1>4 DEF ToSend
  <2> QED
    BY <1>1, <2>1, <2>2, <2>3, QuietKeepsCount
<1>5. CASE n \in Chunk(b)
  <2>1. /\ Cardinality(Sendings(e)') = Cardinality(Sendings(e)) + 1
        /\ Cardinality(Sendings(e)) \in Nat
    BY <1>3, <1>5, SendCounts, SendingsFinite
  <2>2. Sent(n)' = Sent(n) \cup {b} /\ b \notin Sent(n)
    BY <1>2, <1>5 DEF Sent
  <2>3. ToSend(n)' = ToSend(n) \ {b} /\ b \in ToSend(n)
    BY <1>1, <1>2, <1>3, <1>5 DEF ToSend
  <2>4. /\ IsFiniteSet(Sent(n)) /\ Cardinality(Sent(n)) \in Nat
        /\ IsFiniteSet(ToSend(n)) /\ Cardinality(ToSend(n)) \in Nat
        /\ Cardinality(Backends) \in Nat
    BY BackendSets DEF Sent, ToSend
  <2>5. Cardinality(Sent(n)') = Cardinality(Sent(n)) + 1
    BY <2>2, <2>4, FS_AddElement
  <2>6. Cardinality(ToSend(n)') = Cardinality(ToSend(n)) - 1
    BY <2>3, <2>4, FS_RemoveElement
  <2> QED
    BY <1>1, <2>1, <2>4, <2>5, <2>6 DEF Counted
<1> QED
  BY <1>4, <1>5

LEMMA CountPublishFails ==
  ASSUME TypeOK, RecordedOnce, NEW b \in Backends, PublishFails(b),
         NEW n \in Ids, NEW e \in FeedEvents, recorded[n] = e, Counted(n, e)
  PROVE  Counted(n, e)'
<1>1. published' = published /\ faults' = faults + 1 /\ faults \in Nat
  BY FaultsAssumption DEF PublishFails, Fault, TypeOK
<1>2. /\ pc[b] = "publish" /\ pc'[b] = "idle" /\ rows'[b] = {}
      /\ \A c \in Backends \ {b} : pc'[c] = pc[c] /\ rows'[c] = rows[c]
  BY DEF PublishFails, TypeOK
<1>3. Sent(n)' = Sent(n)
  <2>1. \A c \in Backends : pc'[c] = "mark" /\ n \in Chunk(c)' <=> pc[c] = "mark" /\ n \in Chunk(c)
    BY <1>2 DEF Chunk
  <2> QED
    BY <2>1 DEF Sent
<1>4. ToSend(n)' \subseteq ToSend(n)
  <2> SUFFICES ASSUME NEW c \in ToSend(n)'
               PROVE  c \in ToSend(n)
    OBVIOUS
  <2>1. c \in Backends \ {b}
    BY <1>2 DEF ToSend
  <2> QED
    BY <1>2, <2>1 DEF ToSend, Chunk
<1>5. PICK delivered \in SUBSET Chunk(b) : Send(delivered)
  BY DEF PublishFails
<1>6. delivered \in SUBSET Ids
  BY ChunkProperties
<1>7. \/ Sendings(e)' = Sendings(e)
      \/ Cardinality(Sendings(e)') = Cardinality(Sendings(e)) + 1
  BY <1>5, <1>6, SendCounts
<1>8. /\ Cardinality(Sendings(e)) \in Nat
      /\ Cardinality(Sent(n)) \in Nat
      /\ IsFiniteSet(ToSend(n)) /\ Cardinality(ToSend(n)) \in Nat
      /\ Cardinality(Backends) \in Nat
  BY SendingsFinite, BackendSets DEF Sent, ToSend
<1>9. /\ Cardinality(Sendings(e)') \in Nat
      /\ Cardinality(Sendings(e)') <= Cardinality(Sendings(e)) + 1
  BY <1>7, <1>8
<1>10. Cardinality(ToSend(n)') \in Nat /\ Cardinality(ToSend(n)') <= Cardinality(ToSend(n))
  BY <1>4, <1>8, FS_Subset, FS_CardinalityType
<1> QED
  BY <1>1, <1>3, <1>8, <1>9, <1>10 DEF Counted

LEMMA CountMark ==
  ASSUME TypeOK, NEW b \in Backends, Mark(b),
         NEW n \in Ids, NEW e \in FeedEvents, Counted(n, e)
  PROVE  Counted(n, e)'
<1>1. /\ published' = published \cup Chunk(b)
      /\ UNCHANGED <<topic, faults>>
      /\ faults' \in Nat /\ faults <= faults' /\ faults \in Nat
  BY FaultsAssumption DEF Mark, TypeOK
<1>2. /\ pc[b] = "mark" /\ pc'[b] # "mark" /\ rows'[b] = rows[b] \ Chunk(b)
      /\ \A c \in Backends \ {b} : pc'[c] = pc[c] /\ rows'[c] = rows[c]
  BY DEF Mark, TypeOK
<1>3. \A c \in Backends \ {b} :
        pc'[c] = "mark" /\ n \in Chunk(c)' <=> pc[c] = "mark" /\ n \in Chunk(c)
  BY <1>2 DEF Chunk
<1>4. ToSend(n)' \subseteq ToSend(n)
  BY <1>2, <1>3 DEF ToSend
<1>5. Sendings(e)' = Sendings(e)
  BY <1>1 DEF Sendings
<1>6. /\ Cardinality(Sendings(e)) \in Nat
      /\ IsFiniteSet(Sent(n)) /\ Cardinality(Sent(n)) \in Nat
      /\ IsFiniteSet(ToSend(n)) /\ Cardinality(ToSend(n)) \in Nat
      /\ Cardinality(Backends) \in Nat
  BY SendingsFinite, BackendSets DEF Sent, ToSend
<1>7. Cardinality(ToSend(n)') \in Nat /\ Cardinality(ToSend(n)') <= Cardinality(ToSend(n))
  BY <1>4, <1>6, FS_Subset, FS_CardinalityType
<1>8. CASE n \in published
  BY <1>1, <1>5, <1>6, <1>7, <1>8 DEF Counted
<1>9. CASE n \notin published /\ n \in Chunk(b)
  <2>1. Sent(n) \cap ToSend(n) = {} /\ Sent(n) \cup ToSend(n) \in SUBSET Backends
    BY DEF Sent, ToSend
  <2>2. Cardinality(Sent(n) \cup ToSend(n)) = Cardinality(Sent(n)) + Cardinality(ToSend(n))
    BY <1>6, <2>1, DisjointUnion
  <2>3. Cardinality(Sent(n)) + Cardinality(ToSend(n)) <= Cardinality(Backends)
    BY <2>1, <2>2, BackendSets
  <2>4. Cardinality(Sendings(e)) <= Cardinality(Sent(n)) + faults
    BY <1>9 DEF Counted
  <2>5. n \in published'
    BY <1>1, <1>9
  <2>6. Cardinality(Sendings(e)) + Cardinality(ToSend(n)') <= Cardinality(Backends) + faults
    BY <1>1, <1>6, <1>7, <2>3, <2>4
  <2> QED
    BY <1>1, <1>5, <2>5, <2>6 DEF Counted
<1>10. CASE n \notin published /\ n \notin Chunk(b)
  <2>1. Sent(n)' = Sent(n)
    BY <1>2, <1>3, <1>10 DEF Sent
  <2> QED
    BY <1>1, <1>5, <1>10, <2>1 DEF Counted
<1> QED
  BY <1>8, <1>9, <1>10

LEMMA CountInterrupted ==
  ASSUME TypeOK, NEW b \in Backends, Interrupted(b),
         NEW n \in Ids, NEW e \in FeedEvents, Counted(n, e)
  PROVE  Counted(n, e)'
<1>1. UNCHANGED <<topic, published>> /\ faults' = faults + 1 /\ faults \in Nat
  BY FaultsAssumption DEF Interrupted, Fault, TypeOK
<1>2. /\ pc'[b] = "idle" /\ rows'[b] = {}
      /\ \A c \in Backends \ {b} : pc'[c] = pc[c] /\ rows'[c] = rows[c]
  BY DEF Interrupted, TypeOK
<1>3. \A c \in Backends \ {b} :
        pc'[c] = "mark" /\ n \in Chunk(c)' <=> pc[c] = "mark" /\ n \in Chunk(c)
  BY <1>2 DEF Chunk
<1>4. Sent(n)' = Sent(n) \ {b} /\ ToSend(n)' = ToSend(n) \ {b}
  BY <1>2, <1>3 DEF Sent, ToSend
<1>5. Sendings(e)' = Sendings(e)
  BY <1>1 DEF Sendings
<1>6. /\ Cardinality(Sendings(e)) \in Nat
      /\ IsFiniteSet(Sent(n)) /\ Cardinality(Sent(n)) \in Nat
      /\ IsFiniteSet(ToSend(n)) /\ Cardinality(ToSend(n)) \in Nat
      /\ Cardinality(Backends) \in Nat
  BY SendingsFinite, BackendSets DEF Sent, ToSend
<1>7. /\ Cardinality(Sent(n)') \in Nat
      /\ Cardinality(Sent(n)) <= Cardinality(Sent(n)') + 1
  BY <1>4, <1>6, OneFewer
<1>8. Cardinality(ToSend(n)') \in Nat /\ Cardinality(ToSend(n)') <= Cardinality(ToSend(n))
  BY <1>4, <1>6, FS_Subset, FS_CardinalityType
<1> QED
  BY <1>1, <1>5, <1>6, <1>7, <1>8 DEF Counted

LEMMA CountAdminPublish ==
  ASSUME TypeOK, NEW m \in ManualEvents, AdminPublish(m),
         NEW n \in Ids, NEW e \in FeedEvents, Counted(n, e)
  PROVE  Counted(n, e)'
<1>1. UNCHANGED <<recorded, published, pc, rows, faults>> /\ topic' = topic \o <<m>>
  BY DEF AdminPublish
<1>2. faults' \in Nat /\ faults <= faults'
  BY <1>1, FaultsAssumption DEF TypeOK
<1>3. m \in AllEvents /\ m # e
  BY EventsAssumption DEF AllEvents
<1>4. topic \in Seq(AllEvents) /\ <<m>> \in Seq(AllEvents)
  BY <1>3 DEF TypeOK
<1>5. /\ DOMAIN topic = 1 .. Len(topic) /\ Len(topic) \in Nat
      /\ DOMAIN topic' = 1 .. Len(topic) + 1
      /\ \A k \in DOMAIN topic' : topic'[k] = IF k <= Len(topic) THEN topic[k] ELSE m
  <2>1. topic' = Append(topic, m)
    BY <1>1, <1>3, <1>4, AppendIsConcat
  <2>2. /\ topic' \in Seq(AllEvents) /\ Len(topic') = Len(topic) + 1
        /\ \A k \in 1 .. Len(topic) : topic'[k] = topic[k]
        /\ topic'[Len(topic) + 1] = m
    BY <1>3, <1>4, <2>1, AppendProperties
  <2> QED
    BY <1>4, <2>2, LenProperties
<1>6. Sendings(e)' = Sendings(e)
  <2>1. \A k \in DOMAIN topic' : topic'[k] = e <=> k \in DOMAIN topic /\ topic[k] = e
    BY <1>3, <1>5
  <2>2. \A k \in DOMAIN topic : k \in DOMAIN topic'
    BY <1>5
  <2> QED
    BY <2>1, <2>2 DEF Sendings
<1>7. Sent(n)' = Sent(n) /\ ToSend(n)' = ToSend(n)
  BY <1>1 DEF Sent, ToSend, Chunk
<1> QED
  BY <1>1, <1>2, <1>6, <1>7, QuietKeepsCount

LEMMA CountStep ==
  ASSUME TypeOK, RecordedOnce, [Next]_vars,
         NEW n \in Ids, NEW e \in FeedEvents, recorded[n] = e, Counted(n, e)
  PROVE  Counted(n, e)'
<1>1. ASSUME NEW b \in Backends, RunStep(b)
      PROVE  Counted(n, e)'
  BY <1>1, CountFetch, CountRecord, CountQueryOutbox, CountPublish,
     CountPublishFails, CountMark DEF RunStep
<1>2. CASE UNCHANGED <<topic, published, pc, rows, faults>>
  BY <1>2 DEF Counted, Sent, ToSend, Chunk, Sendings
<1> QED
  BY <1>1, <1>2, CountInterrupted, CountAdminPublish DEF Next, EventAppears, vars

\* A row that a step adds is for an event of which no message was sent.
LEMMA NewRowIsUnsent ==
  ASSUME CountInv, Inv', NEW b \in Backends, Record(b),
         NEW n \in Ids', n \notin Ids, NEW e \in FeedEvents, recorded'[n] = e
  PROVE  Counted(n, e)'
<1>1. PICK chunk \in SUBSET found[b] :
        \E new \in Orderings(chunk \ Recorded) : recorded' = recorded \o new
  BY DEF Record
<1>2. chunk \in SUBSET FeedEvents
  BY DEF CountInv, Inv, TypeOK
<1>3. Ids \subseteq Ids' /\ \A m \in Ids : recorded'[m] = recorded[m]
  BY <1>1, <1>2, RecordProperties DEF CountInv, Inv
<1>4. DOMAIN recorded = Ids /\ DOMAIN recorded' = Ids'
  BY LenProperties DEF Ids, CountInv, Inv, TypeOK
<1>5. e \notin Recorded
  <2> SUFFICES ASSUME NEW m \in Ids, recorded[m] = e
               PROVE  FALSE
    BY <1>4 DEF Recorded, Range
  <2> QED
    BY <1>3, <1>4 DEF Inv, RecordedOnce, IsInjective
<1>6. e \notin Range(topic)
  BY <1>5, EventsAssumption DEF CountInv, TopicIsRecorded
<1>7. UNCHANGED <<topic, published, faults>>
  BY DEF Record
<1>8. Sendings(e)' = {}
  BY <1>6, <1>7 DEF Sendings, Range
<1>9. /\ Cardinality(Sendings(e)') = 0
      /\ Cardinality(Sent(n)') \in Nat
      /\ faults' \in Nat
  BY <1>8, FS_EmptySet, BackendSets, FaultsAssumption DEF Sent, Inv, TypeOK
<1>10. n \notin published'
  BY <1>7 DEF CountInv, Inv, TypeOK
<1> QED
  BY <1>9, <1>10 DEF Counted

LEMMA CountSendingsStep ==
  ASSUME CountInv, Inv', [Next]_vars
  PROVE  SendingsCounted'
<1> SUFFICES ASSUME NEW e \in FeedEvents, NEW n \in Ids', recorded'[n] = e
             PROVE  Counted(n, e)'
  BY DEF SendingsCounted
<1>1. ASSUME NEW b \in Backends, Record(b)
      PROVE  n \in Ids => recorded[n] = e
  <2>1. PICK chunk \in SUBSET found[b] :
          \E new \in Orderings(chunk \ Recorded) : recorded' = recorded \o new
    BY <1>1 DEF Record
  <2>2. chunk \in SUBSET FeedEvents
    BY DEF CountInv, Inv, TypeOK
  <2> QED
    BY <2>1, <2>2, RecordProperties DEF CountInv, Inv
<1>2. ASSUME \A b \in Backends : ~ Record(b)
      PROVE  n \in Ids /\ recorded[n] = e
  <2>1. recorded' = recorded
    BY <1>2 DEF Next, RunStep, EventAppears, Fetch, FetchWith, QueryOutbox, Publish,
       PublishFails, Mark, Interrupted, AdminPublish, vars
  <2> QED
    BY <2>1 DEF Ids
<1>3. n \in Ids => recorded[n] = e
  BY <1>1, <1>2
<1>4. CASE n \in Ids
  BY <1>3, <1>4, CountStep DEF CountInv, Inv, SendingsCounted
<1>5. CASE n \notin Ids
  BY <1>2, <1>5, NewRowIsUnsent
<1> QED
  BY <1>4, <1>5

\* What is in a sequence appended to another comes from one of the two.
LEMMA ConcatRangeOnly ==
  ASSUME NEW S, NEW s \in Seq(S), NEW t \in Seq(S)
  PROVE  Range(s \o t) \subseteq Range(s) \cup Range(t)
<1> SUFFICES ASSUME NEW k \in DOMAIN (s \o t)
             PROVE  (s \o t)[k] \in Range(s) \cup Range(t)
  BY DEF Range
<1>1. /\ DOMAIN s = 1 .. Len(s) /\ DOMAIN t = 1 .. Len(t)
      /\ DOMAIN (s \o t) = 1 .. Len(s) + Len(t)
      /\ Len(s) \in Nat /\ Len(t) \in Nat
      /\ (s \o t)[k] = IF k <= Len(s) THEN s[k] ELSE t[k - Len(s)]
  BY ConcatProperties, LenProperties
<1>2. CASE k <= Len(s)
  BY <1>1, <1>2 DEF Range
<1>3. CASE ~ (k <= Len(s))
  <2>1. k - Len(s) \in DOMAIN t
    BY <1>1, <1>3
  <2> QED
    BY <1>1, <1>3, <2>1 DEF Range
<1> QED
  BY <1>2, <1>3

\* Sending rows puts nothing else into the log.
LEMMA SendOnly ==
  ASSUME TypeOK, NEW ids \in SUBSET Ids, Send(ids)
  PROVE  Range(topic') \subseteq Range(topic) \cup Recorded
<1>1. Cardinality(ids) \in Nat
  BY IdsFinite, LenProperties DEF TypeOK, Ids
<1>2. PICK order \in Orderings(ids) :
        topic' = topic \o [k \in 1 .. Cardinality(ids) |-> recorded[order[k]]]
  BY DEF Send
<1> DEFINE t == [k \in 1 .. Cardinality(ids) |-> recorded[order[k]]]
<1>3. \A k \in 1 .. Cardinality(ids) : order[k] \in Ids
  BY DEF Orderings, Bijection, Injection
<1>4. \A k \in 1 .. Cardinality(ids) : recorded[order[k]] \in AllEvents
  BY <1>3, ElementOfSeq DEF TypeOK, Ids, AllEvents
<1>5. t \in Seq(AllEvents)
  BY <1>1, <1>4, IsASeq
<1>6. DOMAIN recorded = Ids
  BY LenProperties DEF TypeOK, Ids
<1>7. Range(t) \subseteq Recorded
  BY <1>3, <1>6 DEF Range, Recorded
<1> HIDE DEF t
<1>8. topic \in Seq(AllEvents) /\ topic' = topic \o t
  BY <1>2 DEF TypeOK, t
<1> QED
  BY <1>5, <1>7, <1>8, ConcatRangeOnly

\* Rows stay recorded.
LEMMA RecordedGrows == TypeOK /\ [Next]_vars => Recorded \subseteq Recorded'
<1> SUFFICES ASSUME TypeOK, [Next]_vars
             PROVE  Recorded \subseteq Recorded'
  OBVIOUS
<1>1. ASSUME NEW b \in Backends, Record(b)
      PROVE  Recorded \subseteq Recorded'
  <2>1. PICK chunk \in SUBSET found[b] :
          \E new \in Orderings(chunk \ Recorded) : recorded' = recorded \o new
    BY <1>1 DEF Record
  <2>2. chunk \in SUBSET FeedEvents
    BY DEF TypeOK
  <2>3. Ids \subseteq Ids' /\ \A n \in Ids : recorded'[n] = recorded[n]
    BY <2>1, <2>2, RecordProperties
  <2>4. recorded' \in Seq(FeedEvents)
    BY <1>1, TypeRecord DEF TypeOK
  <2>5. DOMAIN recorded = Ids /\ DOMAIN recorded' = Ids'
    BY <2>4, LenProperties DEF Ids, TypeOK
  <2> QED
    BY <2>3, <2>5 DEF Recorded, Range
<1>2. ASSUME \A b \in Backends : ~ Record(b)
      PROVE  recorded' = recorded
  BY <1>2 DEF Next, RunStep, EventAppears, Fetch, FetchWith, QueryOutbox, Publish,
     PublishFails, Mark, Interrupted, AdminPublish, vars
<1> QED
  BY <1>1, <1>2 DEF Recorded

LEMMA TopicIsRecordedStep ==
  ASSUME TypeOK, TopicIsRecorded, [Next]_vars
  PROVE  TopicIsRecorded'
<1>1. Recorded \subseteq Recorded'
  BY RecordedGrows
<1>2. ASSUME NEW b \in Backends, Publish(b)
      PROVE  Range(topic') \subseteq Range(topic) \cup Recorded
  BY <1>2, ChunkProperties, SendOnly DEF Publish
<1>3. ASSUME NEW b \in Backends, PublishFails(b)
      PROVE  Range(topic') \subseteq Range(topic) \cup Recorded
  <2>1. PICK delivered \in SUBSET Chunk(b) : Send(delivered)
    BY <1>3 DEF PublishFails
  <2>2. delivered \in SUBSET Ids
    BY ChunkProperties
  <2> QED
    BY <2>1, <2>2, SendOnly
<1>4. ASSUME NEW m \in ManualEvents, AdminPublish(m)
      PROVE  Range(topic') \subseteq Range(topic) \cup ManualEvents
  <2>1. <<m>> \in Seq(AllEvents) /\ topic \in Seq(AllEvents) /\ topic' = topic \o <<m>>
    BY <1>4 DEF AdminPublish, AllEvents, TypeOK
  <2>2. Range(<<m>>) = {m}
    BY DEF Range
  <2> QED
    BY <2>1, <2>2, ConcatRangeOnly
<1>5. CASE topic' = topic
  BY <1>1, <1>5 DEF TopicIsRecorded
<1> QED
  BY <1>1, <1>2, <1>3, <1>4, <1>5 DEF Next, RunStep, EventAppears, Fetch, FetchWith,
     Record, QueryOutbox, Mark, Interrupted, vars, TopicIsRecorded

LEMMA CountInit == Init => CountInv
<1> SUFFICES ASSUME Init
             PROVE  CountInv
  OBVIOUS
<1>1. TopicIsRecorded
  BY DEF Init, TopicIsRecorded, Range
<1>2. Ids = {}
  BY DEF Init, Ids
<1> QED
  BY <1>1, <1>2, InvInit DEF CountInv, SendingsCounted

LEMMA CountNext == CountInv /\ [Next]_vars => CountInv'
  BY InvNext, TopicIsRecordedStep, CountSendingsStep DEF CountInv, Inv

LEMMA CountBounds == CountInv => DuplicatesBounded
<1> SUFFICES ASSUME CountInv, NEW e \in FeedEvents
             PROVE  Cardinality(Sendings(e)) <= Cardinality(Backends) + faults
  BY DEF DuplicatesBounded
<1>1. /\ Cardinality(Sendings(e)) \in Nat
      /\ Cardinality(Backends) \in Nat
      /\ faults \in Nat
  BY SendingsFinite, BackendSets, FaultsAssumption DEF CountInv, Inv, TypeOK
<1>2. CASE e \notin Recorded
  <2>1. e \notin Range(topic)
    BY <1>2, EventsAssumption DEF CountInv, TopicIsRecorded
  <2>2. Sendings(e) = {}
    BY <2>1 DEF Sendings, Range
  <2> QED
    BY <1>1, <2>2, FS_EmptySet
<1>3. CASE e \in Recorded
  <2>1. PICK n \in Ids : recorded[n] = e
    BY <1>3, LenProperties DEF Recorded, Range, Ids, CountInv, Inv, TypeOK
  <2>2. Counted(n, e)
    BY <2>1 DEF CountInv, SendingsCounted
  <2>3. /\ Cardinality(Sent(n)) \in Nat /\ Cardinality(Sent(n)) <= Cardinality(Backends)
        /\ Cardinality(ToSend(n)) \in Nat
    BY BackendSets DEF Sent, ToSend
  <2> QED
    BY <1>1, <2>2, <2>3 DEF Counted
<1> QED
  BY <1>2, <1>3

(***************************************************************************)
(* A row goes out at most once per backend and once more for every         *)
(* failure, however the runs overlap, for any number of backends, events,  *)
(* failures and any chunk sizes.                                           *)
(***************************************************************************)
THEOREM DuplicatesAreFew == Spec => []DuplicatesBounded
  BY CountInit, CountNext, CountBounds, PTL DEF Spec

-----------------------------------------------------------------------------
(***************************************************************************)
(* The runner.  What a call is told is true because of what the run it     *)
(* waits for still has to do: the events listed when it began are recorded *)
(* or among those it has yet to insert, unless a source failed, and the    *)
(* rows it took are marked or held.                                        *)
(***************************************************************************)
Kept(c) == c.listed \subseteq Recorded /\ c.drained \subseteq published

RunnerTypes ==
  /\ errors \in [Backends -> BOOLEAN]
  /\ covers \in [Backends -> [listed : SUBSET FeedEvents, drained : SUBSET Nat]]
  /\ last = [b \in Backends |-> last[b]]
  /\ \A b \in Backends : last[b].known => last[b] =
       [known |-> last[b].known, ok |-> last[b].ok, age |-> last[b].age, covers |-> last[b].covers]
  /\ wakes = [w \in Wakes |-> wakes[w]]

FoundOnlyToRecord == \A b \in Backends : pc[b] # "record" => found[b] = {}

RunCovers(b) ==
  Inflight(b) =>
    /\ ~ errors[b] => covers[b].listed \subseteq Recorded \cup found[b]
    /\ covers[b].drained \subseteq published \cup rows[b]

LastIsTrue == \A b \in Backends : Succeeded(last[b]) => Kept(last[b].covers)

CallWaits(w) ==
  wakes[w].stage \in {"ready", "waiting"} =>
    /\ wakes[w].b \in Backends
    /\ wakes[w].listed \subseteq feed

CallIsCovered(w) ==
  wakes[w].stage = "waiting" =>
    /\ Inflight(wakes[w].b)
    /\ wakes[w].joined \in BOOLEAN
    /\ ~ wakes[w].joined => wakes[w].listed \subseteq covers[wakes[w].b].listed

CallIsTrue(w) ==
  wakes[w].stage = "answered" /\ (wakes[w].ok \/ wakes[w].reason = "recent") =>
    /\ Kept(wakes[w].of)
    /\ wakes[w].ran => wakes[w].listed \subseteq wakes[w].of.listed

CallsKnown == \A w \in Wakes : CallWaits(w) /\ CallIsCovered(w) /\ CallIsTrue(w)

RunnerInv ==
  /\ CountInv
  /\ RunnerTypes
  /\ FoundOnlyToRecord
  /\ \A b \in Backends : RunCovers(b)
  /\ LastIsTrue
  /\ CallsKnown

\* An idle process restarts: only the count of the failures changes.
IdleRestart ==
  /\ Fault
  /\ UNCHANGED <<feed, recorded, published, topic, pc, found, rows>>

LEMMA RunIsFetch ==
  ASSUME NEW b \in Backends, Run(b)
  PROVE  Fetch(b) /\ Next
<1>1. Fetch(b)
  BY DEF Run, Fetch
<1> QED
  BY <1>1 DEF Next, RunStep

\* A step of the runner is a step of the outbox, or leaves it alone, or
\* restarts an idle process.
LEMMA RunnerStepCases ==
  ASSUME CallsKnown, [RunnerNext]_<<vars, runnerVars>>
  PROVE  [Next]_vars \/ IdleRestart
<1>1. ASSUME NEW b \in Backends, Works(b)
      PROVE  Next
  <2>1. RunStep(b)
    BY <1>1 DEF Works, RunStep
  <2> QED
    BY <2>1 DEF Next
<1>2. ASSUME NEW b \in Backends, Throws(b)
      PROVE  Next
  BY <1>2 DEF Throws, Next
<1>3. ASSUME NEW b \in Backends, Restart(b)
      PROVE  Next \/ IdleRestart
  BY <1>3 DEF Restart, Next, IdleRestart
<1>4. ASSUME NEW b \in Backends, TimerRun(b)
      PROVE  [Next]_vars
  BY <1>4, RunIsFetch DEF TimerRun
<1>5. ASSUME NEW w \in Wakes, Wake(w)
      PROVE  [Next]_vars
  <2>1. wakes[w].b \in Backends
    BY <1>5 DEF Wake, CallsKnown, CallWaits
  <2> QED
    BY <1>5, <2>1, RunIsFetch DEF Wake
<1> QED
  BY <1>1, <1>2, <1>3, <1>4, <1>5 DEF RunnerNext, Outside, Next, Tick, WakeArrives,
     WakeTimesOut, WakeOver, vars, runnerVars

\* Such a restart keeps the invariant of the outbox.
LEMMA CountIdleRestart ==
  ASSUME CountInv, IdleRestart
  PROVE  CountInv'
<1>1. faults \in Nat /\ faults' = faults + 1 /\ faults' \in 0 .. MaxFaults
  BY FaultsAssumption DEF IdleRestart, Fault, CountInv, Inv, TypeOK
<1>2. Inv' /\ TopicIsRecorded'
  BY <1>1 DEF IdleRestart, CountInv, Inv, TypeOK, MarkedIsInTopic, SentBeforeMark, Chunk,
     RecordedOnce, TopicIsRecorded, Ids, Recorded
<1>3. SendingsCounted'
  <2> SUFFICES ASSUME NEW e \in FeedEvents, NEW n \in Ids, recorded[n] = e
               PROVE  Counted(n, e)'
    BY DEF SendingsCounted, IdleRestart, Ids
  <2>1. TypeOK /\ Counted(n, e)
    BY DEF CountInv, Inv, SendingsCounted
  <2>2. faults' \in Nat /\ faults <= faults'
    BY <1>1
  <2>3. /\ Sent(n)' = Sent(n) /\ ToSend(n)' = ToSend(n)
        /\ Sendings(e)' = Sendings(e) /\ published' = published
    BY DEF IdleRestart, Sent, ToSend, Chunk, Sendings
  <2> QED
    BY <2>1, <2>2, <2>3, QuietKeepsCount
<1> QED
  BY <1>2, <1>3 DEF CountInv

LEMMA CountRunnerStep ==
  ASSUME CountInv, CallsKnown, [RunnerNext]_<<vars, runnerVars>>
  PROVE  CountInv'
  BY RunnerStepCases, CountNext, CountIdleRestart

\* Listed, recorded and published events stay so.
LEMMA MarkedGrows == [Next]_vars => published \subseteq published'
  BY DEF Next, RunStep, EventAppears, Fetch, FetchWith, Record, QueryOutbox, Publish,
     PublishFails, Mark, Interrupted, AdminPublish, vars

LEMMA ListedGrows == [Next]_vars => feed \subseteq feed'
  BY DEF Next, RunStep, EventAppears, Fetch, FetchWith, Record, QueryOutbox, Publish,
     PublishFails, Mark, Interrupted, AdminPublish, vars

LEMMA OnlyGrows ==
  ASSUME CountInv, CallsKnown, [RunnerNext]_<<vars, runnerVars>>
  PROVE  /\ feed \subseteq feed'
         /\ Recorded \subseteq Recorded'
         /\ published \subseteq published'
<1>1. CASE [Next]_vars
  BY <1>1, ListedGrows, RecordedGrows, MarkedGrows DEF CountInv, Inv
<1>2. CASE IdleRestart
  BY <1>2 DEF IdleRestart, Recorded
<1> QED
  BY <1>1, <1>2, RunnerStepCases

\* What a run still holds to insert are the events it found.
LEMMA FoundStep ==
  ASSUME TypeOK, FoundOnlyToRecord, [Next]_vars \/ IdleRestart
  PROVE  FoundOnlyToRecord'
<1>1. ASSUME NEW b \in Backends, RunStep(b) \/ Interrupted(b)
      PROVE  FoundOnlyToRecord'
  <2> SUFFICES ASSUME NEW c \in Backends, pc'[c] # "record"
               PROVE  found'[c] = {}
    BY DEF FoundOnlyToRecord
  <2>1. ASSUME c # b
        PROVE  pc'[c] = pc[c] /\ found'[c] = found[c]
    BY <1>1, <2>1 DEF TypeOK, RunStep, Fetch, FetchWith, Record, QueryOutbox, Publish,
       PublishFails, Mark, Interrupted
  <2>2. ASSUME c = b
        PROVE  found'[c] = {}
    <3>1. CASE \E failed \in SUBSET {"nasa", "usgs"} : FetchWith(b, failed)
      BY <2>2, <3>1 DEF TypeOK, FetchWith
    <3>2. CASE Record(b)
      <4>1. PICK chunk \in SUBSET found[b] :
              /\ found' = [found EXCEPT ![b] = @ \ chunk]
              /\ pc' = [pc EXCEPT ![b] = IF found[b] = chunk THEN "query" ELSE "record"]
        BY <3>2 DEF Record
      <4> QED
        BY <2>2, <4>1 DEF TypeOK
    <3>3. CASE QueryOutbox(b) \/ Publish(b) \/ PublishFails(b) \/ Mark(b)
      BY <2>2, <3>3 DEF TypeOK, FoundOnlyToRecord, QueryOutbox, Publish, PublishFails, Mark
    <3>4. CASE Interrupted(b)
      BY <2>2, <3>4 DEF TypeOK, Interrupted
    <3> QED
      BY <1>1, <3>1, <3>2, <3>3, <3>4 DEF RunStep, Fetch
  <2> QED
    BY <2>1, <2>2 DEF FoundOnlyToRecord
<1>2. CASE UNCHANGED <<pc, found>>
  BY <1>2 DEF FoundOnlyToRecord
<1> QED
  BY <1>1, <1>2 DEF Next, EventAppears, AdminPublish, IdleRestart, vars

\* A chunk that was inserted is recorded.
LEMMA ChunkIsRecorded ==
  ASSUME TypeOK, NEW chunk \in SUBSET FeedEvents,
         NEW new \in Orderings(chunk \ Recorded), recorded' = recorded \o new
  PROVE  chunk \subseteq Recorded'
<1> DEFINE S == chunk \ Recorded
<1>1. Cardinality(S) \in Nat
  BY FoundFinite
<1>2. /\ new \in [1 .. Cardinality(S) -> S]
      /\ \A e \in S : \E k \in 1 .. Cardinality(S) : new[k] = e
  BY DEF Orderings, Bijection, Surjection, Injection
<1>3. new \in Seq(FeedEvents) /\ DOMAIN new = 1 .. Cardinality(S)
  <2>1. new \in [1 .. Cardinality(S) -> FeedEvents]
    BY <1>2
  <2> QED
    BY <1>1, <2>1, FunctionIsSeq
<1>4. S \subseteq Range(new)
  BY <1>2, <1>3 DEF Range
<1>5. Recorded \subseteq Recorded' /\ Range(new) \subseteq Recorded'
  BY <1>3, ConcatRange DEF TypeOK, Recorded
<1> QED
  BY <1>4, <1>5

LEMMA RecordKeepsFound ==
  ASSUME TypeOK, NEW b \in Backends, Record(b)
  PROVE  found[b] \subseteq Recorded' \cup found'[b]
<1>1. PICK chunk \in SUBSET found[b] :
        /\ \E new \in Orderings(chunk \ Recorded) : recorded' = recorded \o new
        /\ found' = [found EXCEPT ![b] = @ \ chunk]
  BY DEF Record
<1>2. chunk \in SUBSET FeedEvents
  BY DEF TypeOK
<1>3. chunk \subseteq Recorded'
  BY <1>1, <1>2, ChunkIsRecorded
<1>4. found'[b] = found[b] \ chunk
  BY <1>1 DEF TypeOK
<1> QED
  BY <1>3, <1>4

\* The other backends' runs are not touched.
LEMMA OthersRun ==
  ASSUME TypeOK, NEW b \in Backends, RunStep(b) \/ Interrupted(b),
         NEW c \in Backends \ {b}
  PROVE  pc'[c] = pc[c] /\ found'[c] = found[c] /\ rows'[c] = rows[c]
  BY DEF TypeOK, RunStep, Fetch, FetchWith, Record, QueryOutbox, Publish, PublishFails,
     Mark, Interrupted

\* A run that keeps what it answers for, and loses nothing it holds, stays covered.
LEMMA CoversKept ==
  ASSUME NEW c \in Backends, RunCovers(c),
         Recorded \subseteq Recorded', published \subseteq published',
         covers'[c] = covers[c], errors'[c] = errors[c],
         Inflight(c)' => Inflight(c),
         Inflight(c)' => /\ found[c] \subseteq Recorded' \cup found'[c]
                         /\ rows[c] \subseteq published' \cup rows'[c]
  PROVE  RunCovers(c)'
  BY DEF RunCovers

\* A run that begins answers for the events listed now: they are recorded or
\* it has found them, unless a source failed.
LEMMA CoversBegin ==
  ASSUME TypeOK, RunnerTypes, NEW b \in Backends, Run(b)
  PROVE  /\ RunCovers(b)'
         /\ covers' = [covers EXCEPT ![b] = [listed |-> feed, drained |-> {}]]
         /\ covers'[b].listed = feed
         /\ errors' \in [Backends -> BOOLEAN]
         /\ \A c \in Backends \ {b} : errors'[c] = errors[c]
<1>1. covers' = [covers EXCEPT ![b] = [listed |-> feed, drained |-> {}]]
  BY DEF Run
<1>2. covers'[b] = [listed |-> feed, drained |-> {}]
  BY <1>1 DEF RunnerTypes
<1>3. covers'[b].listed = feed /\ covers'[b].drained = {}
  BY <1>2
<1>4. errors' = [errors EXCEPT ![b] = FALSE] \/ errors' = [errors EXCEPT ![b] = TRUE]
  BY DEF Run
<1>5. errors' \in [Backends -> BOOLEAN] /\ \A c \in Backends \ {b} : errors'[c] = errors[c]
  BY <1>4 DEF RunnerTypes
<1>6. ASSUME ~ errors'[b]
      PROVE  feed \subseteq Recorded' \cup found'[b]
  <2>1. FetchWith(b, {})
    BY <1>6 DEF Run, RunnerTypes
  <2>2. found'[b] = NewIn({}) /\ Recorded' = Recorded
    BY <2>1 DEF FetchWith, TypeOK, Recorded
  <2>3. feed \subseteq Recorded \cup NewIn({})
    BY DEF NewIn, TypeOK, FeedEvents
  <2> QED
    BY <2>2, <2>3
<1> QED
  BY <1>1, <1>3, <1>5, <1>6 DEF RunCovers

\* A step of a run keeps it covered, and keeps the events it answers for.
LEMMA WorksCovers ==
  ASSUME RunnerInv, NEW b \in Backends, Works(b),
         Recorded \subseteq Recorded', published \subseteq published'
  PROVE  /\ Inflight(b)
         /\ RunCovers(b)'
         /\ covers' \in [Backends -> [listed : SUBSET FeedEvents, drained : SUBSET Nat]]
         /\ covers'[b].listed = covers[b].listed
         /\ errors' \in [Backends -> BOOLEAN]
         /\ \A c \in Backends \ {b} : covers'[c] = covers[c] /\ errors'[c] = errors[c]
<1> USE DEF RunnerInv
<1>1. TypeOK /\ RunnerTypes /\ RunCovers(b)
  BY DEF CountInv, Inv
<1>2. CASE Record(b) /\ UNCHANGED <<errors, covers>>
  <2>1. Inflight(b) /\ found[b] \subseteq Recorded' \cup found'[b] /\ rows'[b] = rows[b]
    BY <1>1, <1>2, RecordKeepsFound DEF Record, Inflight
  <2> QED
    BY <1>1, <1>2, <2>1, CoversKept DEF RunnerTypes
<1>3. CASE /\ QueryOutbox(b)
           /\ covers' = [covers EXCEPT ![b].drained = rows'[b]]
           /\ UNCHANGED errors
  <2>1. /\ Inflight(b) /\ rows'[b] \subseteq Nat
        /\ found'[b] = found[b] /\ Recorded' = Recorded
    BY <1>1, <1>3 DEF QueryOutbox, Inflight, TypeOK, Pending, Oldest, Ids, Recorded
  <2>2. PICK l \in SUBSET FeedEvents, d \in SUBSET Nat : covers[b] = [listed |-> l, drained |-> d]
    BY <1>1 DEF RunnerTypes
  <2>3. covers' = [covers EXCEPT ![b] = [listed |-> l, drained |-> rows'[b]]]
    <3>1. PICK d2 : d2 = rows'[b]
      OBVIOUS
    <3>2. covers' = [covers EXCEPT ![b] = [covers[b] EXCEPT !.drained = d2]]
      BY <1>3, <3>1
    <3>3. [covers[b] EXCEPT !.drained = d2] = [listed |-> l, drained |-> d2]
      BY <2>2
    <3> QED
      BY <3>1, <3>2, <3>3
  <2>4. covers'[b] = [listed |-> l, drained |-> rows'[b]]
    BY <1>1, <2>3 DEF RunnerTypes
  <2>5. covers'[b].listed = l /\ covers'[b].drained = rows'[b] /\ covers[b].listed = l
    BY <2>2, <2>4
  <2>6. RunCovers(b)'
    BY <1>1, <1>3, <2>1, <2>5 DEF RunCovers
  <2> QED
    BY <1>1, <1>3, <2>1, <2>3, <2>5, <2>6 DEF RunnerTypes
<1>4. CASE Publish(b) /\ UNCHANGED <<errors, covers>>
  <2>1. Inflight(b) /\ found'[b] = found[b] /\ rows'[b] = rows[b] /\ Recorded' = Recorded
    BY <1>1, <1>4 DEF Publish, Inflight, Recorded
  <2> QED
    BY <1>1, <1>4, <2>1, CoversKept DEF RunnerTypes, RunCovers
<1>5. CASE PublishFails(b) /\ errors' = [errors EXCEPT ![b] = TRUE] /\ UNCHANGED covers
  <2>1. Inflight(b) /\ ~ Inflight(b)'
    BY <1>1, <1>5 DEF PublishFails, Inflight, TypeOK
  <2> QED
    BY <1>1, <1>5, <2>1 DEF RunCovers, RunnerTypes
<1>6. CASE Mark(b) /\ UNCHANGED <<errors, covers>>
  <2>1. /\ Inflight(b) /\ found'[b] = found[b] /\ Recorded' = Recorded
        /\ rows[b] \subseteq published' \cup rows'[b]
    BY <1>1, <1>6 DEF Mark, Inflight, Recorded, TypeOK
  <2> QED
    BY <1>1, <1>6, <2>1, CoversKept DEF RunnerTypes, RunCovers
<1> QED
  BY <1>2, <1>3, <1>4, <1>5, <1>6 DEF Works

\* A run that ends without an error has done what it answers for.
LEMMA EndOfRun ==
  ASSUME RunnerInv, NEW b \in Backends, Works(b),
         Recorded \subseteq Recorded', published \subseteq published',
         pc'[b] = "idle", ~ errors'[b]
  PROVE  covers[b].listed \subseteq Recorded' /\ covers[b].drained \subseteq published'
<1>1. TypeOK /\ RunnerTypes /\ RunCovers(b) /\ FoundOnlyToRecord
  BY DEF RunnerInv, CountInv, Inv
<1>2. CASE Record(b)
  <2>1. pc'[b] # "idle"
    <3>1. PICK chunk \in SUBSET found[b] :
            pc' = [pc EXCEPT ![b] = IF found[b] = chunk THEN "query" ELSE "record"]
      BY <1>2 DEF Record
    <3> QED
      BY <1>1, <3>1 DEF TypeOK
  <2> QED
    BY <2>1
<1>3. CASE QueryOutbox(b) /\ UNCHANGED errors
  <2>1. Inflight(b) /\ found[b] = {} /\ rows[b] = {}
    BY <1>1, <1>3 DEF QueryOutbox, Inflight, FoundOnlyToRecord, TypeOK
  <2> QED
    BY <1>1, <1>3, <2>1 DEF RunCovers
<1>4. CASE Publish(b)
  BY <1>1, <1>4 DEF Publish, TypeOK
<1>5. CASE errors' = [errors EXCEPT ![b] = TRUE]
  BY <1>1, <1>5 DEF RunnerTypes
<1>6. CASE Mark(b) /\ UNCHANGED errors
  <2>1. Inflight(b) /\ found[b] = {} /\ rows[b] \subseteq published'
    BY <1>1, <1>6 DEF Mark, Inflight, FoundOnlyToRecord, TypeOK
  <2> QED
    BY <1>1, <1>6, <2>1 DEF RunCovers
<1> QED
  BY <1>2, <1>3, <1>4, <1>5, <1>6 DEF Works

\* What the end of a run does: only its backend's last run and the calls that
\* wait for it change, and both speak of what the run answers for.
LEMMA EndsEffects ==
  ASSUME RunnerTypes, NEW b \in Backends, NEW ok \in BOOLEAN, Ends(b, ok)
  PROVE  /\ last' = [c \in Backends |-> last'[c]]
         /\ wakes' = [w \in Wakes |-> wakes'[w]]
         /\ \A c \in Backends \ {b} : last'[c] = last[c]
         /\ last'[b] = [known |-> TRUE, ok |-> ok, age |-> 0, covers |-> covers[b]]
         /\ \A w \in Wakes :
              IF wakes[w].stage = "waiting" /\ wakes[w].b = b
                THEN wakes'[w] = [stage |-> "answered", b |-> b, listed |-> wakes[w].listed,
                       reason |-> IF wakes[w].joined THEN "in-progress" ELSE "ran",
                       ran |-> ~ wakes[w].joined, ok |-> ok, of |-> covers[b]]
                ELSE wakes'[w] = wakes[w]
<1> DEFINE run == [known |-> TRUE, ok |-> ok, age |-> 0, covers |-> covers[b]]
<1>1. /\ last' = [last EXCEPT ![b] = run]
      /\ wakes' = [w \in Wakes |->
                     IF wakes[w].stage = "waiting" /\ wakes[w].b = b
                       THEN Answered(w, b, ~ wakes[w].joined,
                                     IF wakes[w].joined THEN "in-progress" ELSE "ran", run)
                       ELSE wakes[w]]
  BY DEF Ends
<1>2. run.ok = ok /\ run.covers = covers[b]
  OBVIOUS
<1> HIDE DEF run
<1>3. last' = [c \in Backends |-> last'[c]] /\ (\A c \in Backends \ {b} : last'[c] = last[c])
      /\ last'[b] = run
  BY <1>1 DEF RunnerTypes
<1>4. wakes' = [w \in Wakes |-> wakes'[w]]
  BY <1>1
<1>5. \A w \in Wakes :
        IF wakes[w].stage = "waiting" /\ wakes[w].b = b
          THEN wakes'[w] = [stage |-> "answered", b |-> b, listed |-> wakes[w].listed,
                 reason |-> IF wakes[w].joined THEN "in-progress" ELSE "ran",
                 ran |-> ~ wakes[w].joined, ok |-> ok, of |-> covers[b]]
          ELSE wakes'[w] = wakes[w]
  BY <1>1, <1>2 DEF Answered
<1> QED
  BY <1>3, <1>4, <1>5 DEF run

\* A call that a step does not touch stays what it was, as long as the run it
\* waits for goes on.
LEMMA CallKept ==
  ASSUME NEW w \in Wakes, CallWaits(w), CallIsCovered(w), CallIsTrue(w),
         wakes'[w] = wakes[w],
         feed \subseteq feed', Recorded \subseteq Recorded', published \subseteq published',
         wakes[w].stage = "waiting" =>
           Inflight(wakes[w].b)' /\ covers'[wakes[w].b].listed = covers[wakes[w].b].listed
  PROVE  CallWaits(w)' /\ CallIsCovered(w)' /\ CallIsTrue(w)'
<1>1. PICK r : r = wakes[w]
  OBVIOUS
<1>2. wakes'[w] = r
  BY <1>1
<1>3. CallWaits(w)'
  BY <1>1, <1>2 DEF CallWaits
<1>4. CallIsCovered(w)'
  BY <1>1, <1>2 DEF CallIsCovered, Inflight
<1>5. CallIsTrue(w)'
  BY <1>1, <1>2 DEF CallIsTrue, Kept
<1> QED
  BY <1>3, <1>4, <1>5

\* The last run stays true when it stays the last.
LEMMA LastKept ==
  ASSUME NEW b \in Backends, LastIsTrue, last'[b] = last[b],
         Recorded \subseteq Recorded', published \subseteq published'
  PROVE  (Succeeded(last[b]) => Kept(last[b].covers))'
<1>1. PICK r : r = last[b]
  OBVIOUS
<1> QED
  BY <1>1 DEF LastIsTrue, Kept, Succeeded

\* When a run ends, what it is reported to have done is done.
LEMMA EndsTruly ==
  ASSUME RunnerInv, NEW b \in Backends, NEW ok \in BOOLEAN, Ends(b, ok),
         feed \subseteq feed', Recorded \subseteq Recorded', published \subseteq published',
         ok => covers[b].listed \subseteq Recorded' /\ covers[b].drained \subseteq published',
         \A c \in Backends \ {b} : pc'[c] = pc[c] /\ covers'[c] = covers[c]
  PROVE  LastIsTrue' /\ CallsKnown'
<1>1. PICK done : done = covers[b]
  OBVIOUS
<1>2. /\ \A c \in Backends \ {b} : last'[c] = last[c]
      /\ last'[b] = [known |-> TRUE, ok |-> ok, age |-> 0, covers |-> done]
      /\ \A w \in Wakes :
           IF wakes[w].stage = "waiting" /\ wakes[w].b = b
             THEN wakes'[w] = [stage |-> "answered", b |-> b, listed |-> wakes[w].listed,
                    reason |-> IF wakes[w].joined THEN "in-progress" ELSE "ran",
                    ran |-> ~ wakes[w].joined, ok |-> ok, of |-> done]
             ELSE wakes'[w] = wakes[w]
  BY <1>1, EndsEffects DEF RunnerInv
<1>3. LastIsTrue'
  <2> SUFFICES ASSUME NEW c \in Backends
               PROVE  (Succeeded(last[c]) => Kept(last[c].covers))'
    BY DEF LastIsTrue
  <2>1. CASE c = b
    <3>1. last'[b].ok = ok /\ last'[b].covers = done
      BY <1>2
    <3> QED
      BY <1>1, <2>1, <3>1 DEF Succeeded, Kept
  <2>2. CASE c # b
    BY <1>2, <2>2, LastKept DEF RunnerInv
  <2> QED
    BY <2>1, <2>2
<1>4. CallsKnown'
  <2> SUFFICES ASSUME NEW w \in Wakes
               PROVE  CallWaits(w)' /\ CallIsCovered(w)' /\ CallIsTrue(w)'
    BY DEF CallsKnown
  <2>1. CallWaits(w) /\ CallIsCovered(w) /\ CallIsTrue(w)
    BY DEF RunnerInv, CallsKnown
  <2>2. CASE wakes[w].stage = "waiting" /\ wakes[w].b = b
    <3>1. PICK j \in BOOLEAN : j = wakes[w].joined
      BY <2>1, <2>2 DEF CallIsCovered
    <3>. PICK l : l = wakes[w].listed
      OBVIOUS
    <3>2. wakes'[w] = [stage |-> "answered", b |-> b, listed |-> l,
                       reason |-> IF j THEN "in-progress" ELSE "ran",
                       ran |-> ~ j, ok |-> ok, of |-> done]
      BY <1>2, <2>2, <3>1
    <3>3. /\ wakes'[w].stage = "answered" /\ wakes'[w].ok = ok /\ wakes'[w].of = done
          /\ wakes'[w].listed = l /\ wakes'[w].ran = ~ j
          /\ wakes'[w].reason # "recent"
      BY <3>2
    <3>4. ~ j => l \subseteq done.listed
      BY <1>1, <2>1, <2>2, <3>1 DEF CallIsCovered
    <3> QED
      BY <1>1, <3>3, <3>4 DEF CallWaits, CallIsCovered, CallIsTrue, Kept
  <2>3. CASE ~ (wakes[w].stage = "waiting" /\ wakes[w].b = b)
    <3>1. wakes'[w] = wakes[w]
      BY <1>2, <2>3
    <3>2. wakes[w].stage = "waiting" =>
            /\ wakes[w].b \in Backends \ {b}
            /\ Inflight(wakes[w].b)
      BY <2>1, <2>3 DEF CallWaits, CallIsCovered
    <3>3. wakes[w].stage = "waiting" =>
            Inflight(wakes[w].b)' /\ covers'[wakes[w].b].listed = covers[wakes[w].b].listed
      <4>1. PICK c : c = wakes[w].b /\ wakes'[w].b = c
        BY <3>1
      <4> QED
        BY <3>2, <4>1 DEF Inflight
    <3> QED
      BY <2>1, <3>1, <3>3, CallKept
  <2> QED
    BY <2>2, <2>3
<1> QED
  BY <1>3, <1>4

LEMMA EndsTypes ==
  ASSUME RunnerTypes, NEW b \in Backends, NEW ok \in BOOLEAN, Ends(b, ok),
         errors' \in [Backends -> BOOLEAN],
         covers' \in [Backends -> [listed : SUBSET FeedEvents, drained : SUBSET Nat]]
  PROVE  RunnerTypes'
<1>1. PICK done : done = covers[b]
  OBVIOUS
<1>2. /\ last' = [c \in Backends |-> last'[c]]
      /\ wakes' = [w \in Wakes |-> wakes'[w]]
      /\ \A c \in Backends \ {b} : last'[c] = last[c]
      /\ last'[b] = [known |-> TRUE, ok |-> ok, age |-> 0, covers |-> done]
  BY <1>1, EndsEffects
<1>3. \A c \in Backends : last'[c].known => last'[c] =
        [known |-> last'[c].known, ok |-> last'[c].ok, age |-> last'[c].age,
         covers |-> last'[c].covers]
  <2> SUFFICES ASSUME NEW c \in Backends, last'[c].known
               PROVE  last'[c] = [known |-> last'[c].known, ok |-> last'[c].ok,
                                  age |-> last'[c].age, covers |-> last'[c].covers]
    OBVIOUS
  <2>1. CASE c = b
    BY <1>2, <2>1
  <2>2. CASE c # b
    BY <1>2, <2>2 DEF RunnerTypes
  <2> QED
    BY <2>1, <2>2
<1> QED
  BY <1>2, <1>3 DEF RunnerTypes

LEMMA RunnerWorks ==
  ASSUME RunnerInv, CountInv', NEW b \in Backends, Works(b),
         feed \subseteq feed', Recorded \subseteq Recorded', published \subseteq published'
  PROVE  RunnerInv'
<1>1. TypeOK /\ RunnerTypes /\ LastIsTrue /\ CallsKnown
  BY DEF RunnerInv, CountInv, Inv
<1>2. RunStep(b) /\ Next
  <2>1. RunStep(b)
    BY DEF Works, RunStep
  <2> QED
    BY <2>1 DEF Next
<1>3. FoundOnlyToRecord'
  BY <1>1, <1>2, FoundStep DEF RunnerInv
<1>4. /\ Inflight(b)
      /\ RunCovers(b)'
      /\ covers' \in [Backends -> [listed : SUBSET FeedEvents, drained : SUBSET Nat]]
      /\ covers'[b].listed = covers[b].listed
      /\ errors' \in [Backends -> BOOLEAN]
      /\ \A c \in Backends \ {b} : covers'[c] = covers[c] /\ errors'[c] = errors[c]
  BY WorksCovers
<1>5. \A c \in Backends \ {b} : pc'[c] = pc[c] /\ found'[c] = found[c] /\ rows'[c] = rows[c]
  BY <1>1, <1>2, OthersRun
<1>6. \A c \in Backends : RunCovers(c)'
  <2> SUFFICES ASSUME NEW c \in Backends, c # b
               PROVE  RunCovers(c)'
    BY <1>4
  <2>1. /\ RunCovers(c)
        /\ covers'[c] = covers[c] /\ errors'[c] = errors[c]
        /\ Inflight(c)' => Inflight(c)
        /\ found'[c] = found[c] /\ rows'[c] = rows[c]
    BY <1>4, <1>5 DEF RunnerInv, Inflight
  <2> QED
    BY <2>1, CoversKept
<1>7. CASE pc'[b] = "idle"
  <2>1. PICK ok \in BOOLEAN : ok = ~ errors'[b]
    BY <1>4
  <2>2. Ends(b, ~ errors'[b])
    BY <1>7 DEF Works
  <2>3. Ends(b, ok)
    BY <2>1, <2>2 DEF Ends, Answered
  <2>4. ok => covers[b].listed \subseteq Recorded' /\ covers[b].drained \subseteq published'
    BY <1>7, <2>1, EndOfRun
  <2>5. LastIsTrue' /\ CallsKnown'
    BY <1>4, <1>5, <2>3, <2>4, EndsTruly
  <2>6. RunnerTypes'
    BY <1>1, <1>4, <2>3, EndsTypes
  <2> QED
    BY <1>3, <1>6, <2>5, <2>6 DEF RunnerInv
<1>8. CASE pc'[b] # "idle"
  <2>1. UNCHANGED <<last, wakes>>
    BY <1>8 DEF Works
  <2>2. LastIsTrue'
    BY <1>1, <2>1, LastKept DEF LastIsTrue
  <2>3. CallsKnown'
    <3> SUFFICES ASSUME NEW w \in Wakes
                 PROVE  CallWaits(w)' /\ CallIsCovered(w)' /\ CallIsTrue(w)'
      BY DEF CallsKnown
    <3>1. CallWaits(w) /\ CallIsCovered(w) /\ CallIsTrue(w)
      BY <1>1 DEF CallsKnown
    <3>2. wakes[w].stage = "waiting" =>
            Inflight(wakes[w].b)' /\ covers'[wakes[w].b].listed = covers[wakes[w].b].listed
      <4>1. PICK c : c = wakes[w].b /\ wakes'[w].b = c
        BY <2>1
      <4> QED
        BY <1>4, <1>5, <1>8, <3>1, <4>1 DEF Inflight, CallWaits, CallIsCovered
    <3> QED
      BY <2>1, <3>1, <3>2, CallKept
  <2>4. RunnerTypes'
    BY <1>1, <1>4, <2>1 DEF RunnerTypes
  <2> QED
    BY <1>3, <1>6, <2>2, <2>3, <2>4 DEF RunnerInv
<1> QED
  BY <1>7, <1>8

LEMMA RunnerThrows ==
  ASSUME RunnerInv, CountInv', NEW b \in Backends, Throws(b),
         feed \subseteq feed', Recorded \subseteq Recorded', published \subseteq published'
  PROVE  RunnerInv'
<1>1. TypeOK /\ RunnerTypes
  BY DEF RunnerInv, CountInv, Inv
<1>2. Interrupted(b) /\ Ends(b, FALSE) /\ UNCHANGED <<errors, covers>> /\ Next
  BY DEF Throws, Next
<1>3. FoundOnlyToRecord'
  BY <1>1, <1>2, FoundStep DEF RunnerInv
<1>4. /\ \A c \in Backends \ {b} : pc'[c] = pc[c] /\ found'[c] = found[c] /\ rows'[c] = rows[c]
      /\ pc'[b] = "idle"
  BY <1>1, <1>2, OthersRun DEF Interrupted, TypeOK
<1>5. \A c \in Backends : RunCovers(c)'
  <2> SUFFICES ASSUME NEW c \in Backends
               PROVE  RunCovers(c)'
    OBVIOUS
  <2>1. CASE c = b
    BY <1>4, <2>1 DEF RunCovers, Inflight
  <2>2. CASE c # b
    BY <1>2, <1>4, <2>2, CoversKept DEF RunnerInv, Inflight
  <2> QED
    BY <2>1, <2>2
<1>6. PICK ok \in BOOLEAN : ok = FALSE
  OBVIOUS
<1>7. Ends(b, ok)
  BY <1>2, <1>6
<1>8. LastIsTrue' /\ CallsKnown'
  BY <1>2, <1>4, <1>6, <1>7, EndsTruly
<1>9. RunnerTypes'
  BY <1>1, <1>2, <1>7, EndsTypes DEF RunnerTypes
<1> QED
  BY <1>3, <1>5, <1>8, <1>9 DEF RunnerInv

\* A call that is over asks for nothing.
LEMMA NoCall ==
  ASSUME NEW w \in Wakes, wakes'[w] = NoWake
  PROVE  CallWaits(w)' /\ CallIsCovered(w)' /\ CallIsTrue(w)'
<1>1. wakes'[w].stage = "none"
  BY DEF NoWake
<1> QED
  BY <1>1 DEF CallWaits, CallIsCovered, CallIsTrue

LEMMA RunnerRestart ==
  ASSUME RunnerInv, CountInv', NEW b \in Backends, Restart(b),
         feed \subseteq feed', Recorded \subseteq Recorded', published \subseteq published'
  PROVE  RunnerInv'
<1>1. TypeOK /\ RunnerTypes /\ LastIsTrue /\ CallsKnown
  BY DEF RunnerInv, CountInv, Inv
<1>2. /\ Interrupted(b) \/ (IdleRestart /\ pc[b] = "idle")
      /\ UNCHANGED <<errors, covers>>
      /\ last' = [last EXCEPT ![b] = NoRun]
      /\ wakes' = [w \in Wakes |->
                     IF wakes[w].stage \in {"ready", "waiting"} /\ wakes[w].b = b THEN NoWake
                     ELSE wakes[w]]
  BY DEF Restart, IdleRestart
<1>3. FoundOnlyToRecord'
  BY <1>1, <1>2, FoundStep DEF RunnerInv, Next
<1>4. /\ \A c \in Backends \ {b} : pc'[c] = pc[c] /\ found'[c] = found[c] /\ rows'[c] = rows[c]
      /\ pc'[b] = "idle"
  BY <1>1, <1>2, OthersRun DEF Interrupted, IdleRestart, TypeOK
<1>5. \A c \in Backends : RunCovers(c)'
  <2> SUFFICES ASSUME NEW c \in Backends
               PROVE  RunCovers(c)'
    OBVIOUS
  <2>1. CASE c = b
    BY <1>4, <2>1 DEF RunCovers, Inflight
  <2>2. CASE c # b
    BY <1>2, <1>4, <2>2, CoversKept DEF RunnerInv, Inflight
  <2> QED
    BY <2>1, <2>2
<1>6. LastIsTrue'
  <2> SUFFICES ASSUME NEW c \in Backends
               PROVE  (Succeeded(last[c]) => Kept(last[c].covers))'
    BY DEF LastIsTrue
  <2>1. CASE c = b
    <3>1. last'[c] = NoRun
      BY <1>1, <1>2, <2>1 DEF RunnerTypes
    <3>2. ~ last'[c].known
      BY <3>1 DEF NoRun
    <3> QED
      BY <3>2 DEF Succeeded
  <2>2. CASE c # b
    BY <1>1, <1>2, <2>2, LastKept DEF RunnerTypes
  <2> QED
    BY <2>1, <2>2
<1>7. CallsKnown'
  <2> SUFFICES ASSUME NEW w \in Wakes
               PROVE  CallWaits(w)' /\ CallIsCovered(w)' /\ CallIsTrue(w)'
    BY DEF CallsKnown
  <2>1. CallWaits(w) /\ CallIsCovered(w) /\ CallIsTrue(w)
    BY <1>1 DEF CallsKnown
  <2>2. CASE wakes[w].stage \in {"ready", "waiting"} /\ wakes[w].b = b
    BY <1>2, <2>2, NoCall
  <2>3. CASE ~ (wakes[w].stage \in {"ready", "waiting"} /\ wakes[w].b = b)
    <3>1. wakes'[w] = wakes[w]
      BY <1>2, <2>3
    <3>2. wakes[w].stage = "waiting" =>
            Inflight(wakes[w].b)' /\ covers'[wakes[w].b].listed = covers[wakes[w].b].listed
      <4>1. PICK c : c = wakes[w].b /\ wakes'[w].b = c
        BY <3>1
      <4> QED
        BY <1>2, <1>4, <2>1, <2>3, <4>1 DEF Inflight, CallWaits, CallIsCovered
    <3> QED
      BY <2>1, <3>1, <3>2, CallKept
  <2> QED
    BY <2>2, <2>3
<1>8. RunnerTypes'
  <2>1. \A c \in Backends : last'[c].known => last'[c] =
          [known |-> last'[c].known, ok |-> last'[c].ok, age |-> last'[c].age,
           covers |-> last'[c].covers]
    <3> SUFFICES ASSUME NEW c \in Backends, last'[c].known
                 PROVE  last'[c] = [known |-> last'[c].known, ok |-> last'[c].ok,
                                    age |-> last'[c].age, covers |-> last'[c].covers]
      OBVIOUS
    <3>1. CASE c = b
      <4>1. last'[c] = NoRun
        BY <1>1, <1>2, <3>1 DEF RunnerTypes
      <4> QED
        BY <4>1 DEF NoRun
    <3>2. CASE c # b
      BY <1>1, <1>2, <3>2 DEF RunnerTypes
    <3> QED
      BY <3>1, <3>2
  <2>2. last' = [c \in Backends |-> last'[c]] /\ wakes' = [w \in Wakes |-> wakes'[w]]
    BY <1>1, <1>2 DEF RunnerTypes
  <2> QED
    BY <1>1, <1>2, <2>1, <2>2 DEF RunnerTypes
<1> QED
  BY <1>3, <1>5, <1>6, <1>7, <1>8 DEF RunnerInv

\* What the begin of a run changes.
LEMMA RunBegins ==
  ASSUME RunnerInv, NEW b \in Backends, ~ Inflight(b), Run(b),
         Recorded \subseteq Recorded', published \subseteq published'
  PROVE  /\ FoundOnlyToRecord'
         /\ \A c \in Backends : RunCovers(c)'
         /\ covers' \in [Backends -> [listed : SUBSET FeedEvents, drained : SUBSET Nat]]
         /\ errors' \in [Backends -> BOOLEAN]
         /\ covers'[b].listed = feed
         /\ Inflight(b)'
         /\ \A c \in Backends \ {b} : pc'[c] = pc[c] /\ covers'[c] = covers[c]
<1>1. TypeOK /\ RunnerTypes
  BY DEF RunnerInv, CountInv, Inv
<1>2. RunStep(b) /\ Next /\ Fetch(b)
  BY RunIsFetch DEF RunStep
<1>3. FoundOnlyToRecord'
  BY <1>1, <1>2, FoundStep DEF RunnerInv
<1>4. /\ RunCovers(b)'
      /\ covers' = [covers EXCEPT ![b] = [listed |-> feed, drained |-> {}]]
      /\ covers'[b].listed = feed
      /\ errors' \in [Backends -> BOOLEAN]
      /\ \A c \in Backends \ {b} : errors'[c] = errors[c]
  BY <1>1, CoversBegin
<1>5. \A c \in Backends \ {b} :
        pc'[c] = pc[c] /\ found'[c] = found[c] /\ rows'[c] = rows[c] /\ covers'[c] = covers[c]
  BY <1>1, <1>2, <1>4, OthersRun DEF RunnerTypes
<1>6. \A c \in Backends \ {b} : RunCovers(c)'
  BY <1>4, <1>5, CoversKept DEF RunnerInv, Inflight
<1>7. covers' \in [Backends -> [listed : SUBSET FeedEvents, drained : SUBSET Nat]]
  BY <1>1, <1>4 DEF RunnerTypes, TypeOK
<1>8. Inflight(b)'
  BY <1>1, <1>2 DEF Fetch, FetchWith, Inflight, TypeOK
<1> QED
  BY <1>3, <1>4, <1>5, <1>6, <1>7, <1>8

\* The calls that a run which begins does not concern.
LEMMA CallKeptByRun ==
  ASSUME RunnerInv, NEW b \in Backends, ~ Inflight(b), Run(b),
         feed \subseteq feed', Recorded \subseteq Recorded', published \subseteq published',
         NEW w \in Wakes, wakes'[w] = wakes[w]
  PROVE  CallWaits(w)' /\ CallIsCovered(w)' /\ CallIsTrue(w)'
<1>1. CallWaits(w) /\ CallIsCovered(w) /\ CallIsTrue(w)
  BY DEF RunnerInv, CallsKnown
<1>2. \A c \in Backends \ {b} : pc'[c] = pc[c] /\ covers'[c] = covers[c]
  BY RunBegins
<1>3. wakes[w].stage = "waiting" =>
        Inflight(wakes[w].b)' /\ covers'[wakes[w].b].listed = covers[wakes[w].b].listed
  <2>1. PICK c : c = wakes[w].b /\ wakes'[w].b = c
    OBVIOUS
  <2> QED
    BY <1>1, <1>2, <2>1 DEF Inflight, CallWaits, CallIsCovered
<1> QED
  BY <1>1, <1>3, CallKept

\* The calls that a step without effect on the runs does not concern.
LEMMA CallKeptQuietly ==
  ASSUME RunnerInv, UNCHANGED <<pc, covers>>,
         feed \subseteq feed', Recorded \subseteq Recorded', published \subseteq published',
         NEW w \in Wakes, wakes'[w] = wakes[w]
  PROVE  CallWaits(w)' /\ CallIsCovered(w)' /\ CallIsTrue(w)'
<1>1. CallWaits(w) /\ CallIsCovered(w) /\ CallIsTrue(w)
  BY DEF RunnerInv, CallsKnown
<1>2. wakes[w].stage = "waiting" =>
        Inflight(wakes[w].b)' /\ covers'[wakes[w].b].listed = covers[wakes[w].b].listed
  <2>1. PICK c : c = wakes[w].b /\ wakes'[w].b = c
    OBVIOUS
  <2> QED
    BY <1>1, <2>1 DEF Inflight, CallWaits, CallIsCovered
<1> QED
  BY <1>1, <1>2, CallKept

LEMMA RunnerTimerRun ==
  ASSUME RunnerInv, CountInv', NEW b \in Backends, TimerRun(b),
         feed \subseteq feed', Recorded \subseteq Recorded', published \subseteq published'
  PROVE  RunnerInv'
<1>1. TypeOK /\ RunnerTypes /\ LastIsTrue /\ UNCHANGED <<last, wakes>>
  BY DEF RunnerInv, CountInv, Inv, TimerRun
<1>2. LastIsTrue'
  BY <1>1, LastKept DEF LastIsTrue
<1>3. CASE Inflight(b)
  <2>1. UNCHANGED <<vars, errors, covers>>
    BY <1>3 DEF TimerRun
  <2>2. CallsKnown'
    BY <1>1, <2>1, CallKeptQuietly DEF CallsKnown, vars
  <2>3. \A c \in Backends : RunCovers(c)'
    BY <2>1 DEF RunnerInv, RunCovers, Inflight, Recorded, vars
  <2> QED
    BY <1>1, <1>2, <2>1, <2>2, <2>3 DEF RunnerInv, FoundOnlyToRecord, RunnerTypes, vars
<1>4. CASE ~ Inflight(b)
  <2>1. Run(b)
    BY <1>4 DEF TimerRun
  <2>2. CallsKnown'
    BY <1>1, <1>4, <2>1, CallKeptByRun DEF CallsKnown
  <2>3. /\ FoundOnlyToRecord'
        /\ \A c \in Backends : RunCovers(c)'
        /\ covers' \in [Backends -> [listed : SUBSET FeedEvents, drained : SUBSET Nat]]
        /\ errors' \in [Backends -> BOOLEAN]
    BY <1>4, <2>1, RunBegins
  <2>4. RunnerTypes'
    BY <1>1, <2>3 DEF RunnerTypes
  <2> QED
    BY <1>2, <2>2, <2>3, <2>4 DEF RunnerInv
<1> QED
  BY <1>3, <1>4

\* A step that changes neither the runs nor what is known of them, only the calls.
LEMMA RunnerQuiet ==
  ASSUME RunnerInv, CountInv', UNCHANGED <<vars, errors, covers, last>>,
         wakes' = [w \in Wakes |-> wakes'[w]], CallsKnown'
  PROVE  RunnerInv'
<1>1. \A c \in Backends : RunCovers(c)'
  BY DEF RunnerInv, RunCovers, Inflight, Recorded, vars
<1>2. LastIsTrue'
  BY DEF RunnerInv, LastIsTrue, Succeeded, Kept, Recorded, vars
<1> QED
  BY <1>1, <1>2 DEF RunnerInv, FoundOnlyToRecord, RunnerTypes, vars

\* The call w becomes c; the others stay.
LEMMA OneCallChanges ==
  ASSUME RunnerInv, UNCHANGED <<vars, covers>>,
         NEW w \in Wakes, NEW c, wakes' = [wakes EXCEPT ![w] = c],
         CallWaits(w)' /\ CallIsCovered(w)' /\ CallIsTrue(w)'
  PROVE  wakes' = [v \in Wakes |-> wakes'[v]] /\ CallsKnown'
<1>1. wakes' = [v \in Wakes |-> wakes'[v]] /\ \A v \in Wakes \ {w} : wakes'[v] = wakes[v]
  BY DEF RunnerInv, RunnerTypes
<1>2. /\ feed \subseteq feed' /\ Recorded \subseteq Recorded' /\ published \subseteq published'
      /\ UNCHANGED <<pc, covers>>
  BY DEF vars, Recorded
<1>3. \A v \in Wakes \ {w} : CallWaits(v)' /\ CallIsCovered(v)' /\ CallIsTrue(v)'
  BY <1>1, <1>2, CallKeptQuietly
<1> QED
  BY <1>1, <1>3 DEF CallsKnown

LEMMA RunnerTick ==
  ASSUME RunnerInv, CountInv', Tick
  PROVE  RunnerInv'
<1>1. /\ RunnerTypes /\ LastIsTrue
      /\ UNCHANGED <<vars, errors, covers, wakes>>
      /\ last' = [b \in Backends |->
                    IF last[b].known /\ last[b].age < Recent
                      THEN [last[b] EXCEPT !.age = @ + 1] ELSE last[b]]
  BY DEF RunnerInv, Tick
<1>2. ASSUME NEW b \in Backends
      PROVE  \/ last'[b] = last[b]
             \/ /\ last[b].known
                /\ \E n : last'[b] = [known |-> last[b].known, ok |-> last[b].ok, age |-> n,
                                      covers |-> last[b].covers]
  <2>1. CASE last[b].known /\ last[b].age < Recent
    <3>1. PICK n : n = last[b].age + 1
      OBVIOUS
    <3>2. last'[b] = [last[b] EXCEPT !.age = @ + 1]
      BY <1>1, <2>1
    <3>3. PICK r : /\ r = last[b]
                   /\ r = [known |-> r.known, ok |-> r.ok, age |-> r.age, covers |-> r.covers]
      BY <1>1, <2>1 DEF RunnerTypes
    <3>4. [r EXCEPT !.age = n] = [known |-> r.known, ok |-> r.ok, age |-> n, covers |-> r.covers]
      BY <3>3
    <3>5. last'[b] = [r EXCEPT !.age = n]
      BY <3>1, <3>2, <3>3
    <3> QED
      BY <2>1, <3>3, <3>4, <3>5
  <2>2. CASE ~ (last[b].known /\ last[b].age < Recent)
    BY <1>1, <2>2
  <2> QED
    BY <2>1, <2>2
<1>3. ASSUME NEW b \in Backends
      PROVE  (Succeeded(last[b]) => Kept(last[b].covers))'
  <2>1. CASE last'[b] = last[b]
    BY <1>1, <2>1, LastKept DEF vars, Recorded
  <2>2. CASE last'[b] # last[b]
    <3>1. PICK n, r : /\ r = last[b]
                      /\ last'[b] = [known |-> r.known, ok |-> r.ok, age |-> n, covers |-> r.covers]
      BY <1>2, <2>2
    <3>2. last'[b].known = r.known /\ last'[b].ok = r.ok /\ last'[b].covers = r.covers
      BY <3>1
    <3>3. UNCHANGED <<recorded, published>>
      BY <1>1 DEF vars
    <3> QED
      BY <1>1, <3>1, <3>2, <3>3 DEF LastIsTrue, Succeeded, Kept, Recorded
  <2> QED
    BY <2>1, <2>2
<1>4. ASSUME NEW b \in Backends, last'[b].known
      PROVE  last'[b] = [known |-> last'[b].known, ok |-> last'[b].ok, age |-> last'[b].age,
                         covers |-> last'[b].covers]
  <2>1. CASE last'[b] = last[b]
    BY <1>1, <1>4, <2>1 DEF RunnerTypes
  <2>2. CASE last'[b] # last[b]
    <3>1. PICK n, r : last'[b] = [known |-> r.known, ok |-> r.ok, age |-> n, covers |-> r.covers]
      BY <1>2, <2>2
    <3> QED
      BY <3>1
  <2> QED
    BY <2>1, <2>2
<1>5. last' = [b \in Backends |-> last'[b]]
  BY <1>1
<1>6. RunnerTypes'
  BY <1>1, <1>4, <1>5 DEF RunnerTypes
<1>7. CallsKnown'
  BY <1>1, CallKeptQuietly DEF CallsKnown, vars, Recorded
<1>8. \A c \in Backends : RunCovers(c)'
  BY <1>1 DEF RunnerInv, RunCovers, Inflight, Recorded, vars
<1> QED
  BY <1>1, <1>3, <1>6, <1>7, <1>8 DEF RunnerInv, LastIsTrue, FoundOnlyToRecord, vars

LEMMA RunnerCallOver ==
  ASSUME RunnerInv, CountInv', NEW w \in Wakes, WakeTimesOut(w) \/ WakeOver(w)
  PROVE  RunnerInv'
<1>1. wakes' = [wakes EXCEPT ![w] = NoWake] /\ UNCHANGED <<vars, errors, covers, last>>
  BY DEF WakeTimesOut, WakeOver
<1>2. wakes'[w] = NoWake
  BY <1>1 DEF RunnerInv, RunnerTypes
<1>3. CallWaits(w)' /\ CallIsCovered(w)' /\ CallIsTrue(w)'
  BY <1>2, NoCall
<1> QED
  BY <1>1, <1>3, OneCallChanges, RunnerQuiet

LEMMA RunnerWakeArrives ==
  ASSUME RunnerInv, CountInv', NEW w \in Wakes, NEW b \in Backends, WakeArrives(w, b)
  PROVE  RunnerInv'
<1> DEFINE call == [stage |-> "ready", b |-> b, listed |-> feed]
<1>1. wakes' = [wakes EXCEPT ![w] = call] /\ UNCHANGED <<vars, errors, covers, last>>
  BY DEF WakeArrives
<1>2. wakes'[w] = call
  BY <1>1 DEF RunnerInv, RunnerTypes
<1>3. wakes'[w].stage = "ready" /\ wakes'[w].b = b /\ wakes'[w].listed = feed
  BY <1>2
<1>4. CallWaits(w)' /\ CallIsCovered(w)' /\ CallIsTrue(w)'
  BY <1>1, <1>3 DEF CallWaits, CallIsCovered, CallIsTrue, vars
<1> HIDE DEF call
<1>5. PICK c : wakes' = [wakes EXCEPT ![w] = c]
  BY <1>1
<1> QED
  BY <1>1, <1>4, <1>5, OneCallChanges, RunnerQuiet

LEMMA RunnerWake ==
  ASSUME RunnerInv, CountInv', NEW w \in Wakes, Wake(w),
         feed \subseteq feed', Recorded \subseteq Recorded', published \subseteq published'
  PROVE  RunnerInv'
<1>1. RunnerTypes /\ LastIsTrue /\ wakes[w].stage = "ready" /\ UNCHANGED <<due, last>>
  BY DEF RunnerInv, Wake
<1>2. PICK b \in Backends, l \in SUBSET feed : b = wakes[w].b /\ l = wakes[w].listed
  BY <1>1 DEF RunnerInv, CallsKnown, CallWaits
<1> DEFINE waiting == [stage |-> "waiting", b |-> b, listed |-> l, joined |-> Inflight(b)]
<1>3. \/ /\ ~ Inflight(b) /\ Succeeded(last[b]) /\ last[b].age < Recent
         /\ wakes' = [wakes EXCEPT ![w] = Answered(w, b, FALSE, "recent", last[b])]
         /\ UNCHANGED <<vars, errors, covers>>
      \/ /\ Inflight(b)
         /\ wakes' = [wakes EXCEPT ![w] = waiting]
         /\ UNCHANGED <<vars, errors, covers>>
      \/ /\ ~ Inflight(b)
         /\ wakes' = [wakes EXCEPT ![w] = waiting]
         /\ Run(b)
  BY <1>2 DEF Wake
<1>4. CASE /\ Succeeded(last[b])
           /\ wakes' = [wakes EXCEPT ![w] = Answered(w, b, FALSE, "recent", last[b])]
           /\ UNCHANGED <<vars, errors, covers>>
  <2>1. PICK c : /\ wakes' = [wakes EXCEPT ![w] = c]
                 /\ c = [stage |-> "answered", b |-> b, listed |-> wakes[w].listed,
                         reason |-> "recent", ran |-> FALSE, ok |-> last[b].ok,
                         of |-> last[b].covers]
    BY <1>4 DEF Answered
  <2>2. wakes'[w] = c
    BY <1>1, <2>1 DEF RunnerTypes
  <2>3. /\ wakes'[w].stage = "answered" /\ ~ wakes'[w].ran
        /\ wakes'[w].of = last[b].covers
    BY <2>1, <2>2
  <2>4. Kept(last[b].covers)
    BY <1>1, <1>4 DEF LastIsTrue
  <2>5. CallWaits(w)' /\ CallIsCovered(w)' /\ CallIsTrue(w)'
    BY <1>4, <2>3, <2>4 DEF CallWaits, CallIsCovered, CallIsTrue, Kept, Recorded, vars
  <2> QED
    BY <1>1, <1>4, <2>1, <2>5, OneCallChanges, RunnerQuiet
<1>5. ASSUME wakes' = [wakes EXCEPT ![w] = waiting]
      PROVE  /\ wakes'[w].stage = "waiting" /\ wakes'[w].b = b /\ wakes'[w].listed = l
             /\ wakes'[w].joined = Inflight(b) /\ wakes'[w].joined \in BOOLEAN
  <2>1. wakes'[w] = waiting
    BY <1>1, <1>5 DEF RunnerTypes
  <2> QED
    BY <2>1 DEF Inflight
<1>6. CASE /\ Inflight(b)
           /\ wakes' = [wakes EXCEPT ![w] = waiting]
           /\ UNCHANGED <<vars, errors, covers>>
  <2>1. PICK c : wakes' = [wakes EXCEPT ![w] = c]
    BY <1>6
  <2>2. CallWaits(w)' /\ CallIsCovered(w)' /\ CallIsTrue(w)'
    BY <1>5, <1>6 DEF CallWaits, CallIsCovered, CallIsTrue, Inflight, vars
  <2> QED
    BY <1>1, <1>6, <2>1, <2>2, OneCallChanges, RunnerQuiet
<1>7. CASE /\ ~ Inflight(b)
           /\ wakes' = [wakes EXCEPT ![w] = waiting]
           /\ Run(b)
  <2>1. /\ FoundOnlyToRecord'
        /\ \A c \in Backends : RunCovers(c)'
        /\ covers' \in [Backends -> [listed : SUBSET FeedEvents, drained : SUBSET Nat]]
        /\ errors' \in [Backends -> BOOLEAN]
        /\ covers'[b].listed = feed
        /\ Inflight(b)'
    BY <1>7, RunBegins
  <2>2. CallWaits(w)' /\ CallIsCovered(w)' /\ CallIsTrue(w)'
    BY <1>5, <1>7, <2>1 DEF CallWaits, CallIsCovered, CallIsTrue, Inflight
  <2>3. wakes' = [v \in Wakes |-> wakes'[v]] /\ \A v \in Wakes \ {w} : wakes'[v] = wakes[v]
    BY <1>1, <1>7 DEF RunnerTypes
  <2>4. \A v \in Wakes \ {w} : CallWaits(v)' /\ CallIsCovered(v)' /\ CallIsTrue(v)'
    BY <1>7, <2>3, CallKeptByRun
  <2>5. CallsKnown'
    BY <2>2, <2>4 DEF CallsKnown
  <2>6. LastIsTrue'
    BY <1>1, LastKept DEF LastIsTrue
  <2>7. RunnerTypes'
    BY <1>1, <2>1, <2>3 DEF RunnerTypes
  <2> QED
    BY <2>1, <2>5, <2>6, <2>7 DEF RunnerInv
<1> QED
  BY <1>3, <1>4, <1>6, <1>7

LEMMA RunnerOutside ==
  ASSUME RunnerInv, CountInv', Outside \/ UNCHANGED <<vars, runnerVars>>,
         feed \subseteq feed', Recorded \subseteq Recorded', published \subseteq published'
  PROVE  RunnerInv'
<1>1. UNCHANGED <<pc, found, rows, errors, covers, last, wakes>>
  BY DEF Outside, EventAppears, AdminPublish, runnerVars, vars
<1>2. CallsKnown'
  BY <1>1, CallKeptQuietly DEF CallsKnown
<1>3. \A c \in Backends : RunCovers(c)'
  BY <1>1, CoversKept DEF RunnerInv, Inflight
<1>4. LastIsTrue'
  BY <1>1, LastKept DEF RunnerInv, LastIsTrue
<1> QED
  BY <1>1, <1>2, <1>3, <1>4 DEF RunnerInv, FoundOnlyToRecord, RunnerTypes

LEMMA RunnerStep == RunnerInv /\ [RunnerNext]_<<vars, runnerVars>> => RunnerInv'
<1> SUFFICES ASSUME RunnerInv, [RunnerNext]_<<vars, runnerVars>>
             PROVE  RunnerInv'
  OBVIOUS
<1>1. CountInv'
  BY CountRunnerStep DEF RunnerInv
<1>2. feed \subseteq feed' /\ Recorded \subseteq Recorded' /\ published \subseteq published'
  BY OnlyGrows DEF RunnerInv
<1>3. ASSUME NEW b \in Backends, Works(b) \/ Throws(b) \/ Restart(b) \/ TimerRun(b)
      PROVE  RunnerInv'
  BY <1>1, <1>2, <1>3, RunnerWorks, RunnerThrows, RunnerRestart, RunnerTimerRun
<1>4. ASSUME NEW w \in Wakes, Wake(w) \/ WakeTimesOut(w) \/ WakeOver(w)
      PROVE  RunnerInv'
  BY <1>1, <1>2, <1>4, RunnerWake, RunnerCallOver
<1>5. ASSUME NEW w \in Wakes, NEW b \in Backends, WakeArrives(w, b)
      PROVE  RunnerInv'
  BY <1>1, <1>5, RunnerWakeArrives
<1> QED
  BY <1>1, <1>2, <1>3, <1>4, <1>5, RunnerOutside, RunnerTick DEF RunnerNext

LEMMA RunnerStart == RunnerInit => RunnerInv
<1> SUFFICES ASSUME RunnerInit
             PROVE  RunnerInv
  OBVIOUS
<1>1. CountInv
  BY CountInit DEF RunnerInit
<1>2. /\ pc = [b \in Backends |-> "idle"] /\ found = [b \in Backends |-> {}]
      /\ errors = [b \in Backends |-> FALSE]
      /\ covers = [b \in Backends |-> Nothing]
      /\ last = [b \in Backends |-> NoRun]
      /\ wakes = [w \in Wakes |-> NoWake]
  BY DEF RunnerInit, Init
<1>3. /\ Nothing \in [listed : SUBSET FeedEvents, drained : SUBSET Nat]
      /\ ~ NoRun.known /\ NoWake.stage = "none"
  BY DEF Nothing, NoRun, NoWake
<1>4. RunnerTypes
  BY <1>2, <1>3 DEF RunnerTypes
<1>5. FoundOnlyToRecord /\ \A b \in Backends : RunCovers(b)
  BY <1>2 DEF FoundOnlyToRecord, RunCovers, Inflight
<1>6. LastIsTrue
  BY <1>2, <1>3 DEF LastIsTrue, Succeeded
<1>7. CallsKnown
  BY <1>2, <1>3 DEF CallsKnown, CallWaits, CallIsCovered, CallIsTrue
<1> QED
  BY <1>1, <1>4, <1>5, <1>6, <1>7 DEF RunnerInv

(***************************************************************************)
(* A wake-up call that is told "ok", or that nothing needs to be done, is  *)
(* told the truth, for any number of backends, calls and failures: what    *)
(* the run it speaks of answers for is recorded and published, and a run   *)
(* it is told of as its own began after the call.                          *)
(***************************************************************************)
THEOREM WakeUpsAreAnsweredTruly == RunnerSpec => []WakeAnswerIsTrue
<1>1. RunnerInv => WakeAnswerIsTrue
  BY DEF RunnerInv, CallsKnown, CallIsTrue, Kept, WakeAnswerIsTrue
<1> QED
  BY <1>1, RunnerStart, RunnerStep, PTL DEF RunnerSpec

(***************************************************************************)
(* Under the runner too, with its restarts of idle processes, a marked row *)
(* is in the topic, an event is recorded once and goes out a bounded       *)
(* number of times.                                                        *)
(***************************************************************************)
THEOREM RunnerKeepsTheOutbox ==
  RunnerSpec => [](MarkedIsInTopic /\ RecordedOnce /\ DuplicatesBounded)
<1>1. RunnerInv => MarkedIsInTopic /\ RecordedOnce /\ DuplicatesBounded
  BY CountBounds DEF RunnerInv, CountInv, Inv
<1> QED
  BY <1>1, RunnerStart, RunnerStep, PTL DEF RunnerSpec

(***************************************************************************)
(* And a single backend drains the outbox oldest first.                    *)
(***************************************************************************)
THEOREM RunnerDrainsInOrder ==
  ASSUME NEW b, Backends = {b}
  PROVE  RunnerSpec => []DrainedInOrder
<1> DEFINE I == RunnerInv /\ OrderInv
<1>1. RunnerInit => I
  BY RunnerStart, TypeInit DEF RunnerInit, Init, OrderInv, DrainedInOrder, HeldWithoutGap
<1>2. I /\ [RunnerNext]_<<vars, runnerVars>> => I'
  <2> SUFFICES ASSUME I, [RunnerNext]_<<vars, runnerVars>>
               PROVE  I'
    OBVIOUS
  <2>1. CASE [Next]_vars
    BY <2>1, RunnerStep, OrderNext
  <2>2. CASE IdleRestart
    <3>1. TypeOK'
      BY RunnerStep DEF RunnerInv, CountInv, Inv
    <3> QED
      BY <2>2, <3>1, RunnerStep DEF IdleRestart, OrderInv, DrainedInOrder, HeldWithoutGap
  <2> QED
    BY <2>1, <2>2, RunnerStepCases DEF RunnerInv
<1>3. I => DrainedInOrder
  BY DEF OrderInv
<1> HIDE DEF I
<1> QED
  BY <1>1, <1>2, <1>3, PTL DEF RunnerSpec
=============================================================================
