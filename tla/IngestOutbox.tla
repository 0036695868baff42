---------------------------- MODULE IngestOutbox ----------------------------
(***************************************************************************)
(* The ingestion job and its transactional outbox                          *)
(* (backend/src/jobs/ingest.js): every backend process fetches the NASA    *)
(* and USGS feeds, records the events it has not seen in the table         *)
(* IngestedEvent, publishes the unpublished rows to Kafka in chunks and    *)
(* marks a chunk published after its send succeeded.                       *)
(*                                                                         *)
(* Several backends run at once during a deploy; one process runs one      *)
(* ingestion at a time (createIngestRunner), so a backend is one thread.   *)
(* A row's index in recorded is its id, and the order of firstSeenAt.      *)
(*                                                                         *)
(* Left out: the GDACS rating of new events and what the rows contain      *)
(* besides the event id; an event stays in its feed once it is there (EONET *)
(* lists 30 days, USGS one).                                               *)
(***************************************************************************)
EXTENDS Integers, Sequences, FiniteSets, Functions

CONSTANTS Backends,
          NasaEvents,     \* events of the EONET feed
          UsgsEvents,     \* events of the USGS feed
          ManualEvents,   \* events an admin publishes by hand
          InsertChunk,    \* INSERT_CHUNK
          OutboxBatch,    \* OUTBOX_BATCH
          PublishChunk,   \* PUBLISH_CHUNK
          MaxFaults       \* bound: crashes, failed fetches and failed sends

FeedEvents == NasaEvents \cup UsgsEvents
AllEvents == FeedEvents \cup ManualEvents

ASSUME BackendsAssumption == IsFiniteSet(Backends)
ASSUME EventsAssumption ==
  /\ IsFiniteSet(FeedEvents)
  /\ NasaEvents \cap UsgsEvents = {}
  /\ FeedEvents \cap ManualEvents = {}
ASSUME ChunkAssumption ==
  /\ InsertChunk \in Nat \ {0}
  /\ OutboxBatch \in Nat \ {0}
  /\ PublishChunk \in Nat \ {0}
ASSUME FaultsAssumption == MaxFaults \in Nat

VARIABLES
  feed,        \* events the two feeds currently list
  recorded,    \* the rows of IngestedEvent, oldest first
  published,   \* ids of the rows with publishedAt set
  topic,       \* the messages of the topic disaster-events, in log order
  pc,          \* where each backend's run is
  found,       \* events a run has fetched and not inserted yet
  rows,        \* ids a run has read from the outbox and not marked yet
  faults       \* crashes, failed fetches and failed sends so far

vars == <<feed, recorded, published, topic, pc, found, rows, faults>>

Recorded == Range(recorded)
Ids == 1 .. Len(recorded)

\* The k smallest ids of S (ORDER BY firstSeenAt, id LIMIT k).
Oldest(S, k) == {n \in S : Cardinality({m \in S : m < n}) < k}

\* Every order in which a set can be written down.
Orderings(S) == Bijection(1 .. Cardinality(S), S)

Fault == faults < MaxFaults /\ faults' = faults + 1

-----------------------------------------------------------------------------
Init ==
  /\ feed = {}
  /\ recorded = <<>>
  /\ published = {}
  /\ topic = <<>>
  /\ pc = [b \in Backends |-> "idle"]
  /\ found = [b \in Backends |-> {}]
  /\ rows = [b \in Backends |-> {}]
  /\ faults = 0

\* NASA or USGS list a new event.
EventAppears(e) ==
  /\ e \in FeedEvents \ feed
  /\ feed' = feed \cup {e}
  /\ UNCHANGED <<recorded, published, topic, pc, found, rows, faults>>

(***************************************************************************)
(* A run starts: both feeds are read.  A source that fails contributes     *)
(* nothing and does not stop the run.  EONET events already recorded are   *)
(* skipped here, USGS events only by the insert.  The outbox phase follows *)
(* even when nothing was found.                                            *)
(***************************************************************************)
NewIn(failed) ==
  {e \in feed : \/ e \in NasaEvents /\ "nasa" \notin failed /\ e \notin Recorded
                \/ e \in UsgsEvents /\ "usgs" \notin failed}

\* A bug to look for: the outbox is only drained when something was found.
FetchWithEarlyReturn(b, failed) ==
  /\ pc[b] = "idle"
  /\ found' = [found EXCEPT ![b] = NewIn(failed)]
  /\ pc' = [pc EXCEPT ![b] = IF NewIn(failed) = {} THEN "idle" ELSE "record"]
  /\ UNCHANGED <<feed, recorded, published, topic, rows>>

FetchWith(b, failed) ==
  /\ pc[b] = "idle"
  /\ found' = [found EXCEPT ![b] = NewIn(failed)]
  /\ pc' = [pc EXCEPT ![b] = IF NewIn(failed) = {} THEN "query" ELSE "record"]
  /\ UNCHANGED <<feed, recorded, published, topic, rows>>

Fetch(b) ==
  \/ FetchWith(b, {}) /\ UNCHANGED faults
  \/ \E failed \in {{"nasa"}, {"usgs"}, {"nasa", "usgs"}} :
       FetchWith(b, failed) /\ Fault

(***************************************************************************)
(* One INSERT ... ON CONFLICT DO NOTHING of the next chunk.                *)
(***************************************************************************)
\* A bug to look for: without the unique constraint, two backends that found
\* the same event both insert it.
RecordTwice(b) ==
  /\ pc[b] = "record"
  /\ \E chunk \in SUBSET found[b] :
       /\ chunk # {}
       /\ \/ Cardinality(chunk) = InsertChunk
          \/ chunk = found[b] /\ Cardinality(chunk) < InsertChunk
       /\ \E new \in Orderings(chunk) : recorded' = recorded \o new
       /\ found' = [found EXCEPT ![b] = @ \ chunk]
       /\ pc' = [pc EXCEPT ![b] = IF found[b] = chunk THEN "query" ELSE "record"]
  /\ UNCHANGED <<feed, published, topic, rows, faults>>

Record(b) ==
  /\ pc[b] = "record"
  /\ \E chunk \in SUBSET found[b] :
       /\ \/ Cardinality(chunk) = InsertChunk
          \/ chunk = found[b] /\ Cardinality(chunk) < InsertChunk
       /\ \E new \in Orderings(chunk \ Recorded) : recorded' = recorded \o new
       /\ found' = [found EXCEPT ![b] = @ \ chunk]
       /\ pc' = [pc EXCEPT ![b] = IF found[b] = chunk THEN "query" ELSE "record"]
  /\ UNCHANGED <<feed, published, topic, rows, faults>>

-----------------------------------------------------------------------------
(***************************************************************************)
(* publishOutbox                                                           *)
(***************************************************************************)
\* A bug to look for: the query without publishedAt IS NULL.
PendingAll == Ids

Pending == Ids \ published

QueryOutbox(b) ==
  /\ pc[b] = "query"
  /\ rows' = [rows EXCEPT ![b] = Oldest(Pending, OutboxBatch)]
  /\ pc' = [pc EXCEPT ![b] = IF Pending = {} THEN "idle" ELSE "publish"]
  /\ UNCHANGED <<feed, recorded, published, topic, found, faults>>

Chunk(b) == Oldest(rows[b], PublishChunk)

\* Messages reach the log in any order: the topic may have several partitions.
Send(ids) ==
  \E order \in Orderings(ids) :
    topic' = topic \o [n \in 1 .. Cardinality(ids) |-> recorded[order[n]]]

Publish(b) ==
  /\ pc[b] = "publish"
  /\ Send(Chunk(b))
  /\ pc' = [pc EXCEPT ![b] = "mark"]
  /\ UNCHANGED <<feed, recorded, published, found, rows, faults>>

\* A bug to look for: after a failed send the run goes on with the next chunk.
PublishFailsContinue(b) ==
  /\ pc[b] = "publish"
  /\ Fault
  /\ \E delivered \in SUBSET Chunk(b) : Send(delivered)
  /\ rows' = [rows EXCEPT ![b] = @ \ Chunk(b)]
  /\ pc' = [pc EXCEPT ![b] = IF rows[b] = Chunk(b) THEN "idle" ELSE "publish"]
  /\ UNCHANGED <<feed, recorded, published, found>>

\* The send is rejected, or times out with part of the chunk already in the
\* log: the rows stay unpublished and the run ends.
PublishFails(b) ==
  /\ pc[b] = "publish"
  /\ Fault
  /\ \E delivered \in SUBSET Chunk(b) : Send(delivered)
  /\ rows' = [rows EXCEPT ![b] = {}]
  /\ pc' = [pc EXCEPT ![b] = "idle"]
  /\ UNCHANGED <<feed, recorded, published, found>>

\* A bug to look for: the whole batch is marked after its first chunk was sent.
MarkBatch(b) ==
  /\ pc[b] = "mark"
  /\ published' = published \cup rows[b]
  /\ rows' = [rows EXCEPT ![b] = {}]
  /\ pc' = [pc EXCEPT ![b] = "idle"]
  /\ UNCHANGED <<feed, recorded, topic, found, faults>>

Mark(b) ==
  /\ pc[b] = "mark"
  /\ published' = published \cup Chunk(b)
  /\ rows' = [rows EXCEPT ![b] = @ \ Chunk(b)]
  /\ pc' = [pc EXCEPT ![b] = IF rows[b] = Chunk(b) THEN "idle" ELSE "publish"]
  /\ UNCHANGED <<feed, recorded, topic, found, faults>>

-----------------------------------------------------------------------------
(***************************************************************************)
(* A run stops half-way: the process crashes or is put to sleep, or a      *)
(* database statement throws (the runner logs it, the next run starts      *)
(* afresh).  Nothing but the database and the log survives.                *)
(***************************************************************************)
Interrupted(b) ==
  /\ pc[b] # "idle"
  /\ Fault
  /\ pc' = [pc EXCEPT ![b] = "idle"]
  /\ found' = [found EXCEPT ![b] = {}]
  /\ rows' = [rows EXCEPT ![b] = {}]
  /\ UNCHANGED <<feed, recorded, published, topic>>

\* POST /events: an admin's event goes to the topic without the outbox (here
\* at most once per event, to bound the log).
AdminPublish(e) ==
  /\ e \in ManualEvents \ Range(topic)
  /\ topic' = topic \o <<e>>
  /\ UNCHANGED <<feed, recorded, published, pc, found, rows, faults>>

RunStep(b) ==
  \/ Fetch(b)
  \/ Record(b)
  \/ QueryOutbox(b)
  \/ Publish(b)
  \/ PublishFails(b)
  \/ Mark(b)

Next ==
  \/ \E e \in FeedEvents : EventAppears(e)
  \/ \E b \in Backends : RunStep(b) \/ Interrupted(b)
  \/ \E e \in ManualEvents : AdminPublish(e)

Spec == Init /\ [][Next]_vars

-----------------------------------------------------------------------------
(***************************************************************************)
(* Types, with what a run holds at each point of its program.              *)
(***************************************************************************)
TypeOK ==
  /\ feed \subseteq FeedEvents
  /\ recorded \in Seq(FeedEvents)
  /\ published \subseteq Ids
  /\ topic \in Seq(AllEvents)
  /\ pc \in [Backends -> {"idle", "record", "query", "publish", "mark"}]
  /\ found \in [Backends -> SUBSET FeedEvents]
  /\ rows \in [Backends -> SUBSET Ids]
  /\ faults \in 0 .. MaxFaults
  /\ \A b \in Backends : rows[b] # {} <=> pc[b] \in {"publish", "mark"}

(***************************************************************************)
(* No event is lost between the table and the topic: a row marked          *)
(* published is in the log, whatever crashed, failed or ran twice          *)
(* (ingest.js:7-11, 103-113).                                              *)
(***************************************************************************)
MarkedIsInTopic == \A n \in published : recorded[n] \in Range(topic)

(***************************************************************************)
(* An event is recorded once, although two backends can find it at the     *)
(* same time and only the insert decides (ingest.js:37-56, 121-126).       *)
(***************************************************************************)
RecordedOnce == IsInjective(recorded)

(***************************************************************************)
(* With a single backend the outbox is drained oldest first: a row is      *)
(* published only when every older row is (ingest.js:91-108).              *)
(***************************************************************************)
DrainedInOrder == \A n \in published : 1 .. n \subseteq published

(***************************************************************************)
(* Duplicates stay few: a row goes out at most once per backend and once   *)
(* more for every failure, however the runs overlap (ingest.js:9-11, 91).  *)
(***************************************************************************)
Sendings(e) == {k \in DOMAIN topic : topic[k] = e}

DuplicatesBounded ==
  \A e \in FeedEvents : Cardinality(Sendings(e)) <= Cardinality(Backends) + faults
=============================================================================
