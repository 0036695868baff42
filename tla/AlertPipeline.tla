---------------------------- MODULE AlertPipeline ----------------------------
(***************************************************************************)
(* The whole alert pipeline: the backends' ingestion (IngestOutbox) and    *)
(* the notification service's consumer (AlertConsumer) joined at the topic *)
(* disaster-events, the only thing they share besides the users' tables.   *)
(* A step of the pipeline is a step of one of the two.                     *)
(***************************************************************************)
EXTENDS AlertConsumer

CONSTANTS Backends, NasaEvents, UsgsEvents, ManualEvents,
          InsertChunk, OutboxBatch, PublishChunk,
          MaxRunFaults      \* bound on failures of the ingestion

VARIABLES feed, recorded, published, runPc, found, rows, runFaults

runVars == <<feed, recorded, published, runPc, found, rows, runFaults>>
consumerVars == <<dbVars, notifications, groupVars, position, pc, built, faults>>
pipelineVars == <<runVars, topic, now, consumerVars>>

FeedEvents == NasaEvents \cup UsgsEvents

ASSUME SourcesAssumption ==
  Events = FeedEvents \cup ManualEvents /\ IsFiniteSet(FeedEvents)

Outbox == INSTANCE IngestOutbox
            WITH pc <- runPc, faults <- runFaults, MaxFaults <- MaxRunFaults

PipelineInit == Init /\ Outbox!Init

\* A feed lists an event, and an admin publishes one, after it happened.
Happened(e) == EventOf[e].at < now

Ingestion ==
  /\ \/ \E e \in FeedEvents : Happened(e) /\ Outbox!EventAppears(e)
     \/ \E b \in Backends : Outbox!RunStep(b) \/ Outbox!Interrupted(b)
     \/ \E e \in ManualEvents : Happened(e) /\ Outbox!AdminPublish(e)
  /\ UNCHANGED <<now, consumerVars>>

Delivery ==
  /\ \/ Tick
     \/ Account
     \/ \E c \in Consumers : Consume(c)
  /\ UNCHANGED runVars

PipelineNext == Ingestion \/ Delivery

PipelineSpec == PipelineInit /\ [][PipelineNext]_pipelineVars

(***************************************************************************)
(* The fairness of the two parts: some backend and some consumer keep      *)
(* running.                                                                *)
(***************************************************************************)
PipelineFairness ==
  /\ WF_pipelineVars(\E b \in Backends : Outbox!RunStep(b) /\ UNCHANGED <<now, consumerVars>>)
  /\ WF_pipelineVars(\E c \in Consumers : owner = Nobody /\ Assign(c) /\ UNCHANGED runVars)
  /\ \A c \in Consumers :
       /\ WF_pipelineVars(Handle(c) /\ UNCHANGED runVars)
       /\ WF_pipelineVars(Commit(c) /\ UNCHANGED runVars)

FairPipelineSpec == PipelineSpec /\ PipelineFairness

-----------------------------------------------------------------------------
\* How many notifications of an event an account has.
TimesTold(u, e) == Cardinality({n \in notifications : n.userId = u /\ n.eventId = e})

Service ==
  INSTANCE AlertService
    WITH open <- users,
         known <- Range(recorded) \cup (Range(topic) \cap ManualEvents),
         alerts <- [a \in Users \X Events |-> TimesTold(a[1], a[2])]

(***************************************************************************)
(* The pipeline is an alert service: nobody is told of an event the        *)
(* service has not recorded (or an admin not published), a closed account  *)
(* is told nothing more, and an account that was told of an event is not   *)
(* told again, in spite of every retry and redelivery on the way.          *)
(***************************************************************************)
ImplementsAlertService == Service!Spec

(***************************************************************************)
(* Every event a feed lists is eventually handled by the consumer, through *)
(* failed fetches, failed sends, crashes and rebalances on the way.        *)
(***************************************************************************)
ListedIsHandled ==
  \A e \in FeedEvents :
    e \in feed ~> \E k \in 1 .. committed : topic[k] = e
=============================================================================
