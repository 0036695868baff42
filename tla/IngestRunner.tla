---------------------------- MODULE IngestRunner ----------------------------
(***************************************************************************)
(* Who starts an ingestion (backend/src/jobs/ingest.js createIngestRunner, *)
(* routes/internal.routes.js): the timer of each backend and the scheduled *)
(* wake-up call POST /internal/ingest share one runner, which joins a run  *)
(* under way and lets a wake-up pass when a run has just worked.           *)
(*                                                                         *)
(* The runs are those of IngestOutbox; a run is under way while its pc is  *)
(* not idle.  A tick of the clock is the interval of the timer.  Left out: *)
(* the secret and the rate limit of the endpoint.                          *)
(***************************************************************************)
EXTENDS IngestOutbox

CONSTANTS Wakes,     \* wake-up calls
          Recent     \* WAKE_MIN_INTERVAL_MS, in ticks

ASSUME RecentAssumption == Recent \in Nat

VARIABLES
  due,       \* the timer of a backend has fired and its tick is not handled
  errors,    \* stats.errors of the run under way is not empty
  covers,    \* what the run under way answers for: the events listed when it
             \* began, and the rows it took from the outbox (history)
  last,      \* the last run of this process, as the runner keeps it
  wakes      \* the calls

runnerVars == <<due, errors, covers, last, wakes>>

NoRun == [known |-> FALSE]
NoWake == [stage |-> "none"]
Nothing == [listed |-> {}, drained |-> {}]

RunnerInit ==
  /\ Init
  /\ due = [b \in Backends |-> TRUE]       \* startIngestion ticks at once
  /\ errors = [b \in Backends |-> FALSE]
  /\ covers = [b \in Backends |-> Nothing]
  /\ last = [b \in Backends |-> NoRun]
  /\ wakes = [w \in Wakes |-> NoWake]

Inflight(b) == pc[b] # "idle"

\* A bug to look for: a run that ended counts, whatever part of it failed.
SucceededAnyhow(r) == r.known

Succeeded(r) == r.known /\ r.ok

-----------------------------------------------------------------------------
(***************************************************************************)
(* run                                                                     *)
(***************************************************************************)
Run(b) ==
  /\ \/ FetchWith(b, {}) /\ UNCHANGED faults /\ errors' = [errors EXCEPT ![b] = FALSE]
     \/ \E failed \in {{"nasa"}, {"usgs"}, {"nasa", "usgs"}} :
          FetchWith(b, failed) /\ Fault /\ errors' = [errors EXCEPT ![b] = TRUE]
  /\ covers' = [covers EXCEPT ![b] = [listed |-> feed, drained |-> {}]]

Answered(w, b, ran, reason, run) ==
  [stage |-> "answered", b |-> b, listed |-> wakes[w].listed,
   reason |-> reason, ran |-> ran, ok |-> run.ok, of |-> run.covers]

\* The run is over: it becomes the last one, and who waits for it is answered.
Ends(b, ok) ==
  LET run == [known |-> TRUE, ok |-> ok, age |-> 0, covers |-> covers[b]]
  IN  /\ last' = [last EXCEPT ![b] = run]
      /\ wakes' = [w \in Wakes |->
                     IF wakes[w].stage = "waiting" /\ wakes[w].b = b
                       THEN Answered(w, b, ~ wakes[w].joined,
                                     IF wakes[w].joined THEN "in-progress" ELSE "ran", run)
                       ELSE wakes[w]]

Works(b) ==
  /\ \/ Record(b) /\ UNCHANGED <<errors, covers>>
     \/ /\ QueryOutbox(b)
        /\ covers' = [covers EXCEPT ![b].drained = rows'[b]]
        /\ UNCHANGED errors
     \/ Publish(b) /\ UNCHANGED <<errors, covers>>
     \/ PublishFails(b) /\ errors' = [errors EXCEPT ![b] = TRUE] /\ UNCHANGED covers
     \/ Mark(b) /\ UNCHANGED <<errors, covers>>
  /\ IF pc'[b] = "idle" THEN Ends(b, ~ errors'[b]) ELSE UNCHANGED <<last, wakes>>
  /\ UNCHANGED due

\* A statement of the run throws; the runner logs it.
Throws(b) ==
  /\ Interrupted(b)
  /\ Ends(b, FALSE)
  /\ UNCHANGED <<due, errors, covers>>

\* The process is stopped, or put to sleep and woken: it begins with a run.
Restart(b) ==
  /\ \/ Interrupted(b)
     \/ pc[b] = "idle" /\ Fault /\ UNCHANGED <<feed, recorded, published, topic, pc, found, rows>>
  /\ due' = [due EXCEPT ![b] = TRUE]
  /\ last' = [last EXCEPT ![b] = NoRun]
  /\ wakes' = [w \in Wakes |->
                 IF wakes[w].stage \in {"ready", "waiting"} /\ wakes[w].b = b THEN NoWake
                 ELSE wakes[w]]
  /\ UNCHANGED <<errors, covers>>

-----------------------------------------------------------------------------
(***************************************************************************)
(* startIngestion: the interval timer.  A tick during a run joins it.      *)
(***************************************************************************)
Tick ==
  /\ due' = [b \in Backends |-> TRUE]
  /\ last' = [b \in Backends |->
                IF last[b].known /\ last[b].age < Recent THEN [last[b] EXCEPT !.age = @ + 1]
                ELSE last[b]]
  /\ UNCHANGED <<vars, errors, covers, wakes>>

TimerRun(b) ==
  /\ due[b]
  /\ due' = [due EXCEPT ![b] = FALSE]
  /\ IF Inflight(b) THEN UNCHANGED <<vars, errors, covers>> ELSE Run(b)
  /\ UNCHANGED <<last, wakes>>

-----------------------------------------------------------------------------
(***************************************************************************)
(* POST /internal/ingest: wait for the first Kafka connection, then wake.  *)
(***************************************************************************)
WakeArrives(w, b) ==
  /\ wakes[w] = NoWake
  /\ wakes' = [wakes EXCEPT ![w] = [stage |-> "ready", b |-> b, listed |-> feed]]
  /\ UNCHANGED <<vars, due, errors, covers, last>>

Wake(w) ==
  /\ wakes[w].stage = "ready"
  /\ LET b == wakes[w].b
         waiting == [stage |-> "waiting", b |-> b, listed |-> wakes[w].listed,
                     joined |-> Inflight(b)]
     IN  \/ /\ ~ Inflight(b) /\ Succeeded(last[b]) /\ last[b].age < Recent
            /\ wakes' = [wakes EXCEPT ![w] = Answered(w, b, FALSE, "recent", last[b])]
            /\ UNCHANGED <<vars, errors, covers>>
         \/ /\ Inflight(b)
            /\ wakes' = [wakes EXCEPT ![w] = waiting]
            /\ UNCHANGED <<vars, errors, covers>>
         \/ /\ ~ Inflight(b) /\ ~ (Succeeded(last[b]) /\ last[b].age < Recent)
            /\ wakes' = [wakes EXCEPT ![w] = waiting]
            /\ Run(b)
  /\ UNCHANGED <<due, last>>

\* 202: the run outlives WAKE_WAIT_MS.
WakeTimesOut(w) ==
  /\ wakes[w].stage = "waiting"
  /\ wakes' = [wakes EXCEPT ![w] = NoWake]
  /\ UNCHANGED <<vars, due, errors, covers, last>>

WakeOver(w) ==
  /\ wakes[w].stage = "answered"
  /\ wakes' = [wakes EXCEPT ![w] = NoWake]
  /\ UNCHANGED <<vars, due, errors, covers, last>>

-----------------------------------------------------------------------------
Outside ==
  /\ \/ \E e \in FeedEvents : EventAppears(e)
     \/ \E e \in ManualEvents : AdminPublish(e)
  /\ UNCHANGED runnerVars

RunnerNext ==
  \/ Outside
  \/ \E b \in Backends : Works(b) \/ Throws(b) \/ Restart(b) \/ TimerRun(b)
  \/ Tick
  \/ \E w \in Wakes : \/ \E b \in Backends : WakeArrives(w, b)
                      \/ Wake(w) \/ WakeTimesOut(w) \/ WakeOver(w)

RunnerSpec == RunnerInit /\ [][RunnerNext]_<<vars, runnerVars>>

(***************************************************************************)
(* The interval fires, its tick starts a run, and the statements of a run  *)
(* answer.  Nothing is assumed of the wake-up calls: GitHub may skip them. *)
(***************************************************************************)
FairRunnerSpec ==
  /\ RunnerSpec
  /\ WF_<<vars, runnerVars>>(Tick)
  /\ \A b \in Backends : /\ WF_<<vars, runnerVars>>(TimerRun(b))
                         /\ WF_<<vars, runnerVars>>(Works(b))

-----------------------------------------------------------------------------
(***************************************************************************)
(* A wake-up call that is told "ok", or that nothing needs to be done, can *)
(* rely on it: the events listed when the run it speaks of began are       *)
(* recorded, and the rows this run took from the outbox are published; and *)
(* a run it is told of as its own began after the call                     *)
(* (ingest.js:216-221, 254-268, internal.routes.js:11-19, 106-107).        *)
(***************************************************************************)
WakeAnswerIsTrue ==
  \A w \in Wakes :
    wakes[w].stage = "answered" /\ (wakes[w].ok \/ wakes[w].reason = "recent") =>
      /\ wakes[w].of.listed \subseteq Recorded
      /\ wakes[w].of.drained \subseteq published
      /\ wakes[w].ran => wakes[w].listed \subseteq wakes[w].of.listed
(***************************************************************************)
(* Every listed event is published in the end, though sends and statements *)
(* fail and the process restarts: what a run leaves in the outbox a later  *)
(* one takes up (ingest.js:9-11, 200, 299-304).                            *)
(***************************************************************************)
ListedIsPublished ==
  \A e \in FeedEvents : e \in feed ~> \E n \in published : recorded[n] = e
=============================================================================
