----------------------------- MODULE GdacsClient -----------------------------
(***************************************************************************)
(* The client that asks GDACS for the impact level and the place of        *)
(* events (backend/src/services/gdacs.js, gdacsStore.js): answers are kept *)
(* in memory and in the table GdacsCache, failures are remembered for a    *)
(* short while, look-ups of one event are shared, and what is known goes   *)
(* on being served while GDACS or the table cannot be reached.             *)
(*                                                                         *)
(* One backend process.  An answer is identified by the moment it was      *)
(* fetched, and level and place travel together.  Callers are the public   *)
(* feed (fetchNasaEventsFast), which shows what is known at once and lets  *)
(* the look-ups go on, and the ingestion job, which waits for them; a      *)
(* caller's array has one event per key.  Left out: the list of cyclones,  *)
(* the news job's getPlace, the statistics, and the bound on look-ups a    *)
(* caller has under way, which only delays a LookUp.  Rows older than 30   *)
(* days, which load deletes, do not occur within MaxTime; the two seconds  *)
(* answers wait before they are saved are less than a tick.                *)
(***************************************************************************)
EXTENDS Integers, Functions

CONSTANTS Keys,         \* the events GDACS is asked about
          Feeds, Jobs,  \* callers
          Ttl, FailureTtl, StaleMax, StoreRetry,
          MaxTime,      \* bound on the clock
          MaxFaults     \* bound on restarts and failed statements

ASSUME CallersAssumption == Feeds \cap Jobs = {}
ASSUME TimesAssumption == {Ttl, FailureTtl, StaleMax, StoreRetry, MaxTime, MaxFaults} \subseteq Nat

Callers == Feeds \cup Jobs

VARIABLES
  now,
  cache,        \* the entry of each key in memory
  inflight,     \* keys being asked for, with the entry found before
  load,         \* the load of the table: "awaited", "late", "loaded", "failed"
  loadFailedAt,
  unsaved,      \* answers not yet handed to a save
  saves,        \* the answers of each save under way
  stored,       \* rows of GdacsCache: when the answer was fetched
  stage,        \* where each caller is with each key
  shown,        \* what each caller's event carries
  lastFailure,  \* when asking failed last (history)
  faults

storeVars == <<load, loadFailedAt, unsaved, saves, stored>>
callerVars == <<stage, shown>>
vars == <<now, cache, inflight, storeVars, callerVars, lastFailure, faults>>

Never == -1

Entry(k, t, e) == [kind |-> k, at |-> t, expiresAt |-> e]
Absent == Entry("absent", Never, Never)
Fault == faults < MaxFaults /\ faults' = faults + 1

\* A bug to look for: an old answer counts as known.
UsableForever(entry) == entry.kind \in {"answer", "refused"}

\* refused: a 4xx, an answer without level and without age
Usable(entry) ==
  \/ entry.kind = "refused"
  \/ entry.kind = "answer" /\ now - entry.at <= StaleMax

\* What enrich writes on an event: gdacs, gdacsPlace and gdacsUnreachable.
Shown(entry) ==
  [what |-> CASE entry.kind = "failed" -> "unreachable"
              [] entry.kind = "answer" /\ Usable(entry) -> "answer"
              [] OTHER -> "null",
   at |-> IF entry.kind = "answer" /\ Usable(entry) THEN entry.at ELSE Never]
Untouched == [what |-> "untouched", at |-> Never]

-----------------------------------------------------------------------------
\* index.js:18: the load starts with the process.
Init ==
  /\ now = 0
  /\ cache = [k \in Keys |-> Absent]
  /\ inflight = [k \in {} |-> Absent]
  /\ load = "awaited"
  /\ loadFailedAt = Never
  /\ unsaved = [k \in {} |-> 0]
  /\ saves = {}
  /\ stored = [k \in {} |-> 0]
  /\ stage = [c \in Callers |-> [k \in Keys |-> "done"]]
  /\ shown = [c \in Callers |-> [k \in Keys |-> Untouched]]
  /\ lastFailure = [k \in Keys |-> Never]
  /\ faults = 0

Tick ==
  /\ now < MaxTime
  /\ now' = now + 1
  /\ UNCHANGED <<cache, inflight, storeVars, callerVars, lastFailure, faults>>

\* A crash, or the exit after the last flush: only the table is left.
Restart ==
  /\ Fault
  /\ cache' = [k \in Keys |-> Absent]
  /\ inflight' = [k \in {} |-> Absent]
  /\ load' = "awaited"
  /\ loadFailedAt' = Never
  /\ unsaved' = [k \in {} |-> 0]
  /\ saves' = {}
  /\ stage' = [c \in Callers |-> [k \in Keys |-> "done"]]
  /\ shown' = [c \in Callers |-> [k \in Keys |-> Untouched]]
  /\ lastFailure' = [k \in Keys |-> Never]
  /\ UNCHANGED <<now, stored>>

-----------------------------------------------------------------------------
(***************************************************************************)
(* ensureLoaded                                                            *)
(***************************************************************************)
EnsureLoaded ==
  IF load = "failed" /\ now - loadFailedAt >= StoreRetry
    THEN load' = "awaited" /\ loadFailedAt' = Never
    ELSE UNCHANGED <<load, loadFailedAt>>

\* A bug to look for: stored rows replace newer answers.
LoadedAll ==
  [k \in Keys |->
     IF k \in DOMAIN stored THEN Entry("answer", stored[k], stored[k] + Ttl) ELSE cache[k]]

\* An answer in memory is newer than the row; a failure mark gives way.
Loaded ==
  [k \in Keys |->
     IF k \in DOMAIN stored /\ cache[k].kind \in {"absent", "failed"}
       THEN Entry("answer", stored[k], stored[k] + Ttl)
       ELSE cache[k]]

LoadArrives ==
  /\ load \in {"awaited", "late"}
  /\ load' = "loaded"
  /\ cache' = Loaded
  /\ lastFailure' = [k \in Keys |-> IF Loaded[k] = cache[k] THEN lastFailure[k] ELSE Never]
  /\ UNCHANGED <<now, inflight, loadFailedAt, unsaved, saves, stored, callerVars, faults>>

LoadFails ==
  /\ load \in {"awaited", "late"}
  /\ Fault
  /\ load' = "failed"
  /\ loadFailedAt' = now
  /\ UNCHANGED <<now, cache, inflight, unsaved, saves, stored, callerVars, lastFailure>>

\* Nobody waits for the load any longer.
LoadTimeout ==
  /\ load = "awaited"
  /\ load' = "late"
  /\ UNCHANGED <<now, cache, inflight, loadFailedAt, unsaved, saves, stored, callerVars,
                 lastFailure, faults>>

-----------------------------------------------------------------------------
(***************************************************************************)
(* fetchNasaEventsFast, and the ingestion job's enrich                     *)
(***************************************************************************)
Idle(c) == \A k \in Keys : stage[c][k] = "done"

StartFeed(c) ==
  /\ Idle(c)
  /\ EnsureLoaded
  /\ stage' = [stage EXCEPT ![c] = [k \in Keys |-> "attach"]]
  /\ shown' = [shown EXCEPT ![c] = [k \in Keys |-> Untouched]]
  /\ UNCHANGED <<now, cache, inflight, unsaved, saves, stored, lastFailure, faults>>

StartJob(c) ==
  /\ Idle(c)
  /\ stage' = [stage EXCEPT ![c] = [k \in Keys |-> "queued"]]
  /\ shown' = [shown EXCEPT ![c] = [k \in Keys |-> Untouched]]
  /\ UNCHANGED <<now, cache, inflight, storeVars, lastFailure, faults>>

FetchFails(c) ==
  /\ \E k \in Keys : stage[c][k] = "attach"
  /\ stage' = [stage EXCEPT ![c] = [k \in Keys |-> "done"]]
  /\ UNCHANGED <<now, cache, inflight, storeVars, shown, lastFailure, faults>>

Attach(c) ==
  /\ \E k \in Keys : stage[c][k] = "attach"
  /\ load # "awaited"
  /\ stage' = [stage EXCEPT ![c] = [k \in Keys |-> "queued"]]
  /\ shown' = [shown EXCEPT ![c] =
                 [k \in Keys |-> IF Usable(cache[k]) THEN Shown(cache[k]) ELSE Untouched]]
  /\ UNCHANGED <<now, cache, inflight, storeVars, lastFailure, faults>>

-----------------------------------------------------------------------------
(***************************************************************************)
(* getLevels, getLevel                                                     *)
(***************************************************************************)
LookUp(c, k) ==
  /\ stage[c][k] = "queued"
  /\ EnsureLoaded
  /\ stage' = [stage EXCEPT ![c][k] = "loading"]
  /\ UNCHANGED <<now, cache, inflight, unsaved, saves, stored, shown, lastFailure, faults>>

\* A bug to look for: a failure mark does not count as a hit.
HitKnown(c, k) ==
  /\ stage[c][k] = "loading" /\ load # "awaited"
  /\ cache[k].expiresAt > now /\ cache[k].kind # "failed"
  /\ stage' = [stage EXCEPT ![c][k] = "done"]
  /\ shown' = [shown EXCEPT ![c][k] = Shown(cache[k])]
  /\ UNCHANGED <<now, cache, inflight, storeVars, lastFailure, faults>>

Hit(c, k) ==
  /\ stage[c][k] = "loading" /\ load # "awaited"
  /\ cache[k].expiresAt > now
  /\ stage' = [stage EXCEPT ![c][k] = "done"]
  /\ shown' = [shown EXCEPT ![c][k] = Shown(cache[k])]
  /\ UNCHANGED <<now, cache, inflight, storeVars, lastFailure, faults>>

\* A look-up of the key that is under way is shared.
Ask(c, k) ==
  /\ stage[c][k] = "loading" /\ load # "awaited"
  /\ cache[k].expiresAt <= now
  /\ stage' = [stage EXCEPT ![c][k] = "asking"]
  /\ inflight' = IF k \in DOMAIN inflight THEN inflight
                 ELSE [j \in DOMAIN inflight \cup {k} |->
                         IF j = k THEN cache[k] ELSE inflight[j]]
  /\ UNCHANGED <<now, cache, storeVars, shown, lastFailure, faults>>

\* Everyone who waits for the key goes on with the new entry.
Settle(k, entry) ==
  LET waiting(c) == stage[c][k] = "asking"
  IN  /\ cache' = [cache EXCEPT ![k] = entry]
      /\ inflight' = Restrict(inflight, DOMAIN inflight \ {k})
      /\ stage' = [c \in Callers |->
                     IF waiting(c) THEN [stage[c] EXCEPT ![k] = "done"] ELSE stage[c]]
      /\ shown' = [c \in Callers |->
                     IF waiting(c) THEN [shown[c] EXCEPT ![k] = Shown(entry)] ELSE shown[c]]

Answered(k) ==
  /\ k \in DOMAIN inflight
  /\ Settle(k, Entry("answer", now, now + Ttl))
  /\ unsaved' = [j \in DOMAIN unsaved \cup {k} |-> IF j = k THEN now ELSE unsaved[j]]
  /\ UNCHANGED <<now, load, loadFailedAt, saves, stored, lastFailure, faults>>

\* A bug to look for: a failure expires at once.
AfterFailureAgain(hit, refusal) ==
  IF Usable(hit) THEN [hit EXCEPT !.expiresAt = now]
  ELSE Entry(IF refusal THEN "refused" ELSE "failed", Never, now)

AfterFailure(hit, refusal) ==
  IF Usable(hit) THEN [hit EXCEPT !.expiresAt = now + FailureTtl]
  ELSE Entry(IF refusal THEN "refused" ELSE "failed", Never, now + FailureTtl)

\* A timeout, a broken connection, a 5xx; or a 4xx (refusal).
AskFails(k, refusal) ==
  /\ k \in DOMAIN inflight
  /\ Settle(k, AfterFailure(inflight[k], refusal))
  /\ lastFailure' = [lastFailure EXCEPT ![k] = now]
  /\ UNCHANGED <<now, storeVars, faults>>

-----------------------------------------------------------------------------
(***************************************************************************)
(* flush                                                                   *)
(***************************************************************************)
\* A bug to look for: a flush does not wait for the one under way.
FlushAtOnce ==
  /\ unsaved # [k \in {} |-> 0]
  /\ saves' = saves \cup {unsaved}
  /\ unsaved' = [k \in {} |-> 0]
  /\ UNCHANGED <<now, cache, inflight, load, loadFailedAt, stored, callerVars, lastFailure, faults>>

Flush ==
  /\ saves = {}
  /\ unsaved # [k \in {} |-> 0]
  /\ saves' = {unsaved}
  /\ unsaved' = [k \in {} |-> 0]
  /\ UNCHANGED <<now, cache, inflight, load, loadFailedAt, stored, callerVars, lastFailure, faults>>

Write(entries, S) ==
  stored' = [k \in DOMAIN stored \cup S |-> IF k \in S THEN entries[k] ELSE stored[k]]

Saved(entries) ==
  /\ Write(entries, DOMAIN entries)
  /\ saves' = saves \ {entries}
  /\ UNCHANGED <<now, cache, inflight, load, loadFailedAt, unsaved, callerVars, lastFailure, faults>>

\* Some chunks of the save may have been written; the others are dropped.
SaveFails(entries) ==
  /\ Fault
  /\ \E S \in SUBSET DOMAIN entries : Write(entries, S)
  /\ saves' = saves \ {entries}
  /\ UNCHANGED <<now, cache, inflight, load, loadFailedAt, unsaved, callerVars, lastFailure>>

-----------------------------------------------------------------------------
Asking(k) == Answered(k) \/ \E refusal \in BOOLEAN : AskFails(k, refusal)

Call(c) ==
  \/ Attach(c)
  \/ FetchFails(c)
  \/ \E k \in Keys : LookUp(c, k) \/ Hit(c, k) \/ Ask(c, k)

Next ==
  \/ Tick
  \/ Restart
  \/ LoadArrives
  \/ LoadFails
  \/ LoadTimeout
  \/ \E c \in Feeds : StartFeed(c)
  \/ \E c \in Jobs : StartJob(c)
  \/ \E c \in Callers : Call(c)
  \/ \E k \in Keys : Asking(k)
  \/ Flush
  \/ \E entries \in saves : Saved(entries) \/ SaveFails(entries)

Spec == Init /\ [][Next]_vars

(***************************************************************************)
(* Callers go on as soon as what they wait for is there; a request and the *)
(* wait for the load end with a timer.                                     *)
(***************************************************************************)
FairSpec ==
  /\ Spec
  /\ \A c \in Callers : WF_vars(Call(c))
  /\ \A k \in Keys : WF_vars(Asking(k))
  /\ WF_vars(LoadTimeout)

-----------------------------------------------------------------------------
(***************************************************************************)
(* Types, and who waits: a caller that asks has a look-up to wait for.     *)
(***************************************************************************)
Time == 0 .. MaxTime

Keeps(k) == cache'[k].kind = "answer" /\ cache'[k].at >= cache[k].at
Known(k) == cache[k].kind = "answer" /\ Usable(cache[k])

(***************************************************************************)
(* What the header promises (gdacs.js:23-27): an answer in memory is       *)
(* served until it is 48 hours old, while its refresh is pending or        *)
(* failing; only a newer one replaces it.                                  *)
(***************************************************************************)
KnownAnswerIsServed ==
  [][\A k \in Keys : Known(k) => Keeps(k) \/ Restart]_vars

(***************************************************************************)
(* The same of every answer that was in memory when its refresh began,     *)
(* whatever load, failures and shared look-ups come in between             *)
(* (gdacs.js:170-174, 272-276).                                            *)
(***************************************************************************)
RefreshKeepsAnswer ==
  [][\A k \in Keys :
       Known(k) /\ (k \in DOMAIN inflight => inflight[k].at = cache[k].at) =>
         Keeps(k) \/ Restart]_vars

(***************************************************************************)
(* While GDACS is down it is not asked about a key again for FailureTtl,   *)
(* however many refreshes and callers there are, unless a stored answer    *)
(* took the place of the mark (gdacs.js:12-14).                            *)
(***************************************************************************)
FailureIsRemembered ==
  [][\A k \in DOMAIN inflight' \ DOMAIN inflight :
       lastFailure[k] = Never \/ now - lastFailure[k] >= FailureTtl]_vars

(***************************************************************************)
(* No row goes back to an older answer: saves do not overtake one another, *)
(* and a restarted process starts from what is there (gdacs.js:204).       *)
(***************************************************************************)
StoreMovesForward ==
  [][\A k \in DOMAIN stored : k \in DOMAIN stored' /\ stored'[k] >= stored[k]]_vars

(***************************************************************************)
(* No event is given an answer older than StaleMax, neither from memory    *)
(* nor from rows that were loaded (gdacs.js:50-51, 153).                   *)
(***************************************************************************)
ServedIsFresh ==
  [][\A c \in Callers, k \in Keys :
       shown'[c][k] # shown[c][k] /\ shown'[c][k].what = "answer" =>
         now - shown'[c][k].at <= StaleMax]_vars

(***************************************************************************)
(* Every refresh and every rating ends, although look-ups wait for a load  *)
(* that may hang and for each other's requests (gdacs.js:16, 318).         *)
(***************************************************************************)
EventuallyRated ==
  \A c \in Callers, k \in Keys : stage[c][k] # "done" ~> stage[c][k] = "done"
=============================================================================
