-------------------------- MODULE GdacsClientProofs --------------------------
(***************************************************************************)
(* Proofs about the GDACS client, for any events, callers and times:       *)
(* a known answer survives its refresh, a failure is remembered, the table *)
(* never goes back, what is served is fresh, and nobody waits for a        *)
(* request that is not under way.                                          *)
(***************************************************************************)
EXTENDS GdacsClient, TLAPS

Kinds == {"absent", "answer", "refused", "failed"}
Entries == [kind : Kinds, at : Int, expiresAt : Int]

\* An answer was fetched at a moment before t; the others carry no date.
IsEntry(e, t) ==
  /\ e \in Entries
  /\ IF e.kind = "answer" THEN e.at \in 0 .. t ELSE e.at = Never

\* Answers by key, as they are saved.
AreAnswers(f) == DOMAIN f \subseteq Keys /\ \A k \in DOMAIN f : f[k] \in 0 .. now
NotOlder(f, g) == \A k \in DOMAIN f \cap DOMAIN g : f[k] >= g[k]

EntriesTyped ==
  /\ now \in Nat
  /\ cache = [k \in Keys |-> cache[k]]
  /\ \A k \in Keys : IsEntry(cache[k], now)
  /\ DOMAIN inflight \subseteq Keys
  /\ \A k \in DOMAIN inflight : IsEntry(inflight[k], now)

Stages == {"done", "attach", "queued", "loading", "asking"}

CallersTyped ==
  /\ stage \in [Callers -> [Keys -> Stages]]
  /\ shown = [c \in Callers |-> [k \in Keys |-> shown[c][k]]]

\* What waits to be saved is newer than what is being saved, and that than the row.
StoreOrdered ==
  /\ AreAnswers(stored) /\ AreAnswers(unsaved)
  /\ \A entries \in saves : AreAnswers(entries)
  /\ \A entries, others \in saves : entries = others
  /\ NotOlder(unsaved, stored)
  /\ \A entries \in saves : NotOlder(unsaved, entries) /\ NotOlder(entries, stored)

\* While a failure is remembered the entry has not expired, and once it has, only
\* a request that began later is under way.
FailuresKept ==
  /\ lastFailure \in [Keys -> Int]
  /\ \A k \in Keys : lastFailure[k] # Never =>
       /\ cache[k].expiresAt >= lastFailure[k] + FailureTtl
       /\ k \in DOMAIN inflight => now >= lastFailure[k] + FailureTtl

\* Who asks has a request to wait for.
AskersHaveRequests ==
  \A c \in Callers, k \in Keys : stage[c][k] = "asking" => k \in DOMAIN inflight

IInv ==
  /\ EntriesTyped
  /\ CallersTyped
  /\ StoreOrdered
  /\ FailuresKept
  /\ AskersHaveRequests

-----------------------------------------------------------------------------
(***************************************************************************)
(* The steps, and what most of them leave alone.                           *)
(***************************************************************************)
LEMMA Times == {Ttl, FailureTtl, StaleMax, StoreRetry} \subseteq Nat
  BY TimesAssumption

\* A caller moves on without anything being asked or answered.
CallerMoves(c) ==
  \/ StartFeed(c) \/ StartJob(c) \/ Attach(c) \/ FetchFails(c)
  \/ \E k \in Keys : LookUp(c, k) \/ Hit(c, k)

StoreMoves ==
  \/ LoadFails \/ LoadTimeout \/ Flush
  \/ \E entries \in saves : Saved(entries) \/ SaveFails(entries)

LEMMA Steps ==
  ASSUME [Next]_vars
  PROVE  \/ Tick
         \/ Restart
         \/ LoadArrives
         \/ StoreMoves
         \/ \E c \in Callers : CallerMoves(c) \/ \E k \in Keys : Ask(c, k)
         \/ \E k \in Keys : Answered(k) \/ \E refusal \in BOOLEAN : AskFails(k, refusal)
         \/ UNCHANGED vars
  BY DEF Next, Call, Asking, CallerMoves, StoreMoves, Callers

LEMMA CallerFrame ==
  ASSUME NEW c \in Callers, CallerMoves(c)
  PROVE  UNCHANGED <<now, cache, inflight, unsaved, saves, stored, lastFailure, faults>>
  BY DEF CallerMoves, StartFeed, StartJob, Attach, FetchFails, LookUp, Hit, storeVars

LEMMA StoreFrame ==
  ASSUME StoreMoves
  PROVE  UNCHANGED <<now, cache, inflight, stage, shown, lastFailure>>
  BY DEF StoreMoves, LoadFails, LoadTimeout, Flush, Saved, SaveFails, callerVars

\* What a request does when it ends: the new entry is one, whatever was found before.
LEMMA Refused ==
  ASSUME EntriesTyped, NEW hit, IsEntry(hit, now), NEW refusal \in BOOLEAN
  PROVE  LET entry == AfterFailure(hit, refusal)
         IN  /\ IsEntry(entry, now) /\ entry.expiresAt = now + FailureTtl
             /\ Usable(hit) /\ hit.kind = "answer" => entry.kind = "answer" /\ entry.at = hit.at
<1>1. now \in Nat /\ now + FailureTtl \in Int
  BY Times DEF EntriesTyped
<1>2. CASE Usable(hit)
  <2>1. AfterFailure(hit, refusal) = [hit EXCEPT !.expiresAt = now + FailureTtl]
    BY <1>2 DEF AfterFailure
  <2> QED
    BY <1>1, <2>1 DEF IsEntry, Entries
<1>3. CASE ~ Usable(hit)
  <2>1. AfterFailure(hit, refusal) =
          [kind |-> IF refusal THEN "refused" ELSE "failed", at |-> Never,
           expiresAt |-> now + FailureTtl]
    BY <1>3 DEF AfterFailure, Entry
  <2> QED
    BY <1>1, <1>3, <2>1 DEF IsEntry, Entries, Kinds, Never
<1> QED
  BY <1>2, <1>3

\* A new entry takes the place of the old one, the request is over, and whoever waited has it.
LEMMA Settled ==
  ASSUME EntriesTyped, CallersTyped, NEW k \in Keys, NEW entry, Settle(k, entry)
  PROVE  /\ cache' = [j \in Keys |-> cache'[j]]
         /\ cache'[k] = entry
         /\ \A j \in Keys : j # k => cache'[j] = cache[j]
         /\ DOMAIN inflight' = DOMAIN inflight \ {k}
         /\ \A j \in DOMAIN inflight \ {k} : inflight'[j] = inflight[j]
<1>1. cache' = [cache EXCEPT ![k] = entry] /\ inflight' = Restrict(inflight, DOMAIN inflight \ {k})
  BY DEF Settle
<1>2. cache' = [cache EXCEPT ![k] = entry] /\ cache = [j \in Keys |-> cache[j]]
  BY <1>1 DEF EntriesTyped
<1>3. DOMAIN cache = Keys
  BY <1>2
<1> QED
  BY <1>1, <1>2, <1>3 DEF Restrict

LEMMA SettledCallers ==
  ASSUME CallersTyped, NEW k \in Keys, NEW entry, Settle(k, entry)
  PROVE  /\ CallersTyped'
         /\ \A c \in Callers : stage'[c][k] # "asking"
         /\ \A c \in Callers, j \in Keys : /\ stage'[c][j] \in {stage[c][j], "done"}
                                          /\ shown'[c][j] \in {shown[c][j], Shown(entry)}
<1> DEFINE waiting(c) == stage[c][k] = "asking"
           stages(c) == IF waiting(c) THEN [stage[c] EXCEPT ![k] = "done"] ELSE stage[c]
           marks(c) == IF waiting(c) THEN [shown[c] EXCEPT ![k] = Shown(entry)] ELSE shown[c]
<1>1. /\ stage' = [c \in Callers |-> stages(c)]
      /\ shown' = [c \in Callers |-> marks(c)]
  BY DEF Settle
<1>2. ASSUME NEW c \in Callers
      PROVE  /\ stages(c) \in [Keys -> Stages]
             /\ stages(c)[k] # "asking"
             /\ \A j \in Keys : stages(c)[j] \in {stage[c][j], "done"}
  <2>1. stage[c] \in [Keys -> Stages] /\ "done" \in Stages
    BY DEF CallersTyped, Stages
  <2> QED
    BY <2>1
<1>3. ASSUME NEW c \in Callers
      PROVE  /\ marks(c) = [j \in Keys |-> marks(c)[j]]
             /\ \A j \in Keys : marks(c)[j] \in {shown[c][j], Shown(entry)}
  <2>1. shown[c] = [j \in Keys |-> shown[c][j]]
    BY DEF CallersTyped
  <2>2. CASE waiting(c)
    <3>1. marks(c) = [shown[c] EXCEPT ![k] = Shown(entry)]
      BY <2>2
    <3> HIDE DEF marks
    <3> QED
      BY <2>1, <3>1
  <2>3. CASE ~ waiting(c)
    BY <2>1, <2>3
  <2> QED
    BY <2>2, <2>3
<1>4. \A c \in Callers : stage'[c] = stages(c) /\ shown'[c] = marks(c)
  BY <1>1
<1> HIDE DEF stages, marks, waiting
<1>5. stage' \in [Callers -> [Keys -> Stages]]
  BY <1>1, <1>2
<1>6. shown' = [c \in Callers |-> [j \in Keys |-> shown'[c][j]]]
  BY <1>1, <1>3, <1>4
<1>7. CallersTyped'
  BY <1>5, <1>6 DEF CallersTyped
<1> QED
  BY <1>2, <1>3, <1>4, <1>7

-----------------------------------------------------------------------------
(***************************************************************************)
(* The invariant, part by part.                                            *)
(***************************************************************************)
LEMMA LaterEntry ==
  ASSUME NEW e, NEW t \in Nat, NEW u \in Nat, t <= u, IsEntry(e, t)
  PROVE  IsEntry(e, u)
  BY DEF IsEntry

LEMMA EntriesStep ==
  ASSUME IInv, [Next]_vars
  PROVE  EntriesTyped'
<1>0. EntriesTyped /\ CallersTyped /\ StoreOrdered /\ now \in Nat
  BY DEF IInv, EntriesTyped
<1>1. CASE Tick
  <2>1. now' \in Nat /\ now <= now' /\ cache' = cache /\ inflight' = inflight
    BY <1>0, <1>1 DEF Tick
  <2> QED
    BY <1>0, <2>1, LaterEntry DEF EntriesTyped
<1>2. CASE Restart
  <2>1. \A k \in Keys : IsEntry(Absent, now)
    BY <1>0 DEF IsEntry, Entries, Kinds, Absent, Entry, Never
  <2> QED
    BY <1>0, <1>2, <2>1 DEF Restart, EntriesTyped
<1>3. CASE LoadArrives
  <2>1. ASSUME NEW k \in Keys PROVE IsEntry(Loaded[k], now)
    <3>1. CASE k \in DOMAIN stored /\ cache[k].kind \in {"absent", "failed"}
      <4>1. Loaded[k] = [kind |-> "answer", at |-> stored[k], expiresAt |-> stored[k] + Ttl]
        BY <3>1 DEF Loaded, Entry
      <4>2. stored[k] \in 0 .. now /\ stored[k] + Ttl \in Int
        BY <1>0, <3>1, Times DEF StoreOrdered, AreAnswers
      <4> QED
        BY <1>0, <4>1, <4>2 DEF IsEntry, Entries, Kinds
    <3>2. CASE ~ (k \in DOMAIN stored /\ cache[k].kind \in {"absent", "failed"})
      BY <1>0, <3>2 DEF Loaded, EntriesTyped
    <3> QED
      BY <3>1, <3>2
  <2>2. cache' = Loaded /\ Loaded = [k \in Keys |-> Loaded[k]]
    BY <1>3 DEF LoadArrives, Loaded
  <2> QED
    BY <1>0, <1>3, <2>1, <2>2 DEF LoadArrives, EntriesTyped
<1>4. ASSUME NEW c \in Callers, NEW k \in Keys, Ask(c, k)
      PROVE  EntriesTyped'
  <2>1. \A j \in DOMAIN inflight' : \/ j \in DOMAIN inflight /\ inflight'[j] = inflight[j]
                                    \/ j = k /\ inflight'[j] = cache[k]
    BY <1>4 DEF Ask
  <2>2. cache' = cache /\ now' = now
    BY <1>4 DEF Ask
  <2>3. DOMAIN inflight' \subseteq Keys
    BY <1>0, <2>1 DEF EntriesTyped
  <2>4. \A j \in DOMAIN inflight' : IsEntry(inflight'[j], now)
    BY <1>0, <2>1 DEF EntriesTyped
  <2> QED
    BY <1>0, <2>2, <2>3, <2>4 DEF EntriesTyped
<1>5. ASSUME NEW k \in Keys, NEW entry, IsEntry(entry, now), Settle(k, entry), now' = now
      PROVE  EntriesTyped'
  <2>1. /\ cache' = [j \in Keys |-> cache'[j]] /\ cache'[k] = entry
        /\ \A j \in Keys : j # k => cache'[j] = cache[j]
        /\ DOMAIN inflight' = DOMAIN inflight \ {k}
        /\ \A j \in DOMAIN inflight \ {k} : inflight'[j] = inflight[j]
    BY <1>0, <1>5, Settled
  <2>2. \A j \in Keys : IsEntry(cache'[j], now)
    BY <1>0, <1>5, <2>1 DEF EntriesTyped
  <2> QED
    BY <1>0, <1>5, <2>1, <2>2 DEF EntriesTyped
<1>6. ASSUME NEW k \in Keys, Answered(k)
      PROVE  EntriesTyped'
  <2>1. IsEntry(Entry("answer", now, now + Ttl), now)
    BY <1>0, Times DEF IsEntry, Entries, Kinds, Entry
  <2> QED
    BY <1>5, <1>6, <2>1 DEF Answered
<1>7. ASSUME NEW k \in Keys, NEW refusal \in BOOLEAN, AskFails(k, refusal)
      PROVE  EntriesTyped'
  <2>1. IsEntry(AfterFailure(inflight[k], refusal), now)
    BY <1>0, <1>7, Refused DEF AskFails, EntriesTyped
  <2> QED
    BY <1>5, <1>7, <2>1 DEF AskFails
<1>8. CASE UNCHANGED <<now, cache, inflight>>
  BY <1>0, <1>8 DEF EntriesTyped
<1> QED
  BY <1>1, <1>2, <1>3, <1>4, <1>6, <1>7, <1>8, Steps, CallerFrame, StoreFrame DEF vars

LEMMA CallersStep ==
  ASSUME EntriesTyped, CallersTyped, [Next]_vars
  PROVE  CallersTyped'
<1>1. ASSUME NEW k \in Keys, NEW entry, Settle(k, entry)
      PROVE  CallersTyped'
  BY <1>1, SettledCallers
<1>2. CASE Restart
  BY <1>2 DEF Restart, CallersTyped, Stages
<1>3. ASSUME NEW c \in Callers, NEW row \in [Keys -> Stages], stage' = [stage EXCEPT ![c] = row],
             shown' = shown
      PROVE  CallersTyped'
  BY <1>3 DEF CallersTyped
<1>4. ASSUME NEW c \in Callers, NEW row \in [Keys -> Stages], stage' = [stage EXCEPT ![c] = row],
             NEW marks, marks = [k \in Keys |-> marks[k]], shown' = [shown EXCEPT ![c] = marks]
      PROVE  CallersTyped'
  <2>1. stage' \in [Callers -> [Keys -> Stages]]
    BY <1>4 DEF CallersTyped
  <2>2. shown = [d \in Callers |-> [k \in Keys |-> shown[d][k]]]
    BY DEF CallersTyped
  <2>3. \A d \in Callers : shown'[d] = IF d = c THEN marks ELSE shown[d]
    BY <1>4, <2>2
  <2>4. \A d \in Callers : shown'[d] = [k \in Keys |-> shown'[d][k]]
    BY <1>4, <2>2, <2>3
  <2>5. shown' = [d \in Callers |-> shown'[d]]
    BY <1>4, <2>2
  <2> QED
    BY <2>1, <2>4, <2>5 DEF CallersTyped
<1>5. ASSUME NEW c \in Callers, StartFeed(c) \/ StartJob(c)
      PROVE  CallersTyped'
  <2>1. /\ [k \in Keys |-> "attach"] \in [Keys -> Stages]
        /\ [k \in Keys |-> "queued"] \in [Keys -> Stages]
    BY DEF Stages
  <2>2. [k \in Keys |-> Untouched] = [k \in Keys |-> [j \in Keys |-> Untouched][k]]
    OBVIOUS
  <2> QED
    BY <1>4, <1>5, <2>1, <2>2 DEF StartFeed, StartJob
<1>6. ASSUME NEW c \in Callers, Attach(c)
      PROVE  CallersTyped'
  <2>1. [k \in Keys |-> "queued"] \in [Keys -> Stages]
    BY DEF Stages
  <2> DEFINE marks == [k \in Keys |-> IF Usable(cache[k]) THEN Shown(cache[k]) ELSE Untouched]
  <2>2. marks = [k \in Keys |-> marks[k]]
    OBVIOUS
  <2>3. /\ stage' = [stage EXCEPT ![c] = [k \in Keys |-> "queued"]]
        /\ shown' = [shown EXCEPT ![c] = marks]
    BY <1>6 DEF Attach
  <2> HIDE DEF marks
  <2> QED
    BY <1>4, <2>1, <2>2, <2>3
<1>7. ASSUME NEW c \in Callers, FetchFails(c)
      PROVE  CallersTyped'
  <2>1. [k \in Keys |-> "done"] \in [Keys -> Stages]
    BY DEF Stages
  <2> QED
    BY <1>3, <1>7, <2>1 DEF FetchFails
<1>8. ASSUME NEW c \in Callers, NEW k \in Keys, LookUp(c, k) \/ Ask(c, k)
      PROVE  CallersTyped'
  <2>1. PICK s \in Stages : stage' = [stage EXCEPT ![c][k] = s] /\ shown' = shown
    BY <1>8 DEF LookUp, Ask, Stages
  <2>2. stage' = [stage EXCEPT ![c] = [stage[c] EXCEPT ![k] = s]]
    BY <2>1
  <2>3. [stage[c] EXCEPT ![k] = s] \in [Keys -> Stages]
    BY DEF CallersTyped
  <2> QED
    BY <1>3, <2>1, <2>2, <2>3
<1>9. ASSUME NEW c \in Callers, NEW k \in Keys, Hit(c, k)
      PROVE  CallersTyped'
  <2> DEFINE row == [stage[c] EXCEPT ![k] = "done"]
             marks == [shown[c] EXCEPT ![k] = Shown(cache[k])]
  <2>1. stage' = [stage EXCEPT ![c] = row] /\ shown' = [shown EXCEPT ![c] = marks]
    BY <1>9 DEF Hit
  <2>2. row \in [Keys -> Stages]
    BY DEF CallersTyped, Stages
  <2>3. shown[c] = [j \in Keys |-> shown[c][j]]
    BY DEF CallersTyped
  <2>4. marks = [j \in Keys |-> marks[j]]
    BY <2>3
  <2> HIDE DEF row, marks
  <2> QED
    BY <1>4, <2>1, <2>2, <2>4
<1>10. CASE UNCHANGED <<stage, shown>>
  BY <1>10 DEF CallersTyped
<1> QED
  BY <1>1, <1>2, <1>5, <1>6, <1>7, <1>8, <1>9, <1>10, Steps, StoreFrame
     DEF CallerMoves, Tick, LoadArrives, Answered, AskFails, vars, callerVars

LEMMA AskersStep ==
  ASSUME EntriesTyped, CallersTyped, AskersHaveRequests, [Next]_vars
  PROVE  AskersHaveRequests'
<1>1. ASSUME NEW k \in Keys, NEW entry, Settle(k, entry)
      PROVE  AskersHaveRequests'
  <2>1. DOMAIN inflight' = DOMAIN inflight \ {k}
    BY <1>1, Settled
  <2>2. \A c \in Callers : stage'[c][k] # "asking"
    BY <1>1, SettledCallers
  <2>3. \A c \in Callers, j \in Keys : stage'[c][j] \in {stage[c][j], "done"}
    BY <1>1, SettledCallers
  <2> QED
    BY <2>1, <2>2, <2>3 DEF AskersHaveRequests
<1>2. CASE Restart
  BY <1>2 DEF Restart, AskersHaveRequests
<1>3. ASSUME NEW c \in Callers, CallerMoves(c)
      PROVE  AskersHaveRequests'
  <2>1. \A d \in Callers, k \in Keys : stage'[d][k] = "asking" => stage[d][k] = "asking"
    BY <1>3 DEF CallerMoves, StartFeed, StartJob, Attach, FetchFails, LookUp, Hit, CallersTyped
  <2> QED
    BY <1>3, <2>1, CallerFrame DEF AskersHaveRequests
<1>4. ASSUME NEW c \in Callers, NEW k \in Keys, Ask(c, k)
      PROVE  AskersHaveRequests'
  <2>1. DOMAIN inflight' = DOMAIN inflight \cup {k}
    BY <1>4 DEF Ask
  <2>2. \A d \in Callers, j \in Keys :
          stage'[d][j] = "asking" => stage[d][j] = "asking" \/ j = k
    BY <1>4 DEF Ask, CallersTyped
  <2> QED
    BY <2>1, <2>2 DEF AskersHaveRequests
<1>5. CASE UNCHANGED <<stage, inflight>>
  BY <1>5 DEF AskersHaveRequests
<1> QED
  BY <1>1, <1>2, <1>3, <1>4, <1>5, Steps, StoreFrame
     DEF Tick, LoadArrives, Answered, AskFails, vars, callerVars

LEMMA FailuresStep ==
  ASSUME IInv, [Next]_vars
  PROVE  FailuresKept'
<1>0. EntriesTyped /\ CallersTyped /\ FailuresKept /\ now \in Nat /\ FailureTtl \in Nat
  BY Times DEF IInv, EntriesTyped
<1>1. CASE Tick
  <2>1. now' = now + 1 /\ cache' = cache /\ inflight' = inflight /\ lastFailure' = lastFailure
    BY <1>1 DEF Tick
  <2> QED
    BY <1>0, <2>1 DEF FailuresKept
<1>2. CASE Restart
  BY <1>2 DEF Restart, FailuresKept, Never
<1>3. CASE LoadArrives
  <2>1. \A k \in Keys : lastFailure'[k] # Never =>
          lastFailure'[k] = lastFailure[k] /\ cache'[k] = cache[k]
    BY <1>3 DEF LoadArrives
  <2>2. now' = now /\ inflight' = inflight /\ lastFailure' \in [Keys -> Int]
    BY <1>0, <1>3 DEF LoadArrives, FailuresKept, Never
  <2> QED
    BY <1>0, <2>1, <2>2 DEF FailuresKept
<1>4. ASSUME NEW c \in Callers, NEW k \in Keys, Ask(c, k)
      PROVE  FailuresKept'
  <2>1. DOMAIN inflight' = DOMAIN inflight \cup {k}
    BY <1>4 DEF Ask
  <2>2. cache' = cache /\ now' = now /\ lastFailure' = lastFailure /\ cache[k].expiresAt <= now
    BY <1>4 DEF Ask
  <2>3. cache[k].expiresAt \in Int
    BY <1>0 DEF EntriesTyped, IsEntry, Entries
  <2> QED
    BY <1>0, <2>1, <2>2, <2>3 DEF FailuresKept
<1>5. ASSUME NEW k \in Keys, Answered(k)
      PROVE  FailuresKept'
  <2>1. /\ now' = now /\ lastFailure' = lastFailure
        /\ Settle(k, Entry("answer", now, now + Ttl)) /\ k \in DOMAIN inflight
    BY <1>5 DEF Answered
  <2>2. Entry("answer", now, now + Ttl).expiresAt >= now /\ Ttl \in Nat
    BY <1>0, Times DEF Entry
  <2>3. lastFailure[k] # Never => now >= lastFailure[k] + FailureTtl
    BY <1>0, <2>1 DEF FailuresKept
  <2>4. \A j \in Keys : j # k => cache'[j] = cache[j]
    BY <1>0, <2>1, Settled
  <2>5. cache'[k] = Entry("answer", now, now + Ttl)
    BY <1>0, <2>1, Settled
  <2>6. DOMAIN inflight' \subseteq DOMAIN inflight
    BY <1>0, <2>1, Settled
  <2>7. lastFailure[k] \in Int /\ now + Ttl \in Int
    BY <1>0, <2>2 DEF FailuresKept
  <2>8. lastFailure[k] # Never => now + Ttl >= lastFailure[k] + FailureTtl
    BY <1>0, <2>2, <2>3, <2>7
  <2> QED
    BY <1>0, <2>1, <2>4, <2>5, <2>6, <2>8 DEF FailuresKept, Entry
<1>6. ASSUME NEW k \in Keys, NEW refusal \in BOOLEAN, AskFails(k, refusal)
      PROVE  FailuresKept'
  <2>1. /\ now' = now /\ lastFailure' = [lastFailure EXCEPT ![k] = now]
        /\ Settle(k, AfterFailure(inflight[k], refusal)) /\ k \in DOMAIN inflight
    BY <1>6 DEF AskFails
  <2>2. AfterFailure(inflight[k], refusal).expiresAt = now + FailureTtl
    BY <1>0, <2>1, Refused DEF EntriesTyped
  <2>3. /\ \A j \in Keys : j # k => cache'[j] = cache[j]
        /\ cache'[k].expiresAt = now + FailureTtl
        /\ DOMAIN inflight' = DOMAIN inflight \ {k}
    BY <1>0, <2>1, <2>2, Settled
  <2>4. /\ lastFailure' \in [Keys -> Int] /\ lastFailure'[k] = now
        /\ \A j \in Keys : j # k => lastFailure'[j] = lastFailure[j]
    BY <1>0, <2>1 DEF FailuresKept
  <2> QED
    BY <1>0, <2>1, <2>3, <2>4 DEF FailuresKept
<1>7. CASE UNCHANGED <<now, cache, inflight, lastFailure>>
  BY <1>0, <1>7 DEF FailuresKept
<1> QED
  BY <1>1, <1>2, <1>3, <1>4, <1>5, <1>6, <1>7, Steps, CallerFrame, StoreFrame DEF vars

\* A save, or the part of one that was executed, moves the rows forward.
LEMMA WriteMoves ==
  ASSUME StoreOrdered, NEW entries \in saves, NEW S \in SUBSET DOMAIN entries, Write(entries, S)
  PROVE  /\ DOMAIN stored' = DOMAIN stored \cup S
         /\ \A k \in DOMAIN stored' : stored'[k] = IF k \in S THEN entries[k] ELSE stored[k]
         /\ NotOlder(stored', stored)
<1>1. stored' = [k \in DOMAIN stored \cup S |-> IF k \in S THEN entries[k] ELSE stored[k]]
  BY DEF Write
<1>2. /\ \A k \in DOMAIN stored : stored[k] \in 0 .. now
      /\ NotOlder(entries, stored)
  BY DEF StoreOrdered, AreAnswers
<1> QED
  BY <1>1, <1>2 DEF NotOlder

LEMMA StoreStep ==
  ASSUME IInv, [Next]_vars
  PROVE  StoreOrdered'
<1>0. StoreOrdered /\ now \in Nat
  BY DEF IInv, EntriesTyped
<1>1. ASSUME UNCHANGED <<unsaved, saves, stored>>, now' \in Nat, now <= now'
      PROVE  StoreOrdered'
  <2>1. ASSUME NEW f, AreAnswers(f) PROVE AreAnswers(f)'
    BY <1>0, <1>1, <2>1 DEF AreAnswers
  <2> QED
    BY <1>0, <1>1, <2>1 DEF StoreOrdered, NotOlder, AreAnswers
<1>2. CASE Restart
  BY <1>0, <1>2 DEF Restart, StoreOrdered, NotOlder, AreAnswers
<1>3. ASSUME NEW k \in Keys, Answered(k)
      PROVE  StoreOrdered'
  <2>1. /\ unsaved' = [j \in DOMAIN unsaved \cup {k} |-> IF j = k THEN now ELSE unsaved[j]]
        /\ now' = now /\ saves' = saves /\ stored' = stored
    BY <1>3 DEF Answered
  <2>2. AreAnswers(unsaved')
    BY <1>0, <2>1 DEF StoreOrdered, AreAnswers
  <2>3. ASSUME NEW f, AreAnswers(f), NotOlder(unsaved, f) PROVE NotOlder(unsaved', f)
    BY <1>0, <2>1, <2>3 DEF NotOlder, AreAnswers
  <2> QED
    BY <1>0, <2>1, <2>2, <2>3 DEF StoreOrdered, AreAnswers, NotOlder
<1>4. CASE Flush
  BY <1>0, <1>4 DEF Flush, StoreOrdered, AreAnswers, NotOlder
<1>5. ASSUME NEW entries \in saves, Saved(entries) \/ SaveFails(entries)
      PROVE  StoreOrdered'
  <2>1. PICK S \in SUBSET DOMAIN entries : Write(entries, S)
    BY <1>5 DEF Saved, SaveFails
  <2>2. saves' = {} /\ unsaved' = unsaved /\ now' = now
    BY <1>0, <1>5 DEF Saved, SaveFails, StoreOrdered
  <2>3. /\ DOMAIN stored' = DOMAIN stored \cup S
        /\ \A k \in DOMAIN stored' : stored'[k] = IF k \in S THEN entries[k] ELSE stored[k]
    BY <1>0, <2>1, WriteMoves
  <2>4. AreAnswers(stored')
    BY <1>0, <2>3 DEF StoreOrdered, AreAnswers
  <2>5. NotOlder(unsaved, stored')
    BY <1>0, <2>3 DEF StoreOrdered, NotOlder
  <2> QED
    BY <1>0, <2>2, <2>4, <2>5 DEF StoreOrdered, AreAnswers, NotOlder
<1>6. now' \in Nat /\ now <= now'
  <2>1. Tick \/ now' = now
    BY Steps, CallerFrame, StoreFrame DEF Restart, LoadArrives, Ask, Answered, AskFails, vars
  <2>2. CASE Tick
    BY <1>0, <2>2 DEF Tick
  <2> QED
    BY <1>0, <2>1, <2>2
<1>7. CASE LoadFails \/ LoadTimeout
  BY <1>1, <1>6, <1>7 DEF LoadFails, LoadTimeout
<1>8. ASSUME NEW c \in Callers, CallerMoves(c) \/ \E k \in Keys : Ask(c, k)
      PROVE  StoreOrdered'
  BY <1>1, <1>6, <1>8, CallerFrame DEF Ask, storeVars
<1>9. CASE \/ Tick \/ LoadArrives
           \/ \E k \in Keys, refusal \in BOOLEAN : AskFails(k, refusal)
           \/ UNCHANGED vars
  BY <1>1, <1>6, <1>9 DEF Tick, LoadArrives, AskFails, storeVars, vars
<1> QED
  BY <1>2, <1>3, <1>4, <1>5, <1>7, <1>8, <1>9, Steps DEF StoreMoves

LEMMA Start == Init => IInv
<1> SUFFICES ASSUME Init PROVE IInv
  OBVIOUS
<1>1. IsEntry(Absent, 0)
  BY DEF IsEntry, Absent, Entry, Entries, Kinds, Never
<1>2. EntriesTyped
  BY <1>1 DEF Init, EntriesTyped
<1>3. CallersTyped /\ AskersHaveRequests
  BY DEF Init, CallersTyped, Stages, AskersHaveRequests
<1>4. StoreOrdered /\ FailuresKept
  BY DEF Init, StoreOrdered, AreAnswers, NotOlder, FailuresKept, Never
<1> QED
  BY <1>2, <1>3, <1>4 DEF IInv

LEMMA Step == IInv /\ [Next]_vars => IInv'
  BY EntriesStep, CallersStep, StoreStep, FailuresStep, AskersStep DEF IInv

-----------------------------------------------------------------------------
(***************************************************************************)
(* The theorems                                                            *)
(***************************************************************************)
\* Entries carry the date of their answer, saves are in order, failures are remembered and
\* requests are shared: the invariant the rest is proved from.
THEOREM InvariantHolds == Spec => []IInv
  BY Start, Step, PTL DEF Spec

\* A caller that waits for an answer has a request to wait for, however look-ups of one event
\* are shared (gdacs.js:170-174): nobody is forgotten when a request ends.
THEOREM AskersAreAnswered == Spec => []AskersHaveRequests
<1>1. IInv => AskersHaveRequests
  BY DEF IInv
<1> QED
  BY <1>1, InvariantHolds, PTL

\* An answer that was in memory when its refresh began stays until a newer one is there.
THEOREM AnswersSurviveRefresh == Spec => RefreshKeepsAnswer
<1> DEFINE Stays == \A k \in Keys :
             Known(k) /\ (k \in DOMAIN inflight => inflight[k].at = cache[k].at) =>
               Keeps(k) \/ Restart
<1>1. ASSUME IInv, [Next]_vars, NEW k \in Keys, Known(k),
             k \in DOMAIN inflight => inflight[k].at = cache[k].at
      PROVE  Keeps(k) \/ Restart
  <2>0. /\ EntriesTyped /\ CallersTyped /\ now \in Nat /\ IsEntry(cache[k], now)
        /\ cache[k].kind = "answer" /\ now - cache[k].at <= StaleMax /\ cache[k].at \in 0 .. now
    BY <1>1 DEF IInv, EntriesTyped, Known, Usable, IsEntry
  <2>1. CASE cache'[k] = cache[k]
    BY <2>0, <2>1 DEF Keeps
  <2>2. CASE LoadArrives
    BY <2>0, <2>1, <2>2 DEF LoadArrives, Loaded
  <2>3. CASE Answered(k)
    <3>1. cache'[k] = Entry("answer", now, now + Ttl)
      BY <2>0, <2>3, Settled DEF Answered
    <3> QED
      BY <2>0, <3>1 DEF Entry, Keeps
  <2>4. ASSUME NEW refusal \in BOOLEAN, AskFails(k, refusal)
        PROVE  Keeps(k)
    <3>1. k \in DOMAIN inflight /\ IsEntry(inflight[k], now) /\ inflight[k].at = cache[k].at
      BY <1>1, <2>0, <2>4 DEF AskFails, EntriesTyped
    <3>2. inflight[k].kind = "answer"
      BY <2>0, <3>1 DEF IsEntry, Never
    <3>3. Usable(inflight[k])
      BY <2>0, <3>1, <3>2 DEF Usable
    <3>4. cache'[k] = AfterFailure(inflight[k], refusal)
      BY <2>0, <2>4, Settled DEF AskFails
    <3> QED
      BY <2>0, <3>1, <3>2, <3>3, <3>4, Refused DEF Keeps
  <2>5. ASSUME NEW j \in Keys, j # k, Answered(j) \/ \E refusal \in BOOLEAN : AskFails(j, refusal)
        PROVE  cache'[k] = cache[k]
    BY <2>0, <2>5, Settled DEF Answered, AskFails
  <2> QED
    BY <1>1, <2>1, <2>2, <2>3, <2>4, <2>5, Steps, CallerFrame, StoreFrame DEF Tick, Ask, vars
<1>2. IInv /\ [Next]_vars => [Stays]_vars
  BY <1>1
<1> QED
  BY <1>2, InvariantHolds, PTL DEF Spec, RefreshKeepsAnswer

\* After a failure GDACS is not asked about that event again for a while, by whomever.
THEOREM FailuresAreRemembered == Spec => FailureIsRemembered
<1> DEFINE Spared == \A k \in DOMAIN inflight' \ DOMAIN inflight :
             lastFailure[k] = Never \/ now - lastFailure[k] >= FailureTtl
<1>1. ASSUME IInv, [Next]_vars, NEW k \in DOMAIN inflight' \ DOMAIN inflight, lastFailure[k] # Never
      PROVE  now - lastFailure[k] >= FailureTtl
  <2>0. /\ EntriesTyped /\ CallersTyped /\ FailuresKept /\ DOMAIN inflight \subseteq Keys
        /\ EntriesTyped'
    BY <1>1, EntriesStep DEF IInv, EntriesTyped
  <2>1. ~ \E j \in Keys : Answered(j) \/ \E refusal \in BOOLEAN : AskFails(j, refusal)
    BY <1>1, <2>0, Settled DEF Answered, AskFails
  <2>2. PICK c \in Callers, j \in Keys : Ask(c, j)
    BY <1>1, <2>1, Steps, CallerFrame, StoreFrame DEF Tick, Restart, LoadArrives, vars
  <2>3. DOMAIN inflight' \subseteq DOMAIN inflight \cup {j} /\ cache[j].expiresAt <= now
    BY <2>2 DEF Ask
  <2>4. k = j /\ k \in Keys
    BY <1>1, <2>3
  <2>5. /\ cache[k].expiresAt \in Int /\ lastFailure[k] \in Int /\ now \in Nat
        /\ cache[k].expiresAt >= lastFailure[k] + FailureTtl
    BY <1>1, <2>0, <2>4 DEF FailuresKept, EntriesTyped, IsEntry, Entries
  <2> QED
    BY <2>3, <2>4, <2>5, Times
<1>2. IInv /\ [Next]_vars => [Spared]_vars
  BY <1>1
<1> QED
  BY <1>2, InvariantHolds, PTL DEF Spec, FailureIsRemembered

\* No row of the table goes back to an older answer.
THEOREM RowsMoveForward == Spec => StoreMovesForward
<1> DEFINE Forward == \A k \in DOMAIN stored : k \in DOMAIN stored' /\ stored'[k] >= stored[k]
<1>1. ASSUME IInv, [Next]_vars PROVE Forward
  <2>0. StoreOrdered /\ \A k \in DOMAIN stored : stored[k] \in Nat
    BY <1>1 DEF IInv, StoreOrdered, AreAnswers, EntriesTyped
  <2>1. ASSUME NEW entries \in saves, Saved(entries) \/ SaveFails(entries)
        PROVE  Forward
    <3>1. PICK S \in SUBSET DOMAIN entries : Write(entries, S)
      BY <2>1 DEF Saved, SaveFails
    <3> QED
      BY <2>0, <3>1, WriteMoves DEF NotOlder
  <2>2. CASE stored' = stored
    BY <2>0, <2>2
  <2>3. CASE LoadFails \/ LoadTimeout \/ Flush
    BY <2>2, <2>3 DEF LoadFails, LoadTimeout, Flush
  <2>4. CASE StoreMoves
    BY <2>1, <2>3, <2>4 DEF StoreMoves
  <2> QED
    BY <1>1, <2>2, <2>4, Steps, CallerFrame
       DEF Tick, Restart, LoadArrives, Ask, Answered, AskFails, storeVars, vars
<1>2. IInv /\ [Next]_vars => [Forward]_vars
  BY <1>1
<1> QED
  BY <1>2, InvariantHolds, PTL DEF Spec, StoreMovesForward

\* What an event is given is not older than StaleMax when it is given, whoever finds it.
THEOREM AnswersServedAreFresh == Spec => ServedIsFresh
<1> DEFINE Fresh == \A c \in Callers, k \in Keys :
             shown'[c][k] # shown[c][k] /\ shown'[c][k].what = "answer" =>
               now - shown'[c][k].at <= StaleMax
<1>1. ASSUME NEW entry, Shown(entry).what = "answer"
      PROVE  now - Shown(entry).at <= StaleMax
  <2>1. entry.kind = "answer" /\ Usable(entry)
    BY <1>1 DEF Shown
  <2> QED
    BY <2>1 DEF Shown, Usable
<1>2. ASSUME IInv, [Next]_vars, NEW c \in Callers, NEW k \in Keys, shown'[c][k] # shown[c][k]
      PROVE  shown'[c][k] = Untouched \/ \E entry : shown'[c][k] = Shown(entry)
  <2>0. EntriesTyped /\ CallersTyped
    BY <1>2 DEF IInv
  <2>1. ASSUME NEW j \in Keys, NEW entry, Settle(j, entry)
        PROVE  shown'[c][k] = Shown(entry)
    <3>1. shown'[c][k] \in {shown[c][k], Shown(entry)}
      BY <2>0, <2>1, SettledCallers
    <3> QED
      BY <1>2, <3>1
  <2>2. CASE Restart
    BY <2>2 DEF Restart
  <2>3. ASSUME NEW d \in Callers, CallerMoves(d)
        PROVE  shown'[c][k] = Untouched \/ \E entry : shown'[c][k] = Shown(entry)
    <3>1. CASE StartFeed(d) \/ StartJob(d) \/ Attach(d) \/ FetchFails(d)
      BY <1>2, <2>0, <3>1 DEF StartFeed, StartJob, Attach, FetchFails, CallersTyped
    <3>2. ASSUME NEW j \in Keys, LookUp(d, j) \/ Hit(d, j)
          PROVE  \E entry : shown'[c][k] = Shown(entry)
      BY <1>2, <2>0, <3>2 DEF LookUp, Hit, CallersTyped
    <3> QED
      BY <2>3, <3>1, <3>2 DEF CallerMoves
  <2>4. shown' # shown
    BY <1>2
  <2> QED
    BY <1>2, <2>1, <2>2, <2>3, <2>4, Steps, StoreFrame
       DEF Tick, LoadArrives, Ask, Answered, AskFails, vars, callerVars
<1>3. Untouched.what # "answer"
  BY DEF Untouched
<1>4. IInv /\ [Next]_vars => [Fresh]_vars
  BY <1>1, <1>2, <1>3
<1> QED
  BY <1>4, InvariantHolds, PTL DEF Spec, ServedIsFresh
=============================================================================
