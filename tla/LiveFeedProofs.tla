--------------------------- MODULE LiveFeedProofs ---------------------------
(***************************************************************************)
(* Proofs about LiveFeed, for any sources, any number of loads and any     *)
(* delays in the order of the code's: what an answer says of its sources   *)
(* is true, a source that was asked is left alone, and a page that loads   *)
(* has a load under way.                                                   *)
(***************************************************************************)
EXTENDS LiveFeed, TLAPS

USE DelaysAssumption, OrderAssumption, FreshAssumption

States == {"cache", "backoff", "pending", "live", "error"}
Slot == [updatedAt : Int, failedAt : Int, fetching : Int]
Unavailable == [stage |-> "unavailable"]
Waiting == [stage : {"waiting"}, t : Int, states : [Sources -> States]]
Answered ==
  [stage : {"answered"}, at : Int, status : [Sources -> {"ok", "stale", "error"}],
   stale : BOOLEAN, updatedAt : [Sources -> Int]]
Call == {Idle, Sent, Unavailable} \cup Waiting \cup Answered

TypeOK ==
  /\ now \in Nat
  /\ source \in [Sources -> Slot]
  /\ calls \in [Calls -> Call]
  /\ started \in [Sources -> Int]

\* A source: its data are not newer than the fetch under way, which ends in time, and a
\* source at rest is dated by when it was asked.
SlotOK(src, asked, time) ==
  \A s \in Sources :
    /\ src[s].updatedAt <= time /\ src[s].fetching <= time
    /\ src[s].fetching # Never =>
         /\ src[s].updatedAt <= src[s].fetching
         /\ time <= src[s].fetching + MaxFetch
         /\ asked[s] = src[s].fetching
    /\ src[s].fetching = Never /\ asked[s] # Never =>
         \/ src[s].failedAt = asked[s]
         \/ src[s].failedAt = Never /\ src[s].updatedAt = asked[s]

\* What a request knows of a source that it does not wait for, or no longer.
Brought(src, t, states) ==
  \A s \in Sources :
    /\ states[s] = "cache" => src[s].updatedAt # Never /\ t - src[s].updatedAt <= CacheFor
    /\ states[s] = "live" => src[s].updatedAt # Never /\ t - src[s].updatedAt <= MaxFetch

\* A request that waits does so for a fetch that was under way when it came in.
WaitOK(src, call, time) ==
  call.stage = "waiting" =>
    /\ call.t <= time
    /\ Brought(src, call.t, call.states)
    /\ \E s \in Sources : call.states[s] = "pending"
    /\ \A s \in Sources :
         call.states[s] = "pending" => src[s].fetching # Never /\ src[s].fetching <= call.t

Honest(call) ==
  call.stage = "answered" =>
    LET Served == {s \in Sources : call.status[s] # "error"}
    IN  /\ \A s \in Served :
             /\ call.status[s] = "ok" => call.at - call.updatedAt[s] <= CacheFor + MaxFetch
             /\ ~ call.stale => call.at - call.updatedAt[s] <= StaleMax + MaxFetch
        /\ call.stale = (\A s \in Sources : call.status[s] # "ok")

FeedInv ==
  /\ TypeOK
  /\ SlotOK(source, started, now)
  /\ \A c \in Calls : WaitOK(source, calls[c], now) /\ Honest(calls[c])

-----------------------------------------------------------------------------
\* The stages tell the kinds of calls apart.
LEMMA Stages ==
  ASSUME NEW call \in Call
  PROVE  /\ call.stage = "waiting" => call \in Waiting
         /\ call.stage = "answered" => call \in Answered
BY DEF Call, Idle, Sent, Unavailable, Waiting, Answered

LEMMA RestingIsOK ==
  ASSUME NEW call \in {Idle, Sent, Unavailable}, NEW src, NEW time
  PROVE  call \in Call /\ WaitOK(src, call, time) /\ Honest(call)
<1>1. call.stage # "waiting" /\ call.stage # "answered"
  BY DEF Idle, Sent, Unavailable
<1>2. call \in Call
  BY DEF Call
<1>3. WaitOK(src, call, time)
  BY <1>1 DEF WaitOK
<1>4. Honest(call)
  BY <1>1, Zenon DEF Honest
<1> QED
  BY <1>2, <1>3, <1>4

\* An answer is honest when every source was brought up to date, or was not, at most
\* MaxFetch ago.
LEMMA AnswerOK ==
  ASSUME now \in Nat, NEW src \in [Sources -> Slot], NEW t \in Int,
         NEW states \in [Sources -> States], t <= now, now <= t + MaxFetch,
         \A s \in Sources : states[s] # "pending", Brought(src, t, states)
  PROVE  /\ Answer(src, t, states) \in Call
         /\ WaitOK(src, Answer(src, t, states), now)
         /\ Honest(Answer(src, t, states))
<1> DEFINE status == [s \in Sources |-> Verdict(src, t, states, s)]
           served == {s \in Sources : status[s] # "error"}
           stale == \A s \in Sources : ~ Ok(states[s])
           dates == [s \in Sources |-> IF s \in served THEN src[s].updatedAt ELSE Never]
           full == [stage |-> "answered", at |-> now, status |-> status, stale |-> stale,
                    updatedAt |-> dates]
<1>1. ASSUME NEW s \in Sources
      PROVE  /\ Verdict(src, t, states, s) \in {"ok", "stale", "error"}
             /\ Verdict(src, t, states, s) = "ok" <=> Ok(states[s])
             /\ Verdict(src, t, states, s) # "error" /\ ~ stale =>
                  now - src[s].updatedAt <= StaleMax + MaxFetch
             /\ Verdict(src, t, states, s) = "ok" =>
                  now - src[s].updatedAt <= CacheFor + MaxFetch
             /\ src[s].updatedAt \in Int
  <2>0. src[s].updatedAt \in Int /\ MaxFetch \in Nat /\ CacheFor \in Nat /\ StaleMax \in Nat
    BY DEF Slot
  <2>1. Ok(states[s]) => now - src[s].updatedAt <= CacheFor + MaxFetch
    BY <2>0 DEF Ok, Brought
  <2>2. CASE Ok(states[s])
    BY <2>0, <2>1, <2>2 DEF Verdict
  <2>3. CASE ~ Ok(states[s]) /\ (\/ src[s].updatedAt = Never
                                 \/ ~ stale /\ t - src[s].updatedAt > StaleMax)
    BY <2>0, <2>3 DEF Verdict
  <2>4. CASE ~ Ok(states[s]) /\ ~ (\/ src[s].updatedAt = Never
                                   \/ ~ stale /\ t - src[s].updatedAt > StaleMax)
    BY <2>0, <2>4 DEF Verdict
  <2> QED
    BY <2>2, <2>3, <2>4
<1>2. status \in [Sources -> {"ok", "stale", "error"}] /\ dates \in [Sources -> Int] /\ stale \in BOOLEAN
  BY <1>1 DEF Never
<1>3. full \in Answered /\ full \in Call
  BY <1>2 DEF Answered, Call
<1>4. WaitOK(src, full, now)
  BY DEF WaitOK
<1>5. Honest(full)
  <2>1. \A s \in Sources : status[s] # "error" =>
          /\ status[s] = "ok" => now - dates[s] <= CacheFor + MaxFetch
          /\ ~ stale => now - dates[s] <= StaleMax + MaxFetch
    BY <1>1
  <2>2. stale <=> (\A s \in Sources : status[s] # "ok")
    BY <1>1
  <2> HIDE DEF status, dates, stale
  <2> QED
    BY <1>2, <2>1, <2>2 DEF Honest
<1>6. Answer(src, t, states) = IF served = {} THEN Unavailable ELSE full
  BY DEF Answer, Unavailable
<1> HIDE DEF full, served
<1> QED
  BY <1>3, <1>4, <1>5, <1>6, RestingIsOK

\* A request that goes on: it waits for another source, or is answered.
LEMMA SettledOK ==
  ASSUME now \in Nat, NEW src \in [Sources -> Slot], NEW t \in Int,
         NEW states \in [Sources -> States], t <= now, now <= t + MaxFetch,
         Brought(src, t, states),
         \A s \in Sources :
           states[s] = "pending" => src[s].fetching # Never /\ src[s].fetching <= t
  PROVE  LET next == Settled(src, [stage |-> "waiting", t |-> t, states |-> states])
         IN  next \in Call /\ WaitOK(src, next, now) /\ Honest(next)
<1> DEFINE w == [stage |-> "waiting", t |-> t, states |-> states]
<1>1. w.t = t /\ w.states = states /\ w.stage = "waiting"
  OBVIOUS
<1>2. w \in Waiting /\ w \in Call
  BY DEF Waiting, Call
<1> HIDE DEF w
<1>3. CASE \E s \in Sources : states[s] = "pending"
  <2>1. WaitOK(src, w, now)
    BY <1>1, <1>3 DEF WaitOK
  <2>2. Honest(w)
    BY <1>1, Zenon DEF Honest
  <2>3. Settled(src, w) = w
    BY <1>1, <1>3 DEF Settled
  <2> QED
    BY <1>2, <2>1, <2>2, <2>3 DEF w
<1>4. CASE ~ \E s \in Sources : states[s] = "pending"
  <2>1. Settled(src, w) = Answer(src, t, states)
    BY <1>1, <1>4 DEF Settled
  <2> QED
    BY <1>4, <2>1, AnswerOK DEF w
<1> QED
  BY <1>3, <1>4

-----------------------------------------------------------------------------
\* A request that waits has waited for at most one fetch.
LEMMA WaitsBriefly ==
  ASSUME FeedInv, NEW c \in Calls, calls[c].stage = "waiting"
  PROVE  /\ calls[c] \in Waiting /\ calls[c].t \in Int /\ calls[c].states \in [Sources -> States]
         /\ calls[c].t <= now /\ now <= calls[c].t + MaxFetch
<1>1. calls[c] \in Waiting
  BY Stages DEF FeedInv, TypeOK
<1>2. calls[c].t \in Int /\ calls[c].states \in [Sources -> States]
  BY <1>1 DEF Waiting
<1>3. WaitOK(source, calls[c], now)
  BY DEF FeedInv
<1>4. PICK s \in Sources : source[s].fetching # Never /\ source[s].fetching <= calls[c].t
  BY <1>3 DEF WaitOK
<1>5. now <= source[s].fetching + MaxFetch
  BY <1>4 DEF FeedInv, SlotOK
<1>6. source[s].fetching \in Int /\ MaxFetch \in Nat /\ now \in Nat
  BY DEF FeedInv, TypeOK, Slot
<1>7. now <= calls[c].t + MaxFetch
  BY <1>2, <1>4, <1>5, <1>6
<1> QED
  BY <1>1, <1>2, <1>3, <1>7 DEF WaitOK

LEMMA InitOK ==
  ASSUME FeedInit
  PROVE  FeedInv
<1>1. now = 0 /\ source = [s \in Sources |-> NoData] /\ calls = [c \in Calls |-> Idle]
      /\ started = [s \in Sources |-> Never]
  BY DEF FeedInit, Init
<1>2. TypeOK
  BY <1>1 DEF TypeOK, Slot, NoData, Never, Call
<1>3. SlotOK(source, started, now)
  BY <1>1 DEF SlotOK, NoData, Never
<1>4. \A c \in Calls : calls[c] = Idle
  BY <1>1
<1>5. \A c \in Calls : WaitOK(source, calls[c], now) /\ Honest(calls[c])
  BY <1>4, RestingIsOK
<1> QED
  BY <1>2, <1>3, <1>5 DEF FeedInv

\* The clock waits for the time limits of the fetches.
LEMMA TickOK ==
  ASSUME FeedInv, Tick
  PROVE  FeedInv'
<1>1. now' = now + 1 /\ source' = source /\ calls' = calls /\ started' = started
  BY DEF Tick
<1>2. TypeOK'
  BY <1>1 DEF FeedInv, TypeOK
<1>3. SlotOK(source, started, now)'
  BY <1>1 DEF FeedInv, TypeOK, SlotOK, Slot, Tick
<1>4. ASSUME NEW c \in Calls PROVE WaitOK(source', calls'[c], now') /\ Honest(calls'[c])
  <2>1. WaitOK(source, calls[c], now) /\ Honest(calls[c])
    BY DEF FeedInv
  <2>2. calls[c].stage = "waiting" => calls[c].t \in Int
    BY WaitsBriefly
  <2>3. now \in Nat
    BY DEF FeedInv, TypeOK
  <2> QED
    BY <1>1, <2>1, <2>2, <2>3 DEF WaitOK
<1> QED
  BY <1>2, <1>3, <1>4 DEF FeedInv

\* The browser sends a call or is done with one.
LEMMA ClientOK ==
  ASSUME FeedInv, UNCHANGED <<now, source, started>>,
         \/ calls' = calls
         \/ \E c \in Calls : \E rest \in {Idle, Sent} : calls' = [calls EXCEPT ![c] = rest]
  PROVE  FeedInv'
<1>1. \A c \in Calls : calls'[c] = calls[c] \/ calls'[c] \in {Idle, Sent}
  BY DEF FeedInv, TypeOK
<1>2. calls' \in [Calls -> Call]
  BY DEF FeedInv, TypeOK, Call
<1>3. TypeOK' /\ SlotOK(source, started, now)'
  BY <1>2 DEF FeedInv, TypeOK, SlotOK
<1>4. ASSUME NEW c \in Calls PROVE WaitOK(source', calls'[c], now') /\ Honest(calls'[c])
  <2>1. CASE calls'[c] = calls[c]
    BY <2>1 DEF FeedInv
  <2>2. CASE calls'[c] \in {Idle, Sent}
    BY <2>2, RestingIsOK
  <2> QED
    BY <1>1, <2>1, <2>2
<1> QED
  BY <1>3, <1>4 DEF FeedInv

\* A request comes in: it starts or joins the fetches of the sources it waits for.
LEMMA GetFeedOK ==
  ASSUME FeedInv, NEW c \in Calls, GetFeed(c)
  PROVE  FeedInv'
<1> DEFINE states == [s \in Sources |-> Refresh(s)]
           asked == {s \in Sources : states[s] = "pending" /\ source[s].fetching = Never}
           src == [s \in Sources |->
                     IF s \in asked THEN [source[s] EXCEPT !.fetching = now] ELSE source[s]]
           next == Settled(src, [stage |-> "waiting", t |-> now, states |-> states])
<1>1. /\ source' = src /\ calls' = [calls EXCEPT ![c] = next] /\ now' = now
      /\ started' = [s \in Sources |-> IF s \in asked THEN now ELSE started[s]]
  BY DEF GetFeed
<1>2. now \in Nat /\ started \in [Sources -> Int] /\ calls \in [Calls -> Call]
      /\ \A s \in Sources : source[s] \in Slot
  BY DEF FeedInv, TypeOK
<1>3. src \in [Sources -> Slot] /\ started' \in [Sources -> Int]
  BY <1>1, <1>2 DEF Slot
<1>4. \A s \in Sources :
        /\ states[s] \in {"cache", "backoff", "pending"}
        /\ states[s] = "cache" => IsFresh(s)
        /\ src[s].updatedAt = source[s].updatedAt /\ src[s].failedAt = source[s].failedAt
        /\ src[s].fetching = IF s \in asked THEN now ELSE source[s].fetching
  BY <1>2 DEF Refresh, Slot
<1>5. states \in [Sources -> States]
  BY <1>4 DEF States
<1>6. Brought(src, now, states)
  BY <1>2, <1>4 DEF Brought, IsFresh, Slot
<1>7. SlotOK(source, started, now)
  BY DEF FeedInv
<1>8. \A s \in Sources :
        states[s] = "pending" => src[s].fetching # Never /\ src[s].fetching <= now
  BY <1>2, <1>4, <1>7 DEF SlotOK, Never
<1>9. next \in Call /\ WaitOK(src, next, now) /\ Honest(next)
  <2>1. now <= now /\ now <= now + MaxFetch /\ now \in Int
    BY <1>2
  <2> HIDE DEF src, states
  <2> QED
    BY <1>2, <1>3, <1>5, <1>6, <1>8, <2>1, SettledOK
<1>10. SlotOK(source', started', now')
  <2>1. ASSUME NEW s \in asked
        PROVE  src[s].fetching = now /\ started'[s] = now /\ src[s].updatedAt <= now
    BY <1>1, <1>4, <1>7, <2>1 DEF SlotOK
  <2>2. ASSUME NEW s \in Sources \ asked
        PROVE  src[s] = source[s] /\ started'[s] = started[s]
    BY <1>1, <2>2
  <2>3. now \in Int /\ now <= now /\ now <= now + MaxFetch /\ now # Never
    BY <1>2 DEF Never
  <2> HIDE DEF asked, src
  <2>4. SlotOK(src, started', now)
    <3> SUFFICES ASSUME NEW s \in Sources
                 PROVE  /\ src[s].updatedAt <= now /\ src[s].fetching <= now
                        /\ src[s].fetching # Never =>
                             /\ src[s].updatedAt <= src[s].fetching
                             /\ now <= src[s].fetching + MaxFetch
                             /\ started'[s] = src[s].fetching
                        /\ src[s].fetching = Never /\ started'[s] # Never =>
                             \/ src[s].failedAt = started'[s]
                             \/ src[s].failedAt = Never /\ src[s].updatedAt = started'[s]
      BY DEF SlotOK
    <3>1. CASE s \in asked
      BY <2>1, <2>3, <3>1
    <3>2. CASE s \notin asked
      BY <1>7, <2>2, <3>2 DEF SlotOK
    <3> QED
      BY <3>1, <3>2
  <2> QED
    BY <1>1, <2>4
<1>11. ASSUME NEW d \in Calls, d # c
       PROVE  WaitOK(src, calls[d], now)
  <2>1. WaitOK(source, calls[d], now)
    BY DEF FeedInv
  <2>2. calls[d].stage = "waiting" => Brought(src, calls[d].t, calls[d].states)
    BY <1>4, <2>1 DEF WaitOK, Brought
  <2>3. \A s \in Sources : source[s].fetching # Never => src[s].fetching = source[s].fetching
    BY <1>4
  <2> HIDE DEF src
  <2> QED
    BY <2>1, <2>2, <2>3 DEF WaitOK
<1> HIDE DEF next, src
<1>12. calls'[c] = next /\ \A d \in Calls : d # c => calls'[d] = calls[d]
  BY <1>1, <1>2
<1>13. TypeOK'
  BY <1>1, <1>2, <1>3, <1>9 DEF TypeOK
<1>14. ASSUME NEW d \in Calls PROVE WaitOK(source', calls'[d], now') /\ Honest(calls'[d])
  BY <1>1, <1>9, <1>11, <1>12 DEF FeedInv
<1> QED
  BY <1>10, <1>13, <1>14 DEF FeedInv

\* A fetch has ended, and everyone who waited for it goes on.
LEMMA ResolveOK ==
  ASSUME FeedInv, NEW s \in Sources, source[s].fetching # Never, NEW src \in [Sources -> Slot],
         NEW outcome \in {"live", "error"}, Resolve(s, src, outcome),
         src[s].fetching = Never, \A r \in Sources \ {s} : src[r] = source[r],
         outcome = "live" => src[s].updatedAt = source[s].fetching,
         outcome = "error" => src[s].updatedAt = source[s].updatedAt,
         SlotOK(src, started, now)
  PROVE  FeedInv'
<1>1. source' = src /\ now' = now /\ started' = started
  BY DEF Resolve
<1>2. now \in Nat /\ source[s] \in Slot /\ calls \in [Calls -> Call]
  BY DEF FeedInv, TypeOK
<1>3. source[s].updatedAt <= src[s].updatedAt /\ source[s].updatedAt \in Int
      /\ source[s].fetching \in Int /\ src[s].updatedAt \in Int
      /\ now <= source[s].fetching + MaxFetch
      /\ (source[s].updatedAt # Never => src[s].updatedAt # Never)
  BY <1>2 DEF FeedInv, SlotOK, Slot, Never
<1>4. ASSUME NEW c \in Calls
      PROVE calls'[c] \in Call /\ WaitOK(src, calls'[c], now) /\ Honest(calls'[c])
  <2>1. CASE ~ (calls[c].stage = "waiting" /\ calls[c].states[s] = "pending")
    <3>1. calls'[c] = calls[c] /\ calls[c] \in Call
      BY <1>2, <2>1 DEF Resolve
    <3>2. WaitOK(source, calls[c], now) /\ Honest(calls[c])
      BY DEF FeedInv
    <3>3. CASE calls[c].stage # "waiting"
      BY <3>1, <3>2, <3>3 DEF WaitOK
    <3>4. CASE calls[c].stage = "waiting"
      <4>1. calls[c].t \in Int
        BY <3>4, WaitsBriefly
      <4>2. Brought(src, calls[c].t, calls[c].states)
        <5>1. Brought(source, calls[c].t, calls[c].states)
          BY <3>2, <3>4 DEF WaitOK
        <5>2. \A r \in Sources : src[r].updatedAt \in Int /\ source[r].updatedAt \in Int
                /\ source[r].updatedAt <= src[r].updatedAt
                /\ (source[r].updatedAt # Never => src[r].updatedAt # Never)
          BY <1>3 DEF Slot
        <5>3. CacheFor \in Nat /\ MaxFetch \in Nat
          OBVIOUS
        <5> QED
          BY <4>1, <5>1, <5>2, <5>3 DEF Brought
      <4>3. \A r \in Sources : calls[c].states[r] = "pending" => src[r] = source[r]
        BY <2>1, <3>4
      <4> QED
        BY <3>1, <3>2, <4>2, <4>3 DEF WaitOK
    <3> QED
      BY <3>3, <3>4
  <2>2. CASE calls[c].stage = "waiting" /\ calls[c].states[s] = "pending"
    <3> DEFINE t == calls[c].t
               states == [calls[c].states EXCEPT ![s] = outcome]
    <3>1. /\ calls[c] \in Waiting /\ t \in Int /\ calls[c].states \in [Sources -> States]
          /\ t <= now /\ now <= t + MaxFetch
      BY <2>2, WaitsBriefly
    <3>2. WaitOK(source, calls[c], now)
      BY DEF FeedInv
    <3>3. states \in [Sources -> States] /\ states[s] = outcome
          /\ \A r \in Sources \ {s} : states[r] = calls[c].states[r]
      BY <3>1 DEF States
    <3>4. [calls[c] EXCEPT !.states[s] = outcome]
            = [stage |-> "waiting", t |-> t, states |-> states]
      BY <3>1 DEF Waiting
    <3>5. calls'[c] = Settled(src, [stage |-> "waiting", t |-> t, states |-> states])
      BY <1>2, <2>2, <3>4 DEF Resolve
    <3>6. Brought(src, t, states)
      <4>1. Brought(source, t, calls[c].states) /\ source[s].fetching <= t
        BY <2>2, <3>2 DEF WaitOK
      <4>2. \A r \in Sources \ {s} :
              /\ states[r] = "cache" => src[r].updatedAt # Never /\ t - src[r].updatedAt <= CacheFor
              /\ states[r] = "live" => src[r].updatedAt # Never /\ t - src[r].updatedAt <= MaxFetch
        BY <3>3, <4>1 DEF Brought
      <4>3. outcome = "live" => src[s].updatedAt # Never /\ t - src[s].updatedAt <= MaxFetch
        BY <1>2, <1>3, <3>1
      <4> QED
        BY <3>3, <4>2, <4>3 DEF Brought
    <3>7. \A r \in Sources :
            states[r] = "pending" => src[r].fetching # Never /\ src[r].fetching <= t
      BY <3>2, <3>3, <2>2 DEF WaitOK
    <3> HIDE DEF states, t
    <3> QED
      BY <1>2, <3>1, <3>3, <3>5, <3>6, <3>7, SettledOK
  <2> QED
    BY <2>1, <2>2
<1>5. TypeOK'
  <2>1. calls' \in [Calls -> Call]
    <3>1. \E G \in [Calls -> Call] : calls' = G
      <4> DEFINE G == [c \in Calls |-> calls'[c]]
      <4>1. calls' = G
        BY DEF Resolve
      <4>2. G \in [Calls -> Call]
        BY <1>4
      <4> QED
        BY <4>1, <4>2
    <3> QED
      BY <3>1
  <2> QED
    BY <1>1, <2>1 DEF FeedInv, TypeOK
<1> QED
  BY <1>1, <1>4, <1>5 DEF FeedInv

LEMMA FetchingOK ==
  ASSUME FeedInv, NEW s \in Sources, Fetching(s)
  PROVE  FeedInv'
<1>1. now \in Nat /\ source \in [Sources -> Slot] /\ SlotOK(source, started, now)
      /\ source[s].fetching # Never
  BY DEF FeedInv, TypeOK, Fetching, FetchSucceeds, FetchFails
<1>2. CASE FetchSucceeds(s)
  <2> DEFINE src == [source EXCEPT ![s] = [updatedAt |-> @.fetching, failedAt |-> Never,
                                           fetching |-> Never]]
  <2>1. Resolve(s, src, "live")
    BY <1>2 DEF FetchSucceeds
  <2>2. src \in [Sources -> Slot] /\ src[s].updatedAt = source[s].fetching
        /\ src[s].fetching = Never /\ src[s].failedAt = Never
        /\ \A r \in Sources \ {s} : src[r] = source[r]
    BY <1>1 DEF Slot, Never
  <2> HIDE DEF src
  <2>3. SlotOK(src, started, now)
    BY <1>1, <2>2 DEF SlotOK, Slot, Never
  <2> QED
    BY <1>1, <2>1, <2>2, <2>3, ResolveOK
<1>3. CASE FetchFails(s)
  <2> DEFINE src == [source EXCEPT ![s].failedAt = source[s].fetching, ![s].fetching = Never]
  <2>1. Resolve(s, src, "error")
    BY <1>3 DEF FetchFails
  <2>2. src \in [Sources -> Slot] /\ src[s].updatedAt = source[s].updatedAt
        /\ src[s].fetching = Never /\ src[s].failedAt = source[s].fetching
        /\ \A r \in Sources \ {s} : src[r] = source[r]
    <3>1. src[s] = [source[s] EXCEPT !.failedAt = source[s].fetching, !.fetching = Never]
          /\ \A r \in Sources \ {s} : src[r] = source[r]
      BY <1>1
    <3>2. source[s] \in Slot /\ src[s] \in Slot
      <4>1. source[s] \in Slot /\ source[s].fetching \in Int /\ Never \in Int
        BY <1>1 DEF Slot, Never
      <4>2. [source[s] EXCEPT !.failedAt = source[s].fetching] \in Slot
        BY <4>1 DEF Slot
      <4>3. [[source[s] EXCEPT !.failedAt = source[s].fetching] EXCEPT !.fetching = Never] \in Slot
        BY <4>1, <4>2 DEF Slot
      <4> QED
        BY <3>1, <4>1, <4>3
    <3>3. src[s].updatedAt = source[s].updatedAt /\ src[s].fetching = Never
          /\ src[s].failedAt = source[s].fetching
      BY <3>1, <3>2 DEF Slot
    <3>4. src \in [Sources -> Slot]
      BY <1>1, <3>2
    <3> QED
      BY <3>1, <3>3, <3>4
  <2> HIDE DEF src
  <2>3. SlotOK(src, started, now)
    BY <1>1, <2>2 DEF SlotOK, Slot, Never
  <2> QED
    BY <1>1, <2>1, <2>2, <2>3, ResolveOK
<1> QED
  BY <1>2, <1>3 DEF Fetching

\* What a step of the browser does to the calls.
LEMMA ClientCalls ==
  ASSUME Client!ClientNext
  PROVE  /\ now' = now
         /\ \/ calls' = calls
            \/ \E c \in Calls : \E rest \in {Idle, Sent} : calls' = [calls EXCEPT ![c] = rest]
BY DEF Client!ClientNext, Client!Mount, Client!MountEffect, Client!Unmount, Client!TryAgain, Client!Drop,
       Client!Receive, Client!Fail, Client!Load, Client!End, Client!Idle, Client!Sent, Idle, Sent

LEMMA StepOK ==
  ASSUME FeedInv, [FeedNext]_allVars
  PROVE  FeedInv'
<1>1. CASE Tick
  BY <1>1, TickOK
<1>2. CASE \E c \in Calls : GetFeed(c)
  BY <1>2, GetFeedOK
<1>3. CASE \E s \in Sources : Fetching(s)
  BY <1>3, FetchingOK
<1>4. CASE Client!ClientNext /\ UNCHANGED <<source, started>>
  BY <1>4, ClientCalls, ClientOK
<1>5. CASE UNCHANGED allVars
  BY <1>5, ClientOK DEF allVars
<1> QED
  BY <1>1, <1>2, <1>3, <1>4, <1>5 DEF FeedNext, Next

\* The types, and what is kept of sources, waiting calls and answers, at every step
\* (feed.service.js:86-135, 203-253).
THEOREM FeedInvariant == FeedSpec => []FeedInv
BY InitOK, StepOK, PTL DEF FeedSpec

\* What an answer says of a source is true of the data it serves, whatever the delays
\* (feed.service.js:203-222, 238-253).
THEOREM AnswersAreHonest == FeedSpec => []AnswerIsHonest
<1>1. FeedInv => AnswerIsHonest
  BY DEF FeedInv, AnswerIsHonest, Honest
<1> QED
  BY <1>1, FeedInvariant, PTL
-----------------------------------------------------------------------------
\* A source is asked again only after the delay (feed.service.js:136-176): one that
\* answered is dated by when it was asked, and so is a failure.
LEMMA AskedLate ==
  ASSUME FeedInv, NEW c \in Calls, GetFeed(c), NEW s \in Sources,
         source[s].fetching = Never, source'[s].fetching # Never, started[s] # Never
  PROVE  now - started[s] >= IF source[s].updatedAt # Never THEN Retry ELSE ColdRetry
<1>1. source[s] \in Slot /\ now \in Nat /\ started[s] \in Int
  BY DEF FeedInv, TypeOK
<1>2. \/ source[s].failedAt = started[s]
      \/ source[s].failedAt = Never /\ source[s].updatedAt = started[s]
  BY DEF FeedInv, SlotOK
<1>3. Refresh(s) = "pending"
  BY DEF GetFeed
<1>4. ~ IsFresh(s) /\ ~ InRetryBackoff(s)
  BY <1>3 DEF Refresh
<1>5. CASE source[s].failedAt = started[s]
  BY <1>1, <1>4, <1>5 DEF InRetryBackoff, Slot
<1>6. CASE source[s].failedAt = Never /\ source[s].updatedAt = started[s]
  BY <1>1, <1>4, <1>6 DEF IsFresh, Slot
<1> QED
  BY <1>2, <1>5, <1>6

\* However many loads there are, a source is left alone after it was asked.
THEOREM SourcesAreLeftAlone == FeedSpec => SourcesAreSpared
<1> DEFINE Spared ==
      \A s \in Sources :
        source[s].fetching = Never /\ source'[s].fetching # Never /\ started[s] # Never =>
          now - started[s] >= IF source[s].updatedAt # Never THEN Retry ELSE ColdRetry
<1>1. ASSUME FeedInv, [FeedNext]_allVars
      PROVE  [Spared]_allVars
  <2>1. CASE \E c \in Calls : GetFeed(c)
    BY <1>1, <2>1, AskedLate
  <2>2. CASE \E s \in Sources : Fetching(s)
    <3>1. PICK r \in Sources : Fetching(r)
      BY <2>2
    <3>2. source'[r].fetching = Never /\ \A s \in Sources \ {r} : source'[s] = source[s]
      BY <1>1, <3>1 DEF Fetching, FetchSucceeds, FetchFails, Resolve, FeedInv, TypeOK, Slot
    <3> QED
      BY <3>2
  <2>3. CASE Tick \/ UNCHANGED <<source, started>>
    BY <2>3 DEF Tick
  <2>4. CASE UNCHANGED allVars
    BY <2>4
  <2> QED
    BY <1>1, <2>1, <2>2, <2>3, <2>4 DEF FeedNext, Next
<1> QED
  BY <1>1, FeedInvariant, PTL DEF FeedSpec, SourcesAreSpared

-----------------------------------------------------------------------------
Kinds == {"none", "mount", "again", "aborted", "orphan"}
LoadInv == loads \in [Calls -> Kinds] /\ SkeletonHasLoad

\* A load that is made for a page ends its skeleton.
LEMMA PageStep ==
  ASSUME FeedInv, LoadInv, Client!ClientNext
  PROVE  LoadInv'
<1> USE DEF LoadInv, SkeletonHasLoad, Client!Shows, LoadIsMade
<1>1. loads \in [Calls -> Kinds]
  OBVIOUS
<1>2. ASSUME NEW c \in Calls, NEW for \in {"mount", "again"}, Client!Load(c, for)
      PROVE  LoadInv'
  BY <1>1, <1>2 DEF Client!Load, Kinds
<1>3. CASE Client!Mount
  BY <1>1, <1>3 DEF Client!Mount
<1>9. CASE Client!MountEffect
  <2>1. CASE /\ Client!IsFeedFresh
             /\ screen' = [screen EXCEPT !.effect = "skips"]
             /\ UNCHANGED <<cached, loads>>
    <3>1. Client!HasCache'
      BY <2>1 DEF Client!IsFeedFresh, Client!HasCache
    <3>2. screen'.effect = "skips" \/ screen' = screen
      BY <2>1
    <3> QED
      BY <1>1, <2>1, <3>1, <3>2
  <2>2. CASE \E c \in Calls : Client!Load(c, "mount")
    BY <1>2, <2>2
  <2> QED
    BY <1>9, <2>1, <2>2 DEF Client!MountEffect
<1>4. CASE Client!Unmount
  BY <1>1, <1>4 DEF Client!Unmount, Client!NoPage, Kinds
<1>5. CASE Client!TryAgain
  BY <1>2, <1>5 DEF Client!TryAgain
<1>6. ASSUME NEW c \in Calls, Client!End(c), loads[c] \in {"aborted", "orphan"}, screen' = screen,
             Client!HasCache => Client!HasCache'
      PROVE  LoadInv'
  BY <1>1, <1>6 DEF Client!End, Kinds
<1>7. ASSUME NEW c \in Calls, Client!End(c), ~ Client!Shows("loading")'
      PROVE  LoadInv'
  BY <1>1, <1>7 DEF Client!End, Kinds
<1>8. ASSUME NEW c \in Calls, Client!Drop(c) \/ Client!Receive(c) \/ Client!Fail(c)
      PROVE  LoadInv'
  <2>1. CASE loads[c] \in {"aborted", "orphan"}
    <3>1. ASSUME Client!Receive(c)
          PROVE  Client!HasCache'
      <4>1. cached' = [feed |-> Client!Feed(calls[c]), fetchedAt |-> now] /\ now \in Nat
        BY <3>1 DEF Client!Receive, FeedInv, TypeOK
      <4>2. cached'.fetchedAt # -1
        BY <4>1
      <4> QED
        BY <4>2 DEF Client!HasCache, Client!NoCache
    <3> QED
      BY <1>6, <1>8, <2>1, <3>1 DEF Client!Drop, Client!Receive, Client!Fail, Client!HasCache
  <2>2. CASE loads[c] \notin {"aborted", "orphan"}
    <3>1. Client!End(c) /\ screen'.phase \in {"ready", "error"}
      BY <1>8, <2>2 DEF Client!Drop, Client!Receive, Client!Fail
    <3> QED
      BY <1>7, <3>1
  <2> QED
    BY <2>1, <2>2
<1> QED
  BY <1>3, <1>4, <1>5, <1>8, <1>9 DEF Client!ClientNext

\* A page that shows its skeleton has a load of its own under way or about to be made,
\* or found a fresh cache that was not there when it was rendered (DashboardPage.tsx:341-413).
THEOREM SkeletonEnds == FeedSpec => []SkeletonHasLoad
<1>1. FeedInit => LoadInv
  BY DEF FeedInit, Client!ClientInit, LoadInv, SkeletonHasLoad, Client!Shows, Client!NoPage, Kinds
<1>2. FeedInv /\ LoadInv /\ [FeedNext]_allVars => LoadInv'
  <2>1. ASSUME LoadInv, UNCHANGED <<cached, screen, loads>> PROVE LoadInv'
    BY <2>1 DEF LoadInv, SkeletonHasLoad, LoadIsMade, Client!Shows, Client!HasCache
  <2> QED
    BY <2>1, PageStep DEF FeedNext, Next, allVars
<1>3. LoadInv => SkeletonHasLoad
  BY DEF LoadInv
<1> QED
  BY <1>1, <1>2, <1>3, FeedInvariant, PTL DEF FeedSpec
=============================================================================
