----------------------------- MODULE FeedService -----------------------------
(***************************************************************************)
(* The public feed (backend/src/services/feed.service.js, GET /disasters): *)
(* each source is cached, fetched by one request for all who wait, left    *)
(* alone for a while after a failure, and served from its last good answer *)
(* while it is down.                                                       *)
(*                                                                         *)
(* The data of a source are the moment they are dated; the items made of   *)
(* them are in FeedPage.  A call is a request of a browser: sent, waiting for   *)
(* sources, answered, and idle again once the browser has the answer.  The *)
(* fetches end by their AbortController (nasa.service.js, usgs.service.js) *)
(* within MaxFetch.  The answer is written in the same turn of the event   *)
(* loop as the last source it waits for.                                   *)
(***************************************************************************)
EXTENDS Integers, FiniteSets, FiniteSetsExt

CONSTANTS Sources, Calls,
          CacheFor,     \* FEED_CACHE_MS
          Retry,        \* SOURCE_RETRY_MS
          ColdRetry,    \* COLD_START_RETRY_MS
          StaleMax,     \* SOURCE_STALE_MAX_MS
          MaxFetch,     \* the longest a fetch takes
          MaxTime       \* bound on the clock

ASSUME DelaysAssumption ==
  {CacheFor, Retry, ColdRetry, StaleMax, MaxFetch, MaxTime} \subseteq Nat
\* 15 seconds, a minute, five minutes, an hour.
ASSUME OrderAssumption ==
  MaxFetch <= CacheFor /\ Retry <= CacheFor /\ CacheFor <= StaleMax

VARIABLES
  now,
  source,      \* per source: the date of its data, its last failure, the fetch under way
  calls,       \* where each call is, and its answer
  started      \* when each source was asked last (history)

vars == <<now, source, calls, started>>

Never == -1
Time == 0 .. MaxTime

NoData == [updatedAt |-> Never, failedAt |-> Never, fetching |-> Never]
Idle == [stage |-> "idle"]
Sent == [stage |-> "sent"]

Init ==
  /\ now = 0
  /\ source = [s \in Sources |-> NoData]
  /\ calls = [c \in Calls |-> Idle]
  /\ started = [s \in Sources |-> Never]

\* The clock, as far as the time limits of the fetches under way allow.
Tick ==
  /\ now < MaxTime
  /\ \A s \in Sources : source[s].fetching # Never => now < source[s].fetching + MaxFetch
  /\ now' = now + 1
  /\ UNCHANGED <<source, calls, started>>

-----------------------------------------------------------------------------
(***************************************************************************)
(* refresh, fetchOnce                                                      *)
(***************************************************************************)
IsFresh(s) == source[s].updatedAt # Never /\ now - source[s].updatedAt < CacheFor

\* A bug to look for: a source without data is asked again at once.
InRetryBackoffWarm(s) ==
  /\ source[s].failedAt # Never /\ source[s].updatedAt # Never
  /\ now - source[s].failedAt < Retry

InRetryBackoff(s) ==
  /\ source[s].failedAt # Never
  /\ now - source[s].failedAt < IF source[s].updatedAt = Never THEN ColdRetry ELSE Retry

Refresh(s) ==
  CASE IsFresh(s) -> "cache"
    [] ~ IsFresh(s) /\ InRetryBackoff(s) -> "backoff"
    [] OTHER -> "pending"

-----------------------------------------------------------------------------
(***************************************************************************)
(* The end of getFeed for a request of time t: states says how each source *)
(* was brought up to date, src what is known of them now.                  *)
(***************************************************************************)
Ok(state) == state \in {"cache", "live"}

\* A bug to look for: a source that failed is served however old it is.
VerdictAny(src, t, states, s) ==
  CASE Ok(states[s]) -> "ok"
    [] ~ Ok(states[s]) /\ src[s].updatedAt = Never -> "error"
    [] OTHER -> "stale"

Verdict(src, t, states, s) ==
  LET anyOk == \E r \in Sources : Ok(states[r])
  IN  CASE Ok(states[s]) -> "ok"
        [] ~ Ok(states[s])
             /\ \/ src[s].updatedAt = Never
                \/ anyOk /\ t - src[s].updatedAt > StaleMax -> "error"
        [] OTHER -> "stale"

\* updatedAt is Never for a source that contributes nothing;
\* without any, the answer is a 503.
Answer(src, t, states) ==
  LET status == [s \in Sources |-> Verdict(src, t, states, s)]
      served == {s \in Sources : status[s] # "error"}
  IN  IF served = {} THEN [stage |-> "unavailable"]
      ELSE [stage |-> "answered",
            at |-> now,
            status |-> status,
            stale |-> \A s \in Sources : ~ Ok(states[s]),
            updatedAt |-> [s \in Sources |-> IF s \in served THEN src[s].updatedAt ELSE Never]]

\* Calls that wait for no source any more are answered.
Settled(src, waiting) ==
  IF \E s \in Sources : waiting.states[s] = "pending" THEN waiting
  ELSE Answer(src, waiting.t, waiting.states)

-----------------------------------------------------------------------------
GetFeed(c) ==
  /\ calls[c] = Sent
  /\ LET states == [s \in Sources |-> Refresh(s)]
         asked == {s \in Sources : states[s] = "pending" /\ source[s].fetching = Never}
         src == [s \in Sources |->
                   IF s \in asked THEN [source[s] EXCEPT !.fetching = now] ELSE source[s]]
     IN  /\ source' = src
         /\ calls' = [calls EXCEPT
                        ![c] = Settled(src, [stage |-> "waiting", t |-> now, states |-> states])]
         /\ started' = [s \in Sources |->
                          IF s \in asked THEN now ELSE started[s]]
  /\ UNCHANGED now

\* Everyone who waits for the source goes on.
Resolve(s, src, outcome) ==
  /\ source' = src
  /\ calls' = [c \in Calls |->
                 IF calls[c].stage = "waiting" /\ calls[c].states[s] = "pending"
                   THEN Settled(src, [calls[c] EXCEPT !.states[s] = outcome])
                   ELSE calls[c]]
  /\ UNCHANGED <<now, started>>

FetchSucceeds(s) ==
  /\ source[s].fetching # Never
  /\ Resolve(s, [source EXCEPT ![s] = [updatedAt |-> @.fetching, failedAt |-> Never,
                                       fetching |-> Never]], "live")

FetchFails(s) ==
  /\ source[s].fetching # Never
  /\ Resolve(s, [source EXCEPT ![s].failedAt = source[s].fetching, ![s].fetching = Never],
             "error")

-----------------------------------------------------------------------------
Fetching(s) == FetchSucceeds(s) \/ FetchFails(s)

Next ==
  \/ Tick
  \/ \E c \in Calls : GetFeed(c)
  \/ \E s \in Sources : Fetching(s)

=============================================================================
