----------------------------- MODULE FeedClient -----------------------------
(***************************************************************************)
(* How the dashboard loads the feed (DashboardPage.tsx, feedCache.ts): the *)
(* page is mounted and unmounted as the user moves between pages, the last *)
(* feed survives in a module-level cache, and a load asks the backend.     *)
(*                                                                         *)
(* A page is rendered from the cache; its effects run in a later task and  *)
(* read the cache again, to decide whether to load.  (React runs them      *)
(* before the next rendering of the page, so before what its user does.)   *)
(* A load started by the mount is aborted when the page goes; one started  *)
(* by "Try again" is not, and then only the cache takes its answer.  A     *)
(* feed is what the backend answered.  `calls' is the network: how a sent  *)
(* call is answered is FeedService's matter, that it may fail is here.     *)
(***************************************************************************)
EXTENDS Integers

CONSTANTS Calls, Sources,
          FreshFor      \* FEED_FRESH_MS

VARIABLES
  now,
  calls,     \* idle, sent, ..., answered or unavailable
  cached,    \* the module-level cache
  screen,    \* the state of the mounted page
  loads      \* what a call was made for

clientVars == <<cached, screen, loads>>

Idle == [stage |-> "idle"]
Sent == [stage |-> "sent"]
NoFeed == [stale |-> FALSE]
NoCache == [feed |-> NoFeed, fetchedAt |-> -1]
NoPage == [mounted |-> FALSE]

ClientInit ==
  /\ cached = NoCache
  /\ screen = NoPage
  /\ loads = [c \in Calls |-> "none"]

HasCache == cached # NoCache
IsFeedFresh == HasCache /\ now - cached.fetchedAt < FreshFor

-----------------------------------------------------------------------------
(***************************************************************************)
(* What the page says of its feed.                                         *)
(***************************************************************************)
Shows(phase) == screen.mounted /\ screen.phase = phase
HasData == Shows("ready") /\ screen.feed # NoFeed
LiveBadge == HasData /\ ~ screen.stale
SourceNotes == IF LiveBadge THEN {s \in Sources : screen.feed.status[s] # "ok"} ELSE {}
TryAgainIsOffered == Shows("error") \/ (Shows("ready") /\ (screen.stale \/ SourceNotes # {}))

\* What the page keeps of an answer.
Feed(answer) == [stale |-> answer.stale, status |-> answer.status, updatedAt |-> answer.updatedAt]

-----------------------------------------------------------------------------
Load(c, for) ==
  /\ calls[c] = Idle
  /\ calls' = [calls EXCEPT ![c] = Sent]
  /\ loads' = [loads EXCEPT ![c] = for]

\* The first rendering: the states are initialised from the cache.  (The bound on
\* the calls leaves one for the effect.)
Mount ==
  /\ ~ screen.mounted
  /\ \E c \in Calls : calls[c] = Idle
  /\ screen' = [mounted |-> TRUE, effect |-> "due",
                phase |-> IF HasCache THEN "ready" ELSE "loading",
                settled |-> IsFeedFresh,
                stale |-> cached.feed.stale,
                feed |-> cached.feed]
  /\ UNCHANGED <<now, calls, cached, loads>>

\* The effect: no load is made when the cache is fresh now.
MountEffect ==
  /\ screen.mounted /\ screen.effect = "due"
  /\ \/ /\ IsFeedFresh
        /\ screen' = [screen EXCEPT !.effect = "skips"]
        /\ UNCHANGED <<calls, loads>>
     \/ /\ ~ IsFeedFresh
        /\ screen' = [screen EXCEPT !.effect = "loads"]
        /\ \E c \in Calls : Load(c, "mount")
  /\ UNCHANGED <<now, cached>>

Active == screen.mounted /\ screen.effect # "due"

\* The route changes: its own load is aborted, the others go on without the page.
Unmount ==
  /\ Active
  /\ screen' = NoPage
  /\ loads' = [c \in Calls |-> CASE loads[c] = "mount" -> "aborted"
                                 [] loads[c] = "again" -> "orphan"
                                 [] OTHER -> loads[c]]
  /\ UNCHANGED <<now, calls, cached>>

TryAgain ==
  /\ Active /\ TryAgainIsOffered
  /\ \E c \in Calls : Load(c, "again")
  /\ screen' = IF HasCache THEN screen ELSE [screen EXCEPT !.phase = "loading"]
  /\ UNCHANGED <<now, cached>>

-----------------------------------------------------------------------------
End(c) ==
  /\ calls' = [calls EXCEPT ![c] = Idle]
  /\ loads' = [loads EXCEPT ![c] = "none"]
  /\ UNCHANGED now

Drop(c) ==
  /\ loads[c] = "aborted" /\ calls[c].stage # "idle"
  /\ End(c)
  /\ UNCHANGED <<cached, screen>>

Receive(c) ==
  /\ loads[c] \in {"mount", "again", "orphan"} /\ calls[c].stage = "answered"
  /\ cached' = [feed |-> Feed(calls[c]), fetchedAt |-> now]
  /\ screen' = IF loads[c] = "orphan" THEN screen
               ELSE [mounted |-> TRUE, effect |-> screen.effect, phase |-> "ready",
                     settled |-> TRUE, stale |-> calls[c].stale, feed |-> Feed(calls[c])]
  /\ End(c)

\* A bug to look for: a failed load leaves a page without a feed as it was.
FailSilently(c) ==
  /\ loads[c] \in {"mount", "again", "orphan"} /\ calls[c].stage # "idle"
  /\ screen' = IF loads[c] = "orphan" \/ ~ HasCache THEN screen
               ELSE [screen EXCEPT !.stale = TRUE, !.settled = TRUE]
  /\ End(c)
  /\ UNCHANGED cached

\* A 503, or the connection fails: the last feed is kept on screen, flagged as
\* stale; without one the page says that the feed is offline.
Fail(c) ==
  /\ loads[c] \in {"mount", "again", "orphan"} /\ calls[c].stage # "idle"
  /\ screen' = CASE loads[c] = "orphan" -> screen
                 [] loads[c] # "orphan" /\ HasCache ->
                      [mounted |-> TRUE, effect |-> screen.effect, phase |-> "ready",
                       settled |-> TRUE, stale |-> TRUE, feed |-> cached.feed]
                 [] OTHER -> [mounted |-> TRUE, effect |-> screen.effect, phase |-> "error",
                              settled |-> TRUE, stale |-> screen.stale, feed |-> NoFeed]
  /\ End(c)
  /\ UNCHANGED cached

ClientNext ==
  \/ Mount \/ MountEffect \/ Unmount \/ TryAgain
  \/ \E c \in Calls : Drop(c) \/ Receive(c) \/ Fail(c)
=============================================================================
