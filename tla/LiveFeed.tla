------------------------------ MODULE LiveFeed ------------------------------
(***************************************************************************)
(* The feed from the sources to the screen: FeedService answers the loads  *)
(* of FeedClient over one network (`calls').                               *)
(***************************************************************************)
EXTENDS FeedService

CONSTANT FreshFor      \* FEED_FRESH_MS

ASSUME FreshAssumption == FreshFor \in Nat

VARIABLES cached, screen, loads

Client == INSTANCE FeedClient

allVars == <<now, source, calls, started, cached, screen, loads>>

FeedInit == Init /\ Client!ClientInit

FeedNext ==
  \/ Next /\ UNCHANGED <<cached, screen, loads>>
  \/ Client!ClientNext /\ UNCHANGED <<source, started>>

FeedSpec == FeedInit /\ [][FeedNext]_allVars

-----------------------------------------------------------------------------

(***************************************************************************)
(* What an answer says of a source is true of the data it serves: "ok"     *)
(* data are at most a cache lifetime old, with another source answering    *)
(* nobody gets data older than the limit, and `stale' means that no source *)
(* is up to date (feed.service.js:203-222, 238-253).  Both limits are      *)
(* measured when the request came in: answering takes up to a fetch.       *)
(***************************************************************************)
AnswerIsHonest ==
  \A c \in Calls :
    calls[c].stage = "answered" =>
      LET a == calls[c]
          Served == {s \in Sources : a.status[s] # "error"}
      IN  /\ \A s \in Served :
               /\ a.status[s] = "ok" => a.at - a.updatedAt[s] <= CacheFor + MaxFetch
               /\ ~ a.stale => a.at - a.updatedAt[s] <= StaleMax + MaxFetch
          /\ a.stale = (\A s \in Sources : a.status[s] # "ok")

(***************************************************************************)
(* However many pages are open and however often they try again, a source  *)
(* is left alone: for the retry delay after it was asked, and for the      *)
(* shorter one while it has never answered (feed.service.js:136-176).      *)
(***************************************************************************)
SourcesAreSpared ==
  [][\A s \in Sources :
       source[s].fetching = Never /\ source'[s].fetching # Never /\ started[s] # Never =>
         now - started[s] >= IF source[s].updatedAt # Never THEN Retry ELSE ColdRetry]_allVars

\* A load of this page is under way.
LoadIsMade == \E c \in Calls : loads[c] \in {"mount", "again"}

(***************************************************************************)
(* A page that shows its skeleton has a load of its own under way, whose   *)
(* answer or failure will end the skeleton (DashboardPage.tsx:341-413), or *)
(* its effect, which makes the load, is due.  The exception is a page      *)
(* whose effect found a fresh feed that was not there when it was rendered *)
(* (a "Try again" of the page before was answered in between): it makes no *)
(* load, and the skeleton stays over the cached feed.                      *)
(***************************************************************************)
SkeletonHasLoad ==
  Client!Shows("loading") =>
    \/ LoadIsMade
    \/ screen.effect = "due"
    \/ screen.effect = "skips" /\ Client!HasCache

(***************************************************************************)
(* Without that exception: what the comment on the skeleton promises       *)
(* ("the skeleton is shown until the backend answers",                     *)
(* DashboardPage.tsx:199), and what the code does not keep.                *)
(***************************************************************************)
SkeletonAlwaysHasLoad ==
  Client!Shows("loading") => LoadIsMade \/ screen.effect = "due"

(***************************************************************************)
(* "LIVE only while real, fresh data is on screen" (DashboardPage.tsx:641) *)
(* and "The feed refreshes every few minutes" (:960): a feed under the     *)
(* badge is one the page would not load again, or it is being loaded.      *)
(***************************************************************************)
LiveIsFresh ==
  Client!LiveBadge => Client!IsFeedFresh \/ LoadIsMade
=============================================================================
