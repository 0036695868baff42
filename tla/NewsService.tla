----------------------------- MODULE NewsService -----------------------------
(***************************************************************************)
(* The news cache (backend/src/services/news.service.js, newsStore.js,     *)
(* backoff.js, newsProviders/): a background loop asks every provider that *)
(* is due, each keeps its last good share, the merged shares are what GET  *)
(* /news serves, and after a success they replace the NewsCache table, from*)
(* which a restarted backend serves at once.                               *)
(*                                                                         *)
(* The clock may tick between any two steps of a pass, since every search  *)
(* is awaited.  It is too coarse for the throttle (seconds), and the five  *)
(* seconds a provider may be early.                                        *)
(***************************************************************************)
EXTENDS NewsRules

CONSTANTS ProviderSet,
          Configurations,   \* lists of providers, in the order of createNewsProviders
          Interval,      \* [provider -> refreshIntervalMs]
          MaxBackoff,    \* [provider -> the cap of its gate, jitter included]
          EventList,     \* the feed
          Offers,        \* [provider -> the articles it may send]
          MaxPass,       \* the longest a pass takes
          MaxTime, MaxRestarts   \* bounds

ASSUME NewsAssumption ==
  /\ ProviderSet \subseteq {"gdelt", "guardian", "gdacs"}
  /\ \A p \in ProviderSet : \A a \in Offers[p] : a.by = p
  /\ \A list \in Configurations : list # <<>> /\ ToSet(list) \subseteq ProviderSet
  /\ \A p \in ProviderSet : Retention[p] \in Nat \ {0} /\ Interval[p] \in Nat \ {0}
                            /\ MaxBackoff[p] \in Nat
  /\ {MaxPass, MaxTime, MaxRestarts} \subseteq Nat

VARIABLES
  providers,     \* as configured: with a Guardian key or not, with GDACS or not
  now,
  table,         \* NewsCache
  cache,         \* the merged articles and the date of the newest share, or NoCache
  share,         \* states: each provider's share, and its last attempt
  storms,        \* names of the current storms
  failed,        \* lastRefreshFailed
  refreshedOnce,
  gate,          \* until when each backoff gate is closed
  pass,          \* the loop: down, boot, asleep, or a refresh pass
  restarts

vars == <<providers, now, table, cache, share, storms, failed, refreshedOnce, gate, pass, restarts>>
memory == <<cache, share, storms, failed, refreshedOnce, gate>>

Never == -1
NoCache == [items |-> {}, updatedAt |-> Never]
NoShare == [items |-> {}, fetchedAt |-> Never, attemptAt |-> Never, failedLast |-> FALSE]
NextInterval == Min({Interval[p] : p \in ToSet(providers)})

\* What a process starts with.
Forget ==
  /\ cache' = NoCache
  /\ share' = [p \in ProviderSet |-> NoShare]
  /\ storms' = UnknownStorms
  /\ failed' = FALSE /\ refreshedOnce' = FALSE
  /\ gate' = [p \in ProviderSet |-> 0]
  /\ pass' = [stage |-> "boot"]

Init ==
  /\ providers \in Configurations
  /\ now = 0 /\ table = {} /\ restarts = 0
  /\ cache = NoCache
  /\ share = [p \in ProviderSet |-> NoShare]
  /\ storms = UnknownStorms
  /\ failed = FALSE /\ refreshedOnce = FALSE
  /\ gate = [p \in ProviderSet |-> 0]
  /\ pass = [stage |-> "boot"]

\* Every search ends by its time limit, and so does a pass; the loop's timer
\* fires within the tick.
Tick ==
  /\ now < MaxTime
  /\ pass.stage \in {"loading", "asking", "saving"} => now < pass.at + MaxPass
  /\ pass.stage = "asleep" => now < pass.until
  /\ now' = now + 1
  /\ UNCHANGED <<providers, table, memory, pass, restarts>>

\* The process ends at any moment and is started again.
Restart ==
  /\ restarts < MaxRestarts
  /\ restarts' = restarts + 1
  /\ Forget
  /\ UNCHANGED <<providers, now, table>>

-----------------------------------------------------------------------------
(***************************************************************************)
(* The cache: every share's live articles, one per story, an article that  *)
(* is linked to an event before one that is not.                           *)
(***************************************************************************)
Live(items, at) == {a \in items : a.expires > at}

OnePerStory(all, kept) ==
  /\ kept \subseteq all
  /\ {a.id : a \in kept} = {a.id : a \in all}
  /\ \A a, b \in kept : a.id = b.id => a = b
  /\ \A a \in kept : a.event = "none" => \A b \in all : b.id = a.id => b.event = "none"

Rechecked(shares, names) ==
  [p \in ProviderSet |->
     [shares[p] EXCEPT !.items = {a \in @ : KeepsCached(a, now, names)}]]

\* Without an article left the cache stays what it was.
RebuildCache(shares, at, names) ==
  LET checked == Rechecked(shares, names)
      contributing == {p \in ProviderSet : Live(checked[p].items, at) # {}}
      all == UNION {Live(checked[p].items, at) : p \in ProviderSet}
  IN  /\ share' = checked
      /\ IF all = {} THEN UNCHANGED cache
         ELSE \E kept \in SUBSET all :
                /\ OnePerStory(all, kept)
                /\ cache' = [items |-> kept,
                             updatedAt |-> Max({checked[p].fetchedAt : p \in contributing})]

\* getNews: nothing live is a 503.
Served == Live(cache.items, now)

Contributing == {p \in ProviderSet : Live(share[p].items, now) # {}}

Stale ==
  /\ cache # NoCache
  /\ \/ failed
     \/ refreshedOnce /\ Contributing # {} /\ \A p \in Contributing : share[p].failedLast
     \/ ~ refreshedOnce /\ now - cache.updatedAt > NextInterval

-----------------------------------------------------------------------------
(***************************************************************************)
(* start: restore, refresh, then the loop.                                 *)
(***************************************************************************)
\* A bug to look for: a restored article gets a new lease.
RestoredAnew(rows) == {[a EXCEPT !.expires = now + Retention[a.by]] : a \in rows}

\* load: the expired rows are deleted, the others read.
Restored(rows) == rows

DueAlways(p, at) == TRUE
IsDue(p, at) == share[p].attemptAt = Never \/ at - share[p].attemptAt >= Interval[p]

Begin(Due(_, _)) ==
  [stage |-> "loading", at |-> now, todo |-> {p \in ToSet(providers) : Due(p, now)}]

\* The providers have their turns in the order they are configured in.
IsNext(p) ==
  /\ p \in pass.todo
  /\ \A q \in pass.todo : \E i, j \in DOMAIN providers :
       i <= j /\ providers[i] = p /\ providers[j] = q

Restore ==
  /\ pass.stage = "boot"
  /\ table' = {a \in table : a.expires >= now}
  /\ LET saved == Restored(table')
         Of(p) == {a \in saved : a.by = p}
         shares == [p \in ProviderSet |->
                      [NoShare EXCEPT !.items = Of(p),
                                      !.fetchedAt = IF Of(p) = {} THEN Never
                                                    ELSE Max({a.fetched : a \in Of(p)})]]
     IN  IF saved = {} THEN UNCHANGED <<share, cache>>
         ELSE RebuildCache(shares, now, storms)
  /\ pass' = [stage |-> "restored"]
  /\ UNCHANGED <<providers, now, storms, failed, refreshedOnce, gate, restarts>>

\* The database cannot be read: the shares start empty.
RestoreFails ==
  /\ pass.stage = "boot"
  /\ pass' = [stage |-> "restored"]
  /\ UNCHANGED <<providers, now, table, memory, restarts>>

FirstPass ==
  /\ pass.stage = "restored"
  /\ pass' = Begin(DueAlways)
  /\ UNCHANGED <<providers, now, table, memory, restarts>>

TimerFires ==
  /\ pass.stage = "asleep" /\ now >= pass.until
  /\ pass' = Begin(IsDue)
  /\ UNCHANGED <<providers, now, table, memory, restarts>>

-----------------------------------------------------------------------------
(***************************************************************************)
(* refresh: one pass over the providers.                                   *)
(***************************************************************************)
\* Each feed that cannot be reached counts as empty; the storm list may be unknown.
LoadEvents ==
  /\ pass.stage = "loading"
  /\ \E feed \in {EventList, <<>>}, names \in StormNames :
       /\ storms' = CurrentStorms(feed, names)
       /\ pass' = [stage |-> "asking", at |-> pass.at, todo |-> pass.todo, feed |-> feed,
                   turn |-> "none", left |-> <<>>, found |-> {}, delivered |-> {}]
  /\ UNCHANGED <<providers, now, table, cache, share, failed, refreshedOnce, gate, restarts>>

\* The searches of a provider: one per GDACS event, the general one only for
\* GDELT, the plan's groups and the general one for The Guardian.
Searches(p, feed) ==
  CASE p = "gdacs" -> LET listed == SelectSeq(feed, LAMBDA e : e.gdacs)
                      IN  [i \in DOMAIN listed |-> <<listed[i]>>]
    [] p = "gdelt" -> <<"general">>
    [] p = "guardian" -> Append(Plan(Top(feed)), "general")

Turn(p) ==
  /\ pass.stage = "asking" /\ pass.turn = "none" /\ IsNext(p)
  /\ share' = [share EXCEPT ![p].attemptAt = pass.at]
  /\ pass' = [pass EXCEPT !.turn = p, !.todo = @ \ {p}, !.left = Searches(p, pass.feed)]
  /\ UNCHANGED <<providers, now, table, cache, storms, failed, refreshedOnce, gate, restarts>>

\* The event an article is about: GDACS articles come with it.
EventOf(a, search) ==
  CASE search = "general" -> Linked(a, Best(a, Top(pass.feed), TRUE, FALSE))
    [] search # "general" /\ a.by = "gdacs" -> Linked(a, Head(search))
    [] OTHER -> Linked(a, Best(a, search, FALSE, TRUE))

Search ==
  /\ pass.stage = "asking" /\ pass.turn # "none" /\ pass.left # <<>>
  /\ gate[pass.turn] <= now
  /\ \E sent \in SUBSET {a \in Offers[pass.turn] : Stories[a.id].seen <= now} :
       pass' = [pass EXCEPT
                  !.left = Tail(@),
                  !.found = @ \cup {Cached(a, EventOf(a, Head(pass.left)), pass.at) :
                                      a \in {b \in sent : Keeps(b, pass.at, storms)}}]
  /\ gate' = [gate EXCEPT ![pass.turn] = 0]
  /\ UNCHANGED <<providers, now, table, cache, share, storms, failed, refreshedOnce, restarts>>

\* The request fails and closes the gate, or the gate is closed and nothing is sent.
SearchFails ==
  /\ pass.stage = "asking" /\ pass.turn # "none" /\ pass.left # <<>>
  /\ pass' = [pass EXCEPT !.left = Tail(@)]
  /\ IF gate[pass.turn] > now THEN UNCHANGED gate
     ELSE \E delay \in 0 .. MaxBackoff[pass.turn] : gate' = [gate EXCEPT ![pass.turn] = now + delay]
  /\ UNCHANGED <<providers, now, table, cache, share, storms, failed, refreshedOnce, restarts>>

\* Bugs to look for: a provider without articles loses its share; a provider
\* with a share left is not marked as failed.
OutcomeForgets(p, items) ==
  [share[p] EXCEPT !.items = items, !.failedLast = items = {},
                   !.fetchedAt = IF items # {} THEN pass.at ELSE @]
OutcomeHidesFailure(p, items) ==
  IF items = {} THEN [share[p] EXCEPT !.failedLast = share[p].items = {}]
  ELSE [share[p] EXCEPT !.items = items, !.failedLast = FALSE, !.fetchedAt = pass.at]

\* A provider with articles replaces its share, one without keeps it.
Outcome(p, items) ==
  IF items = {} THEN [share[p] EXCEPT !.failedLast = TRUE]
  ELSE [share[p] EXCEPT !.items = items, !.failedLast = FALSE, !.fetchedAt = pass.at]

TurnEnds ==
  /\ pass.stage = "asking" /\ pass.turn # "none" /\ pass.left = <<>>
  /\ \E items \in SUBSET pass.found :
       /\ OnePerStory(pass.found, items)
       /\ share' = [share EXCEPT ![pass.turn] = Outcome(pass.turn, items)]
       /\ pass' = [pass EXCEPT !.turn = "none", !.found = {},
                               !.delivered = IF items = {} THEN @ ELSE @ \cup {pass.turn}]
  /\ UNCHANGED <<providers, now, table, cache, storms, failed, refreshedOnce, gate, restarts>>

Asleep == [stage |-> "asleep", until |-> now + NextInterval]

\* After the last provider.  An empty cache although a provider delivered is
\* an unexpected error (serving ${cache.items.length}), which the pass catches.
Merge ==
  /\ pass.stage = "asking" /\ pass.turn = "none" /\ pass.todo = {}
  /\ RebuildCache(share, pass.at, storms)
  /\ failed' = (pass.delivered # {} /\ cache' = NoCache)
  /\ IF pass.delivered # {} /\ cache' # NoCache
       THEN pass' = [stage |-> "saving", at |-> pass.at] /\ UNCHANGED refreshedOnce
       ELSE pass' = Asleep /\ refreshedOnce' = TRUE
  /\ UNCHANGED <<providers, now, table, storms, gate, restarts>>

\* The table is replaced in one transaction, or stays.
Save ==
  /\ pass.stage = "saving"
  /\ table' \in {cache.items, table}
  /\ refreshedOnce' = TRUE
  /\ pass' = Asleep
  /\ UNCHANGED <<providers, now, cache, share, storms, failed, gate, restarts>>

Pass == LoadEvents \/ (\E p \in ProviderSet : Turn(p)) \/ Search \/ SearchFails \/ TurnEnds \/ Merge \/ Save

Next == Tick \/ Restart \/ Restore \/ RestoreFails \/ FirstPass \/ TimerFires \/ Pass

Spec == Init /\ [][Next]_vars

-----------------------------------------------------------------------------
(***************************************************************************)
(* "Guardian articles expire 24 h after they were fetched (licence)"       *)
(* (news.service.js:33): no article is served for longer than its provider *)
(* allows after the pass that fetched it, however often its provider fails *)
(* and the backend restarts from the database since.                       *)
(***************************************************************************)
ExpiredIsNeverServed ==
  \A a \in Served : now < a.fetched + Retention[a.by]

(***************************************************************************)
(* "a provider that fails keeps serving what it fetched before until that  *)
(* expires" (news.service.js:13-15), and "a restart serves the previous    *)
(* articles at once" (:31-32).  An article leaves its share only when the  *)
(* rules of the day drop it or its provider has delivered; a pass leaves   *)
(* every story that is live in a share in the cache; and so does a restart *)
(* that reads the table with the rows that have not expired.               *)
(***************************************************************************)
NothingIsLost ==
  [][LET RuledOut(a) == ~ KeepsCached(a, now, storms')
         Delivers(p) == pass.stage = "asking" /\ pass'.stage = "asking" /\ p \in pass'.delivered \ pass.delivered
         IsCached(a) == \E b \in cache'.items : b.id = a.id
     IN  /\ restarts' = restarts =>
              \A p \in ProviderSet : \A a \in share[p].items :
                a \in share'[p].items \/ RuledOut(a) \/ Delivers(p)
         /\ pass.stage = "asking" /\ pass'.stage \in {"saving", "asleep"} =>
              \A p \in ProviderSet : \A a \in Live(share'[p].items, now) : IsCached(a)
         /\ pass.stage = "boot" /\ Restore =>
              \A a \in Live(table, now) : IsCached(a) \/ RuledOut(a)]_vars

(***************************************************************************)
(* "stale: true when every provider that still contributes articles failed *)
(* its last attempt" (news.service.js:34-36): between two passes, news not *)
(* called stale hold the share of a provider whose last attempt gave it.   *)
(* Not so within a pass: the provider asked first clears the flag while    *)
(* the cache still holds the old articles.                                 *)
(***************************************************************************)
StaleIsHonest ==
  pass.stage = "asleep" /\ Contributing # {} /\ ~ Stale =>
    \E p \in Contributing : share[p].fetchedAt = share[p].attemptAt

(***************************************************************************)
(* "Guardian rows are deleted from the cache 24 hours after they were      *)
(* fetched (NewsCache.expiresAt)" (docs/news.md:15), with the interval of  *)
(* the loop and a pass for it as grace.  Only a start and a pass with a    *)
(* success delete rows.                                                    *)
(***************************************************************************)
ExpiredRowsAreDeleted ==
  \A a \in table : now <= a.expires + 2 * NextInterval
=============================================================================
