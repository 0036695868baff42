-------------------------- MODULE NewsServiceProofs --------------------------
(***************************************************************************)
(* Proofs about the news cache, for any providers, articles, retentions    *)
(* and schedules: no article is served beyond its licence, none is lost to *)
(* another provider's failure, and the stale flag is right between passes. *)
(***************************************************************************)
EXTENDS NewsService, TLAPS

Configured == ToSet(providers)

\* An article as the backend keeps it: from a provider of this configuration, fetched by a
\* pass that is over or under way, and kept as long as its provider allows.
Dated(a) ==
  /\ a.by \in Configured
  /\ a.fetched \in Nat /\ a.fetched <= now
  /\ a.expires = a.fetched + Retention[a.by]

ArticlesDated ==
  /\ \A a \in table : Dated(a)
  /\ \A a \in cache.items : Dated(a)
  /\ \A p \in ProviderSet : \A a \in share[p].items : Dated(a) /\ a.by = p
  /\ pass.stage = "asking" => \A a \in pass.found : Dated(a) /\ a.by = pass.turn

\* A share, whatever its dates are.
IsShare(s) ==
  /\ s = [items |-> s.items, fetchedAt |-> s.fetchedAt, attemptAt |-> s.attemptAt,
          failedLast |-> s.failedLast]
  /\ s.failedLast \in BOOLEAN

SharesTyped == DOMAIN share = ProviderSet /\ \A p \in ProviderSet : IsShare(share[p])

Stages == {"boot", "restored", "loading", "asking", "saving", "asleep"}

PassTyped ==
  /\ now \in Nat
  /\ providers \in Configurations
  /\ pass.stage \in Stages
  /\ pass.stage \in {"loading", "asking", "saving"} => pass.at \in Nat /\ pass.at <= now
  /\ pass.stage = "loading" =>
       /\ pass = [stage |-> "loading", at |-> pass.at, todo |-> pass.todo]
       /\ pass.todo \subseteq Configured
  /\ pass.stage = "asking" =>
       /\ pass = [stage |-> "asking", at |-> pass.at, todo |-> pass.todo, feed |-> pass.feed,
                  turn |-> pass.turn, left |-> pass.left, found |-> pass.found,
                  delivered |-> pass.delivered]
       /\ pass.todo \subseteq Configured
       /\ pass.turn = "none" => pass.found = {}
       /\ pass.turn # "none" => pass.turn \in Configured \ (pass.todo \cup pass.delivered)
       /\ pass.delivered \cap pass.todo = {}

\* Who has not had a turn since the start is still to be asked.
AskedOnce ==
  /\ pass.stage \in {"loading", "asking"} =>
       \A p \in Configured \ pass.todo : share[p].attemptAt # Never
  /\ pass.stage \in {"saving", "asleep"} => \A p \in Configured : share[p].attemptAt # Never

\* A provider that is not being asked failed last, or gave its share then.
Asking(p) == pass.stage = "asking" /\ pass.turn = p
SharesHonest ==
  \A p \in ProviderSet :
    /\ Asking(p) => share[p].attemptAt = pass.at
    /\ share[p].attemptAt # Never /\ ~ Asking(p) =>
         share[p].failedLast = TRUE \/ share[p].fetchedAt = share[p].attemptAt

\* A process starts without shares, and a pass leaves a cache when an article is live.
CacheBuilt ==
  /\ pass.stage = "boot" => \A p \in ProviderSet : share[p].items = {} /\ share[p].attemptAt = Never
  /\ pass.stage = "restored" => \A p \in ProviderSet : share[p].attemptAt = Never
  /\ pass.stage \in {"saving", "asleep"} /\ (\E p \in ProviderSet : Live(share[p].items, now) # {})
       => cache # NoCache
  /\ pass.stage = "asleep" => refreshedOnce = TRUE

IInv ==
  /\ PassTyped
  /\ SharesTyped
  /\ ArticlesDated
  /\ AskedOnce
  /\ SharesHonest
  /\ CacheBuilt

-----------------------------------------------------------------------------
LEMMA ConfiguredProviders ==
  ASSUME PassTyped
  PROVE  Configured \subseteq ProviderSet /\ "none" \notin ProviderSet
BY NewsAssumption DEF PassTyped, Configured

LEMMA RetentionTyped ==
  ASSUME NEW p \in ProviderSet
  PROVE  Retention[p] \in Nat
BY NewsAssumption

\* A share of which only the articles, the attempt or the flag differ.
LEMMA ShareItems ==
  ASSUME NEW s, IsShare(s), NEW items
  PROVE  LET t == [s EXCEPT !.items = items]
         IN  /\ IsShare(t) /\ t.items = items /\ t.fetchedAt = s.fetchedAt
             /\ t.attemptAt = s.attemptAt /\ t.failedLast = s.failedLast
BY DEF IsShare

LEMMA ShareAttempt ==
  ASSUME NEW s, IsShare(s), NEW at
  PROVE  LET t == [s EXCEPT !.attemptAt = at]
         IN  /\ IsShare(t) /\ t.items = s.items /\ t.fetchedAt = s.fetchedAt
             /\ t.attemptAt = at /\ t.failedLast = s.failedLast
BY DEF IsShare

LEMMA ShareFailed ==
  ASSUME NEW s, IsShare(s), NEW flag \in BOOLEAN
  PROVE  LET t == [s EXCEPT !.failedLast = flag]
         IN  /\ IsShare(t) /\ t.items = s.items /\ t.fetchedAt = s.fetchedAt
             /\ t.attemptAt = s.attemptAt /\ t.failedLast = flag
BY DEF IsShare

\* What the cache is rebuilt from, and that it holds every live story.
Rebuilt(shares, at, names) ==
  /\ DOMAIN share' = ProviderSet
  /\ \A p \in ProviderSet :
       /\ IsShare(share'[p])
       /\ share'[p].items = {a \in shares[p].items : KeepsCached(a, now, names)}
       /\ share'[p].fetchedAt = shares[p].fetchedAt /\ share'[p].attemptAt = shares[p].attemptAt
       /\ share'[p].failedLast = shares[p].failedLast
       /\ \A a \in Live(share'[p].items, at) :
            cache' # NoCache /\ \E b \in cache'.items : b.id = a.id
  /\ \A a \in cache'.items :
       a \in cache.items \/ \E p \in ProviderSet : a \in share'[p].items

LEMMA RebuildRebuilds ==
  ASSUME NEW shares, DOMAIN shares = ProviderSet, \A p \in ProviderSet : IsShare(shares[p]),
         NEW at, NEW names, RebuildCache(shares, at, names)
  PROVE  Rebuilt(shares, at, names)
<1>1. share' = Rechecked(shares, names)
  BY DEF RebuildCache
<1>2. ASSUME NEW p \in ProviderSet
      PROVE  /\ IsShare(share'[p])
             /\ share'[p].items = {a \in shares[p].items : KeepsCached(a, now, names)}
             /\ share'[p].fetchedAt = shares[p].fetchedAt
             /\ share'[p].attemptAt = shares[p].attemptAt
             /\ share'[p].failedLast = shares[p].failedLast
  <2> DEFINE kept == {a \in shares[p].items : KeepsCached(a, now, names)}
  <2>1. share'[p] = [shares[p] EXCEPT !.items = kept]
    BY <1>1 DEF Rechecked, IsShare
  <2> HIDE DEF kept
  <2>2. IsShare(shares[p])
    OBVIOUS
  <2> QED
    BY <2>1, <2>2, ShareItems DEF kept
<1> DEFINE all == UNION {Live(share'[p].items, at) : p \in ProviderSet}
<1>3. CASE all = {}
  <2>1. cache' = cache
    BY <1>1, <1>3 DEF RebuildCache
  <2>2. \A p \in ProviderSet : Live(share'[p].items, at) = {}
    BY <1>3
  <2> QED
    BY <1>1, <1>2, <2>1, <2>2 DEF Rebuilt, Rechecked
<1>4. CASE all # {}
  <2>1. PICK kept \in SUBSET all : OnePerStory(all, kept) /\ cache'.items = kept
    <3> DEFINE checked == Rechecked(shares, names)
               union == UNION {Live(checked[p].items, at) : p \in ProviderSet}
    <3>1. union = all
      BY <1>1
    <3>2. \E kept \in SUBSET union : \E n : /\ OnePerStory(union, kept)
                                          /\ cache' = [items |-> kept, updatedAt |-> n]
      BY <1>4, <3>1 DEF RebuildCache
    <3> HIDE DEF union, all
    <3> QED
      BY <3>1, <3>2
  <2>2. \A a \in all : \E b \in kept : b.id = a.id
    <3>1. {a.id : a \in kept} = {a.id : a \in all}
      BY <2>1 DEF OnePerStory
    <3> QED
      BY <3>1
  <2>3. cache' # NoCache
    <3>1. cache'.items # {}
      BY <1>4, <2>1, <2>2
    <3> QED
      BY <3>1 DEF NoCache
  <2>4. \A a \in cache'.items : \E p \in ProviderSet : a \in share'[p].items
    BY <2>1 DEF Live
  <2>5. \A p \in ProviderSet : \A a \in Live(share'[p].items, at) : a \in all
    OBVIOUS
  <2> HIDE DEF all
  <2> QED
    BY <1>1, <1>2, <2>1, <2>2, <2>3, <2>4, <2>5 DEF Rebuilt, Rechecked
<1> QED
  BY <1>3, <1>4

\* An article stays as it is when the clock moves on.
LEMMA DatedStays ==
  ASSUME now \in Nat, now' \in Nat, now <= now', providers' = providers, NEW a, Dated(a)
  PROVE  Dated(a)'
BY DEF Dated, Configured

-----------------------------------------------------------------------------
(***************************************************************************)
(* The steps, one by one                                                   *)
(***************************************************************************)
LEMMA IInvInit == Init => IInv
<1> SUFFICES ASSUME Init
             PROVE  IInv
  OBVIOUS
<1>1. IsShare(NoShare) /\ NoShare.items = {} /\ NoShare.attemptAt = Never
  BY DEF IsShare, NoShare
<1>2. \A p \in ProviderSet : share[p] = NoShare
  BY DEF Init
<1>3. PassTyped /\ SharesTyped
  BY <1>1, <1>2 DEF Init, PassTyped, SharesTyped, Stages
<1>4. ArticlesDated
  BY <1>1, <1>2 DEF Init, ArticlesDated, NoCache
<1>5. AskedOnce /\ SharesHonest /\ CacheBuilt
  BY <1>1, <1>2 DEF Init, AskedOnce, SharesHonest, CacheBuilt, Asking
<1> QED
  BY <1>3, <1>4, <1>5 DEF IInv

\* The clock: what is live now was live before.
LEMMA TickStep ==
  ASSUME IInv, Tick
  PROVE  IInv'
<1>1. now \in Nat /\ now' = now + 1 /\ now <= now' /\ now' \in Nat
  BY DEF IInv, PassTyped, Tick
<1>2. UNCHANGED <<providers, table, cache, share, storms, failed, refreshedOnce, gate, pass>>
  BY DEF Tick, memory
<1>3. PassTyped'
  BY <1>1, <1>2 DEF IInv, PassTyped, Configured
<1>4. SharesTyped' /\ AskedOnce' /\ SharesHonest'
  BY <1>2 DEF IInv, SharesTyped, AskedOnce, SharesHonest, Asking, Configured
<1>5. ArticlesDated'
  <2>1. \A a : Dated(a) => Dated(a)'
    BY <1>1, <1>2, DatedStays
  <2> QED
    BY <1>2, <2>1 DEF IInv, ArticlesDated
<1>6. CacheBuilt'
  <2>1. ASSUME NEW p \in ProviderSet, NEW a \in Live(share[p].items, now')
        PROVE  a \in Live(share[p].items, now)
    <3>1. a \in share[p].items /\ a.expires > now'
      BY <2>1 DEF Live
    <3>2. Dated(a) /\ a.by = p
      BY <3>1 DEF IInv, ArticlesDated
    <3>3. a.expires \in Nat
      BY <2>1, <3>2, RetentionTyped DEF Dated
    <3> QED
      BY <1>1, <3>1, <3>3 DEF Live
  <2> QED
    BY <1>2, <2>1 DEF IInv, CacheBuilt
<1> QED
  BY <1>3, <1>4, <1>5, <1>6 DEF IInv

\* A new process has nothing but the table.
LEMMA RestartStep ==
  ASSUME IInv, Restart
  PROVE  IInv'
<1>1. IsShare(NoShare) /\ NoShare.items = {} /\ NoShare.attemptAt = Never
  BY DEF IsShare, NoShare
<1>2. /\ providers' = providers /\ now' = now /\ table' = table
      /\ DOMAIN share' = ProviderSet /\ \A p \in ProviderSet : share'[p] = NoShare
      /\ cache' = NoCache /\ pass' = [stage |-> "boot"]
  BY DEF Restart, Forget
<1>3. PassTyped' /\ SharesTyped'
  BY <1>1, <1>2 DEF IInv, PassTyped, SharesTyped, Stages
<1>4. ArticlesDated'
  <2>1. \A a : Dated(a) => Dated(a)'
    BY <1>2 DEF Dated, Configured
  <2> QED
    BY <1>1, <1>2, <2>1 DEF IInv, ArticlesDated, NoCache
<1>5. AskedOnce' /\ SharesHonest' /\ CacheBuilt'
  BY <1>1, <1>2 DEF AskedOnce, SharesHonest, CacheBuilt, Asking
<1> QED
  BY <1>3, <1>4, <1>5 DEF IInv

\* Steps after which clock, table, shares and cache are as they were.
LEMMA SameArticles ==
  ASSUME IInv, UNCHANGED <<providers, now, table, cache, share>>,
         pass'.stage = "asking" => \A a \in pass'.found : Dated(a) /\ a.by = pass'.turn
  PROVE  SharesTyped' /\ ArticlesDated'
<1>1. \A a : Dated(a) => Dated(a)'
  BY DEF Dated, Configured
<1> QED
  BY <1>1 DEF IInv, SharesTyped, ArticlesDated

LEMMA RestoreFailsStep ==
  ASSUME IInv, RestoreFails
  PROVE  IInv'
<1>1. UNCHANGED <<providers, now, table, cache, share>> /\ pass' = [stage |-> "restored"]
  BY DEF RestoreFails, memory
<1>2. pass.stage = "boot"
  BY DEF RestoreFails
<1>3. SharesTyped' /\ ArticlesDated'
  BY <1>1, SameArticles
<1>4. PassTyped'
  BY <1>1 DEF IInv, PassTyped, Stages
<1>5. AskedOnce' /\ SharesHonest' /\ CacheBuilt'
  BY <1>1, <1>2 DEF IInv, AskedOnce, SharesHonest, CacheBuilt, Asking
<1> QED
  BY <1>3, <1>4, <1>5 DEF IInv

LEMMA BeginStep ==
  ASSUME IInv, FirstPass \/ TimerFires
  PROVE  IInv'
<1>1. UNCHANGED <<providers, now, table, cache, share>>
  BY DEF FirstPass, TimerFires, memory
<1>2. PICK todo : /\ pass' = [stage |-> "loading", at |-> now, todo |-> todo]
                  /\ todo \subseteq Configured
                  /\ pass.stage = "restored" => todo = Configured
                  /\ pass.stage \in {"restored", "asleep"}
  <2>1. CASE FirstPass
    <3> DEFINE todo == {p \in ToSet(providers) : DueAlways(p, now)}
    <3>1. pass' = [stage |-> "loading", at |-> now, todo |-> todo] /\ pass.stage = "restored"
      BY <2>1 DEF FirstPass, Begin
    <3>2. todo = Configured
      BY DEF DueAlways, Configured
    <3> HIDE DEF todo
    <3> QED
      BY <3>1, <3>2
  <2>2. CASE TimerFires
    <3> DEFINE todo == {p \in ToSet(providers) : IsDue(p, now)}
    <3>1. pass' = [stage |-> "loading", at |-> now, todo |-> todo] /\ pass.stage = "asleep"
      BY <2>2 DEF TimerFires, Begin
    <3>2. todo \subseteq Configured
      BY DEF Configured
    <3> HIDE DEF todo
    <3> QED
      BY <3>1, <3>2
  <2> QED
    BY <2>1, <2>2
<1>3. SharesTyped' /\ ArticlesDated'
  BY <1>1, <1>2, SameArticles
<1>4. PassTyped'
  BY <1>1, <1>2 DEF IInv, PassTyped, Stages, Configured
<1>5. AskedOnce' /\ SharesHonest' /\ CacheBuilt'
  BY <1>1, <1>2 DEF IInv, AskedOnce, SharesHonest, CacheBuilt, Asking, Configured
<1> QED
  BY <1>3, <1>4, <1>5 DEF IInv

LEMMA LoadEventsStep ==
  ASSUME IInv, LoadEvents
  PROVE  IInv'
<1>1. UNCHANGED <<providers, now, table, cache, share>> /\ pass.stage = "loading"
  BY DEF LoadEvents
<1>2. PICK feed : pass' = [stage |-> "asking", at |-> pass.at, todo |-> pass.todo, feed |-> feed,
                           turn |-> "none", left |-> <<>>, found |-> {}, delivered |-> {}]
  BY DEF LoadEvents
<1>3. SharesTyped' /\ ArticlesDated'
  BY <1>1, <1>2, SameArticles
<1>4. PassTyped'
  BY <1>1, <1>2 DEF IInv, PassTyped, Stages, Configured
<1>5. AskedOnce' /\ CacheBuilt'
  BY <1>1, <1>2 DEF IInv, AskedOnce, CacheBuilt, Configured
<1>6. SharesHonest'
  BY <1>1, <1>2, ConfiguredProviders DEF IInv, SharesHonest, Asking
<1> QED
  BY <1>3, <1>4, <1>5, <1>6 DEF IInv

LEMMA SearchFailsStep ==
  ASSUME IInv, SearchFails
  PROVE  IInv'
<1>1. UNCHANGED <<providers, now, table, cache, share>> /\ pass.stage = "asking"
  BY DEF SearchFails
<1>2. PICK left : pass' = [stage |-> "asking", at |-> pass.at, todo |-> pass.todo,
                           feed |-> pass.feed, turn |-> pass.turn, left |-> left,
                           found |-> pass.found, delivered |-> pass.delivered]
  BY <1>1 DEF SearchFails, IInv, PassTyped
<1>3. SharesTyped' /\ ArticlesDated'
  BY <1>1, <1>2, SameArticles DEF IInv, ArticlesDated
<1>4. PassTyped'
  BY <1>1, <1>2 DEF IInv, PassTyped, Stages, Configured
<1>5. AskedOnce' /\ CacheBuilt' /\ SharesHonest'
  BY <1>1, <1>2 DEF IInv, AskedOnce, CacheBuilt, SharesHonest, Asking, Configured
<1> QED
  BY <1>3, <1>4, <1>5 DEF IInv

LEMMA SaveStep ==
  ASSUME IInv, Save
  PROVE  IInv'
<1>1. /\ UNCHANGED <<providers, now, cache, share>> /\ pass.stage = "saving"
      /\ table' \in {cache.items, table} /\ refreshedOnce' = TRUE
      /\ pass' = [stage |-> "asleep", until |-> now + NextInterval]
  BY DEF Save, Asleep
<1>2. SharesTyped'
  BY <1>1 DEF IInv, SharesTyped
<1>3. ArticlesDated'
  <2>1. \A a : Dated(a) => Dated(a)'
    BY <1>1 DEF Dated, Configured
  <2> QED
    BY <1>1, <2>1 DEF IInv, ArticlesDated
<1>4. PassTyped'
  BY <1>1 DEF IInv, PassTyped, Stages
<1>5. AskedOnce' /\ CacheBuilt' /\ SharesHonest'
  BY <1>1 DEF IInv, AskedOnce, CacheBuilt, SharesHonest, Asking, Configured
<1> QED
  BY <1>2, <1>3, <1>4, <1>5 DEF IInv

\* The table's rows become shares again, with the dates they had.
LEMMA RestoreShares ==
  ASSUME IInv, Restore
  PROVE  /\ UNCHANGED <<providers, now, storms>> /\ pass' = [stage |-> "restored"]
         /\ pass.stage = "boot" /\ table' = {a \in table : a.expires >= now}
         /\ \/ share' = share /\ cache' = cache /\ table' = {}
            \/ \E shares :
                 /\ DOMAIN shares = ProviderSet
                 /\ \A p \in ProviderSet :
                      /\ IsShare(shares[p])
                      /\ shares[p].items = {a \in table' : a.by = p}
                      /\ shares[p].attemptAt = Never
                 /\ Rebuilt(shares, now, storms)
<1> DEFINE saved == Restored(table')
           Of(p) == {a \in saved : a.by = p}
           dated(p) == IF Of(p) = {} THEN Never ELSE Max({a.fetched : a \in Of(p)})
           shares == [p \in ProviderSet |->
                        [NoShare EXCEPT !.items = Of(p), !.fetchedAt = dated(p)]]
<1>1. /\ UNCHANGED <<providers, now, storms>> /\ pass' = [stage |-> "restored"]
      /\ pass.stage = "boot" /\ table' = {a \in table : a.expires >= now}
      /\ IF saved = {} THEN UNCHANGED <<share, cache>> ELSE RebuildCache(shares, now, storms)
  BY DEF Restore
<1>2. saved = table'
  BY DEF Restored
<1>3. ASSUME NEW p \in ProviderSet
      PROVE  /\ IsShare(shares[p]) /\ shares[p].items = {a \in table' : a.by = p}
             /\ shares[p].attemptAt = Never
  <2>1. PICK items, at : items = Of(p) /\ at = dated(p)
    OBVIOUS
  <2>2. shares[p] = [items |-> items, fetchedAt |-> at, attemptAt |-> Never, failedLast |-> FALSE]
    <3> HIDE DEF Of, dated
    <3> QED
      BY <2>1 DEF NoShare
  <2> HIDE DEF shares
  <2> QED
    BY <1>2, <2>1, <2>2 DEF IsShare
<1>4. DOMAIN shares = ProviderSet
  OBVIOUS
<1> HIDE DEF shares
<1>5. CASE saved = {}
  BY <1>1, <1>2, <1>5
<1>6. CASE saved # {}
  <2>1. Rebuilt(shares, now, storms)
    BY <1>1, <1>3, <1>4, <1>6, RebuildRebuilds
  <2> QED
    BY <1>1, <1>3, <1>4, <2>1
<1> QED
  BY <1>5, <1>6

LEMMA RestoreStep ==
  ASSUME IInv, Restore
  PROVE  IInv'
<1>1. /\ UNCHANGED <<providers, now, storms>> /\ pass' = [stage |-> "restored"]
      /\ pass.stage = "boot" /\ table' = {a \in table : a.expires >= now}
  BY RestoreShares
<1>2. \A a : Dated(a) => Dated(a)'
  BY <1>1 DEF Dated, Configured
<1>3. PassTyped'
  BY <1>1 DEF IInv, PassTyped, Stages
<1>4. CASE share' = share /\ cache' = cache
  <2>1. SharesTyped' /\ ArticlesDated'
    BY <1>1, <1>2, <1>4 DEF IInv, SharesTyped, ArticlesDated
  <2>2. AskedOnce' /\ SharesHonest' /\ CacheBuilt'
    BY <1>1, <1>4 DEF IInv, AskedOnce, SharesHonest, CacheBuilt, Asking
  <2> QED
    BY <1>3, <2>1, <2>2 DEF IInv
<1>5. ASSUME NEW shares, DOMAIN shares = ProviderSet,
             \A p \in ProviderSet :
               /\ IsShare(shares[p])
               /\ shares[p].items = {a \in table' : a.by = p}
               /\ shares[p].attemptAt = Never,
             Rebuilt(shares, now, storms)
      PROVE  IInv'
  <2>1. SharesTyped'
    BY <1>5 DEF Rebuilt, SharesTyped
  <2>2. \A p \in ProviderSet : \A a \in share'[p].items : a \in table /\ a.by = p
    BY <1>1, <1>5 DEF Rebuilt
  <2>3. ArticlesDated'
    <3>1. \A a \in cache'.items :
            a \in cache.items \/ \E p \in ProviderSet : a \in share'[p].items
      BY <1>5 DEF Rebuilt
    <3> QED
      BY <1>1, <1>2, <2>2, <3>1 DEF IInv, ArticlesDated
  <2>4. \A p \in ProviderSet : share'[p].attemptAt = Never
    BY <1>5 DEF Rebuilt
  <2>5. AskedOnce' /\ SharesHonest' /\ CacheBuilt'
    BY <1>1, <2>4 DEF AskedOnce, SharesHonest, CacheBuilt, Asking
  <2> QED
    BY <1>3, <2>1, <2>3, <2>5 DEF IInv
<1> QED
  BY <1>4, <1>5, RestoreShares

\* A provider is asked: its attempt is dated.
LEMMA TurnStep ==
  ASSUME IInv, NEW p \in ProviderSet, Turn(p)
  PROVE  IInv'
<1>1. /\ UNCHANGED <<providers, now, table, cache>> /\ pass.stage = "asking" /\ pass.turn = "none"
      /\ p \in pass.todo /\ share' = [share EXCEPT ![p].attemptAt = pass.at]
  BY DEF Turn, IsNext
<1>2. PICK left : pass' = [stage |-> "asking", at |-> pass.at, todo |-> pass.todo \ {p},
                           feed |-> pass.feed, turn |-> p, left |-> left,
                           found |-> pass.found, delivered |-> pass.delivered]
  BY <1>1 DEF Turn, IInv, PassTyped
<1>3. pass.at \in Nat /\ pass.at # Never /\ p # "none" /\ p \in Configured /\ pass.found = {}
      /\ p \notin pass.delivered
  BY <1>1, ConfiguredProviders DEF IInv, PassTyped, Never
<1>4. /\ DOMAIN share' = ProviderSet
      /\ \A q \in ProviderSet : q # p => share'[q] = share[q]
      /\ IsShare(share'[p]) /\ share'[p].items = share[p].items /\ share'[p].attemptAt = pass.at
  <2>1. IsShare(share[p]) /\ DOMAIN share = ProviderSet
    BY DEF IInv, SharesTyped
  <2>2. share'[p] = [share[p] EXCEPT !.attemptAt = pass.at]
    BY <1>1, <2>1
  <2>3. PICK at : at = pass.at
    OBVIOUS
  <2>4. /\ IsShare([share[p] EXCEPT !.attemptAt = at])
        /\ [share[p] EXCEPT !.attemptAt = at].items = share[p].items
        /\ [share[p] EXCEPT !.attemptAt = at].attemptAt = at
    BY <2>1, ShareAttempt
  <2> QED
    BY <1>1, <2>1, <2>2, <2>3, <2>4
<1>5. PassTyped'
  BY <1>1, <1>2, <1>3 DEF IInv, PassTyped, Stages, Configured
<1>6. SharesTyped'
  BY <1>4 DEF IInv, SharesTyped
<1>7. ArticlesDated'
  <2>1. \A a : Dated(a) => Dated(a)'
    BY <1>1 DEF Dated, Configured
  <2> QED
    BY <1>1, <1>2, <1>3, <1>4, <2>1 DEF IInv, ArticlesDated
<1>8. AskedOnce'
  BY <1>1, <1>2, <1>3, <1>4, ConfiguredProviders DEF IInv, AskedOnce, Configured
<1>9. SharesHonest'
  BY <1>1, <1>2, <1>3, <1>4, ConfiguredProviders DEF IInv, SharesHonest, Asking
<1>10. CacheBuilt'
  BY <1>1, <1>2 DEF CacheBuilt
<1> QED
  BY <1>5, <1>6, <1>7, <1>8, <1>9, <1>10 DEF IInv

LEMMA SearchStep ==
  ASSUME IInv, Search
  PROVE  IInv'
<1>1. UNCHANGED <<providers, now, table, cache, share>> /\ pass.stage = "asking" /\ pass.turn # "none"
  BY DEF Search
<1>2. PICK sent \in SUBSET Offers[pass.turn] :
        pass' = [pass EXCEPT
                   !.left = Tail(@),
                   !.found = @ \cup {Cached(a, EventOf(a, Head(pass.left)), pass.at) :
                                       a \in {b \in sent : Keeps(b, pass.at, storms)}}]
  BY DEF Search
<1> DEFINE New == {Cached(a, EventOf(a, Head(pass.left)), pass.at) :
                     a \in {b \in sent : Keeps(b, pass.at, storms)}}
<1>3. pass' = [stage |-> "asking", at |-> pass.at, todo |-> pass.todo,
               feed |-> pass.feed, turn |-> pass.turn, left |-> Tail(pass.left),
               found |-> pass.found \cup New, delivered |-> pass.delivered]
  <2>1. pass = [stage |-> "asking", at |-> pass.at, todo |-> pass.todo, feed |-> pass.feed,
                turn |-> pass.turn, left |-> pass.left, found |-> pass.found,
                delivered |-> pass.delivered]
    BY <1>1 DEF IInv, PassTyped
  <2>2. pass' = [pass EXCEPT !.left = Tail(@), !.found = @ \cup New]
    BY <1>2
  <2>3. PICK r : r = [stage |-> "asking", at |-> pass.at, todo |-> pass.todo, feed |-> pass.feed,
                      turn |-> pass.turn, left |-> pass.left, found |-> pass.found,
                      delivered |-> pass.delivered]
    OBVIOUS
  <2>4. pass' = [r EXCEPT !.left = Tail(@), !.found = @ \cup New]
    BY <2>1, <2>2, <2>3
  <2> HIDE DEF New
  <2> QED
    BY <2>3, <2>4
<1>4. pass.turn \in Configured /\ pass.turn \in ProviderSet /\ pass.at \in Nat /\ pass.at <= now
  BY <1>1, ConfiguredProviders DEF IInv, PassTyped
<1>5. \A a \in New : Dated(a) /\ a.by = pass.turn
  <2>1. ASSUME NEW b \in sent
        PROVE  /\ Dated(Cached(b, EventOf(b, Head(pass.left)), pass.at))
               /\ Cached(b, EventOf(b, Head(pass.left)), pass.at).by = pass.turn
    <3>1. b.by = pass.turn
      BY <1>4, <2>1, NewsAssumption
    <3>2. PICK e, h : e = EventOf(b, h) /\ h = Head(pass.left)
      OBVIOUS
    <3>3. PICK a : a = Cached(b, e, pass.at)
      OBVIOUS
    <3>4. a.by = b.by /\ a.fetched = pass.at /\ a.expires = pass.at + Retention[b.by]
      BY <3>3 DEF Cached
    <3>5. Dated(a) /\ a.by = pass.turn
      BY <1>4, <3>1, <3>4 DEF Dated
    <3> QED
      BY <3>2, <3>3, <3>5
  <2> QED
    BY <2>1
<1> HIDE DEF New
<1>6. SharesTyped' /\ ArticlesDated'
  BY <1>1, <1>3, <1>5, SameArticles DEF IInv, ArticlesDated
<1>7. PassTyped'
  BY <1>1, <1>3 DEF IInv, PassTyped, Stages, Configured
<1>8. AskedOnce' /\ CacheBuilt' /\ SharesHonest'
  BY <1>1, <1>3 DEF IInv, AskedOnce, CacheBuilt, SharesHonest, Asking, Configured
<1> QED
  BY <1>6, <1>7, <1>8 DEF IInv

\* The share of the provider whose turn ends is its find, or stays and is marked as failed.
LEMMA TurnEndsShares ==
  ASSUME IInv, TurnEnds
  PROVE  /\ UNCHANGED <<providers, now, table, cache, storms, refreshedOnce>>
         /\ pass.stage = "asking" /\ pass.turn \in Configured /\ pass.turn \in ProviderSet
         /\ \E items \in SUBSET pass.found :
              LET p == pass.turn
                  s == share'[p]
              IN  /\ DOMAIN share' = ProviderSet
                  /\ \A q \in ProviderSet : q # p => share'[q] = share[q]
                  /\ IsShare(s) /\ s.attemptAt = pass.at
                  /\ \/ items = {} /\ s.items = share[p].items /\ s.failedLast = TRUE
                     \/ items # {} /\ s.items = items /\ s.fetchedAt = pass.at
                  /\ pass' = [stage |-> "asking", at |-> pass.at, todo |-> pass.todo,
                              feed |-> pass.feed, turn |-> "none", left |-> pass.left,
                              found |-> {},
                              delivered |-> IF items = {} THEN pass.delivered
                                            ELSE pass.delivered \cup {p}]
<1>1. /\ UNCHANGED <<providers, now, table, cache, storms, refreshedOnce>>
      /\ pass.stage = "asking" /\ pass.turn # "none"
  BY DEF TurnEnds
<1>2. pass.turn \in Configured /\ pass.turn \in ProviderSet
  BY <1>1, ConfiguredProviders DEF IInv, PassTyped
<1>3. PICK items \in SUBSET pass.found :
        /\ share' = [share EXCEPT ![pass.turn] = Outcome(pass.turn, items)]
        /\ pass' = [pass EXCEPT !.turn = "none", !.found = {},
                                !.delivered = IF items = {} THEN @ ELSE @ \cup {pass.turn}]
  BY DEF TurnEnds
<1> DEFINE p == pass.turn
<1>4. /\ DOMAIN share = ProviderSet /\ IsShare(share[p]) /\ share[p].attemptAt = pass.at
  BY <1>1, <1>2 DEF IInv, SharesTyped, SharesHonest, Asking
<1>5. PICK s : s = Outcome(p, items)
  OBVIOUS
<1>6. /\ IsShare(s) /\ s.attemptAt = pass.at
      /\ \/ items = {} /\ s.items = share[p].items /\ s.failedLast = TRUE
         \/ items # {} /\ s.items = items /\ s.fetchedAt = pass.at
  <2>1. PICK yes \in BOOLEAN, no \in BOOLEAN : yes = TRUE /\ no = FALSE
    OBVIOUS
  <2>2. CASE items = {}
    <3>1. s = [share[p] EXCEPT !.failedLast = yes]
      BY <1>5, <2>1, <2>2 DEF Outcome
    <3>2. LET t == [share[p] EXCEPT !.failedLast = yes]
          IN  IsShare(t) /\ t.items = share[p].items /\ t.attemptAt = share[p].attemptAt
              /\ t.failedLast = yes
      BY <1>4, ShareFailed
    <3> QED
      BY <1>4, <2>1, <2>2, <3>1, <3>2
  <2>3. CASE items # {}
    <3>1. PICK o : o = [items |-> share[p].items, fetchedAt |-> share[p].fetchedAt,
                        attemptAt |-> pass.at, failedLast |-> share[p].failedLast]
      OBVIOUS
    <3>2. o = share[p]
      BY <1>4, <3>1 DEF IsShare
    <3>3. s = [o EXCEPT !.items = items, !.failedLast = no, !.fetchedAt = pass.at]
      BY <1>5, <2>1, <2>3, <3>2 DEF Outcome
    <3>4. s = [items |-> items, fetchedAt |-> pass.at, attemptAt |-> pass.at, failedLast |-> no]
      BY <3>1, <3>3
    <3> QED
      BY <2>3, <3>4 DEF IsShare
  <2> QED
    BY <2>2, <2>3
<1>7. /\ DOMAIN share' = ProviderSet /\ share'[p] = s
      /\ \A q \in ProviderSet : q # p => share'[q] = share[q]
  <2> HIDE DEF p
  <2> QED
    BY <1>2, <1>3, <1>4, <1>5 DEF p
<1>8. pass' = [stage |-> "asking", at |-> pass.at, todo |-> pass.todo,
               feed |-> pass.feed, turn |-> "none", left |-> pass.left, found |-> {},
               delivered |-> IF items = {} THEN pass.delivered ELSE pass.delivered \cup {p}]
  <2>1. PICK r : r = [stage |-> "asking", at |-> pass.at, todo |-> pass.todo, feed |-> pass.feed,
                      turn |-> pass.turn, left |-> pass.left, found |-> pass.found,
                      delivered |-> pass.delivered]
    OBVIOUS
  <2>2. r = pass
    BY <1>1, <2>1 DEF IInv, PassTyped
  <2>3. PICK d : d = IF items = {} THEN pass.delivered ELSE pass.delivered \cup {p}
    OBVIOUS
  <2>4. pass' = [r EXCEPT !.turn = "none", !.found = {}, !.delivered = d]
    BY <1>3, <2>2, <2>3
  <2> QED
    BY <2>1, <2>3, <2>4
<1> QED
  BY <1>1, <1>2, <1>6, <1>7, <1>8

LEMMA TurnEndsStep ==
  ASSUME IInv, TurnEnds
  PROVE  IInv'
<1>1. /\ UNCHANGED <<providers, now, table, cache, storms, refreshedOnce>>
      /\ pass.stage = "asking" /\ pass.turn \in Configured /\ pass.turn \in ProviderSet
  BY TurnEndsShares
<1> DEFINE p == pass.turn
           s == share'[p]
<1>2. PICK items \in SUBSET pass.found :
        /\ DOMAIN share' = ProviderSet
        /\ \A q \in ProviderSet : q # p => share'[q] = share[q]
        /\ IsShare(s) /\ s.attemptAt = pass.at
        /\ \/ items = {} /\ s.items = share[p].items /\ s.failedLast = TRUE
           \/ items # {} /\ s.items = items /\ s.fetchedAt = pass.at
        /\ pass' = [stage |-> "asking", at |-> pass.at, todo |-> pass.todo,
                    feed |-> pass.feed, turn |-> "none", left |-> pass.left, found |-> {},
                    delivered |-> IF items = {} THEN pass.delivered
                                  ELSE pass.delivered \cup {p}]
  BY TurnEndsShares
<1>3. PassTyped'
  <2>1. pass.turn # "none" /\ pass.turn \notin pass.todo
    BY <1>1, ConfiguredProviders DEF IInv, PassTyped
  <2> QED
    BY <1>1, <1>2, <2>1 DEF IInv, PassTyped, Stages, Configured
<1>4. SharesTyped'
  BY <1>2 DEF IInv, SharesTyped
<1>5. ArticlesDated'
  <2>1. \A a : Dated(a) => Dated(a)'
    BY <1>1 DEF Dated, Configured
  <2>2. \A a \in share'[p].items : Dated(a) /\ a.by = p
    BY <1>1, <1>2 DEF IInv, ArticlesDated
  <2>3. pass'.found = {}
    BY <1>2
  <2>4. \A q \in ProviderSet : \A a \in share'[q].items : Dated(a) /\ a.by = q
    BY <1>2, <2>2 DEF IInv, ArticlesDated
  <2> QED
    BY <1>1, <2>1, <2>3, <2>4 DEF IInv, ArticlesDated
<1>6. pass.at \in Nat /\ pass.at # Never
  BY <1>1 DEF IInv, PassTyped, Never
<1>7. AskedOnce'
  BY <1>1, <1>2, <1>6, ConfiguredProviders DEF IInv, AskedOnce, Configured
<1>8. SharesHonest'
  <2>1. ASSUME NEW q \in ProviderSet
        PROVE  ~ Asking(q)' /\ (share'[q].attemptAt # Never =>
                 share'[q].failedLast = TRUE \/ share'[q].fetchedAt = share'[q].attemptAt)
    <3>1. ~ Asking(q)'
      BY <1>2, <2>1, ConfiguredProviders DEF Asking, IInv
    <3>2. CASE q = p
      BY <1>2, <3>1, <3>2
    <3>3. CASE q # p
      BY <1>1, <1>2, <2>1, <3>1, <3>3 DEF IInv, SharesHonest, Asking
    <3> QED
      BY <3>2, <3>3
  <2> QED
    BY <2>1 DEF SharesHonest
<1>9. CacheBuilt'
  BY <1>1, <1>2 DEF CacheBuilt
<1> QED
  BY <1>3, <1>4, <1>5, <1>7, <1>8, <1>9 DEF IInv

\* The pass's end: the cache is rebuilt from the shares.
LEMMA MergeShares ==
  ASSUME IInv, Merge
  PROVE  /\ UNCHANGED <<providers, now, table, storms>>
         /\ pass.stage = "asking" /\ pass.turn = "none" /\ pass.todo = {}
         /\ Rebuilt(share, pass.at, storms)
         /\ \/ pass' = [stage |-> "saving", at |-> pass.at]
            \/ /\ pass' = [stage |-> "asleep", until |-> now + NextInterval]
               /\ refreshedOnce' = TRUE
<1>1. /\ UNCHANGED <<providers, now, table, storms>>
      /\ pass.stage = "asking" /\ pass.turn = "none" /\ pass.todo = {}
      /\ RebuildCache(share, pass.at, storms)
      /\ \/ pass' = [stage |-> "saving", at |-> pass.at]
         \/ pass' = Asleep /\ refreshedOnce' = TRUE
  BY DEF Merge
<1>2. DOMAIN share = ProviderSet /\ \A p \in ProviderSet : IsShare(share[p])
  BY DEF IInv, SharesTyped
<1>3. Rebuilt(share, pass.at, storms)
  BY <1>1, <1>2, RebuildRebuilds
<1> QED
  BY <1>1, <1>3 DEF Asleep

LEMMA LiveWasLive ==
  ASSUME IInv, pass.stage = "asking", NEW items, \A a \in items : Dated(a),
         NEW a \in Live(items, now)
  PROVE  a \in Live(items, pass.at)
<1>1. a \in items /\ a.expires > now
  BY DEF Live
<1>2. now \in Nat /\ pass.at \in Nat /\ pass.at <= now /\ Configured \subseteq ProviderSet
  BY ConfiguredProviders DEF IInv, PassTyped
<1>3. a.expires \in Nat
  BY <1>1, <1>2, RetentionTyped DEF Dated
<1> QED
  BY <1>1, <1>2, <1>3 DEF Live

LEMMA MergeStep ==
  ASSUME IInv, Merge
  PROVE  IInv'
<1>1. /\ UNCHANGED <<providers, now, table, storms>>
      /\ pass.stage = "asking" /\ pass.turn = "none" /\ pass.todo = {}
      /\ Rebuilt(share, pass.at, storms)
      /\ \/ pass' = [stage |-> "saving", at |-> pass.at]
         \/ /\ pass' = [stage |-> "asleep", until |-> now + NextInterval]
            /\ refreshedOnce' = TRUE
  BY MergeShares
<1>2. PassTyped'
  BY <1>1 DEF IInv, PassTyped, Stages
<1>3. SharesTyped'
  BY <1>1 DEF Rebuilt, SharesTyped
<1>4. \A p \in ProviderSet :
        /\ share'[p].items \subseteq share[p].items /\ share'[p].attemptAt = share[p].attemptAt
        /\ share'[p].fetchedAt = share[p].fetchedAt /\ share'[p].failedLast = share[p].failedLast
  BY <1>1 DEF Rebuilt
<1>5. ArticlesDated'
  <2>1. \A a : Dated(a) => Dated(a)'
    BY <1>1 DEF Dated, Configured
  <2>2. \A a \in cache'.items : a \in cache.items \/ \E p \in ProviderSet : a \in share'[p].items
    BY <1>1 DEF Rebuilt
  <2> QED
    BY <1>1, <1>4, <2>1, <2>2 DEF IInv, ArticlesDated
<1>6. AskedOnce'
  BY <1>1, <1>4, ConfiguredProviders DEF IInv, AskedOnce, Configured
<1>7. SharesHonest'
  <2>1. \A q \in ProviderSet : ~ Asking(q) /\ ~ Asking(q)'
    BY <1>1, ConfiguredProviders DEF Asking, IInv
  <2> QED
    BY <1>4, <2>1 DEF IInv, SharesHonest
<1>8. CacheBuilt'
  <2>1. ASSUME NEW p \in ProviderSet, Live(share'[p].items, now) # {}
        PROVE  cache' # NoCache
    <3>1. \A a \in share'[p].items : Dated(a)
      BY <1>4 DEF IInv, ArticlesDated
    <3>2. Live(share'[p].items, pass.at) # {}
      BY <1>1, <2>1, <3>1, LiveWasLive
    <3> QED
      BY <1>1, <3>2 DEF Rebuilt
  <2> QED
    BY <1>1, <2>1 DEF CacheBuilt
<1> QED
  BY <1>2, <1>3, <1>5, <1>6, <1>7, <1>8 DEF IInv

LEMMA IInvStep == IInv /\ [Next]_vars => IInv'
<1>1. ASSUME IInv, UNCHANGED vars
      PROVE  IInv'
  BY <1>1 DEF vars, IInv, PassTyped, SharesTyped, ArticlesDated, AskedOnce, SharesHonest,
     CacheBuilt, Dated, Configured, Asking
<1> QED
  BY <1>1, TickStep, RestartStep, RestoreStep, RestoreFailsStep, BeginStep, LoadEventsStep,
     TurnStep, SearchStep, SearchFailsStep, TurnEndsStep, MergeStep, SaveStep DEF Next, Pass

-----------------------------------------------------------------------------
(***************************************************************************)
(* The theorems                                                            *)
(***************************************************************************)
\* What the pass, the shares, the cache and the table hold of each other, in every state.
THEOREM InvariantHolds == Spec => []IInv
<1>1. Init => IInv
  BY IInvInit
<1>2. IInv /\ [Next]_vars => IInv'
  BY IInvStep
<1> HIDE DEF IInv
<1> QED
  BY <1>1, <1>2, PTL DEF Spec

\* An article is served within the time its provider allows after the pass that fetched it,
\* through failures, merges, the table and restarts (news.service.js:33): whoever keeps it
\* keeps the dates of that pass.
THEOREM LicencesAreKept == Spec => []ExpiredIsNeverServed
<1>1. IInv => ExpiredIsNeverServed
  <2> SUFFICES ASSUME IInv, NEW a \in Served
               PROVE  now < a.fetched + Retention[a.by]
    BY DEF ExpiredIsNeverServed
  <2>1. a \in cache.items /\ a.expires > now
    BY DEF Served, Live
  <2>2. Dated(a) /\ a.by \in ProviderSet
    BY <2>1, ConfiguredProviders DEF IInv, ArticlesDated, Dated
  <2>3. now \in Nat /\ Retention[a.by] \in Nat
    BY <2>2, RetentionTyped DEF IInv, PassTyped
  <2> QED
    BY <2>1, <2>2, <2>3 DEF Dated
<1>2. Spec => []IInv
  BY InvariantHolds
<1> QED
  BY <1>1, <1>2, PTL

\* Between two passes, news not called stale come from a provider whose last attempt gave
\* what it contributes (news.service.js:34-36).
THEOREM TheStaleFlagIsHonest == Spec => []StaleIsHonest
<1>1. IInv => StaleIsHonest
  <2> SUFFICES ASSUME IInv, pass.stage = "asleep", Contributing # {}, ~ Stale
               PROVE  \E p \in Contributing : share[p].fetchedAt = share[p].attemptAt
    BY DEF StaleIsHonest
  <2>1. cache # NoCache /\ refreshedOnce = TRUE
    BY DEF IInv, CacheBuilt, Contributing
  <2>2. PICK p \in Contributing : ~ share[p].failedLast
    BY <2>1 DEF Stale
  <2>3. p \in ProviderSet /\ p \in Configured
    BY DEF Contributing, Live, IInv, ArticlesDated, Dated
  <2>4. share[p].attemptAt # Never /\ ~ Asking(p) /\ share[p].failedLast \in BOOLEAN
    BY <2>3 DEF IInv, AskedOnce, Asking, SharesTyped, IsShare
  <2> QED
    BY <2>2, <2>3, <2>4 DEF IInv, SharesHonest
<1>2. Spec => []IInv
  BY InvariantHolds
<1> QED
  BY <1>1, <1>2, PTL

-----------------------------------------------------------------------------
(***************************************************************************)
(* Nothing is lost                                                         *)
(***************************************************************************)
RuledOut(a) == ~ KeepsCached(a, now, storms')
Delivers(p) ==
  pass.stage = "asking" /\ pass'.stage = "asking" /\ p \in pass'.delivered \ pass.delivered
IsCached(a) == \E b \in cache'.items : b.id = a.id

KeepsShares ==
  restarts' = restarts =>
    \A p \in ProviderSet : \A a \in share[p].items :
      a \in share'[p].items \/ RuledOut(a) \/ Delivers(p)
KeepsStories ==
  pass.stage = "asking" /\ pass'.stage \in {"saving", "asleep"} =>
    \A p \in ProviderSet : \A a \in Live(share'[p].items, now) : IsCached(a)
KeepsTable ==
  pass.stage = "boot" /\ Restore => \A a \in Live(table, now) : IsCached(a) \/ RuledOut(a)

LEMMA TheTableIsKept ==
  ASSUME IInv, Restore, NEW a \in Live(table, now)
  PROVE  IsCached(a) \/ RuledOut(a)
<1>1. a \in table /\ a.expires > now
  BY DEF Live
<1>2. Dated(a) /\ a.by \in ProviderSet /\ now \in Nat
  BY <1>1, ConfiguredProviders DEF IInv, ArticlesDated, Dated, PassTyped
<1>3. a.expires \in Nat
  BY <1>2, RetentionTyped DEF Dated
<1>4. a \in table' /\ storms' = storms
  BY <1>1, <1>2, <1>3, RestoreShares
<1>5. PICK shares :
        /\ \A p \in ProviderSet : shares[p].items = {b \in table' : b.by = p}
        /\ Rebuilt(shares, now, storms)
  BY <1>4, RestoreShares
<1>6. CASE KeepsCached(a, now, storms)
  <2>1. a \in share'[a.by].items
    BY <1>2, <1>4, <1>5, <1>6 DEF Rebuilt
  <2>2. a \in Live(share'[a.by].items, now)
    BY <1>1, <2>1 DEF Live
  <2> QED
    BY <1>2, <1>5, <2>2 DEF Rebuilt, IsCached
<1> QED
  BY <1>4, <1>6 DEF RuledOut

LEMMA MergeKeeps ==
  ASSUME IInv, Merge
  PROVE  KeepsShares /\ KeepsStories
<1>1. /\ storms' = storms /\ pass.stage = "asking"
      /\ Rebuilt(share, pass.at, storms)
  BY MergeShares
<1>2. KeepsShares
  BY <1>1 DEF KeepsShares, RuledOut, Rebuilt
<1>3. ASSUME NEW p \in ProviderSet, NEW a \in Live(share'[p].items, now)
      PROVE  IsCached(a)
  <2>1. share'[p].items \subseteq share[p].items
    BY <1>1 DEF Rebuilt
  <2>2. \A b \in share'[p].items : Dated(b)
    BY <2>1 DEF IInv, ArticlesDated
  <2>3. a \in Live(share'[p].items, pass.at)
    BY <1>1, <2>2, LiveWasLive
  <2> QED
    BY <1>1, <2>3 DEF Rebuilt, IsCached
<1> QED
  BY <1>2, <1>3 DEF KeepsStories

LEMMA TurnKeeps ==
  ASSUME IInv, TurnEnds
  PROVE  KeepsShares /\ pass'.stage = "asking"
<1> DEFINE p == pass.turn
           s == share'[p]
<1>1. PICK items \in SUBSET pass.found :
        /\ \A q \in ProviderSet : q # p => share'[q] = share[q]
        /\ \/ items = {} /\ s.items = share[p].items
           \/ items # {}
        /\ pass' = [stage |-> "asking", at |-> pass.at, todo |-> pass.todo,
                    feed |-> pass.feed, turn |-> "none", left |-> pass.left, found |-> {},
                    delivered |-> IF items = {} THEN pass.delivered
                                  ELSE pass.delivered \cup {p}]
  BY TurnEndsShares
<1>2. pass.stage = "asking" /\ p \in ProviderSet
  BY TurnEndsShares
<1>3. p \notin pass.delivered
  BY <1>2, ConfiguredProviders DEF IInv, PassTyped
<1>4. pass'.stage = "asking"
  BY <1>1
<1>5. items # {} => Delivers(p)
  BY <1>1, <1>2, <1>3, <1>4 DEF Delivers
<1> QED
  BY <1>1, <1>4, <1>5 DEF KeepsShares

LEMMA AskingKeeps ==
  ASSUME IInv, NEW p \in ProviderSet, Turn(p)
  PROVE  KeepsShares
<1>1. share' = [share EXCEPT ![p].attemptAt = pass.at]
  BY DEF Turn
<1>2. DOMAIN share = ProviderSet /\ IsShare(share[p])
  BY DEF IInv, SharesTyped
<1>3. PICK at : at = pass.at
  OBVIOUS
<1>4. [share[p] EXCEPT !.attemptAt = at].items = share[p].items
  BY <1>2, ShareAttempt
<1>5. share'[p].items = share[p].items /\ \A q \in ProviderSet : q # p => share'[q] = share[q]
  BY <1>1, <1>2, <1>3, <1>4
<1> QED
  BY <1>5 DEF KeepsShares

LEMMA RestoreKeeps ==
  ASSUME IInv, Restore
  PROVE  KeepsShares
BY DEF Restore, IInv, CacheBuilt, KeepsShares

Counted == restarts \in Nat

LEMMA RestartsCounted == Spec => []Counted
<1>1. Init => Counted
  BY DEF Init, Counted
<1>2. Counted /\ [Next]_vars => Counted'
  <2> SUFFICES ASSUME Counted, [Next]_vars
               PROVE  Counted'
    OBVIOUS
  <2>1. CASE Restart
    BY <2>1 DEF Restart, Counted
  <2>2. CASE restarts' = restarts
    BY <2>2 DEF Counted
  <2>3. CASE Tick \/ Restore \/ RestoreFails \/ FirstPass \/ TimerFires
    BY <2>2, <2>3 DEF Tick, Restore, RestoreFails, FirstPass, TimerFires
  <2>4. CASE Pass
    BY <2>2, <2>4 DEF Pass, LoadEvents, Turn, Search, SearchFails, TurnEnds, Merge, Save
  <2> QED
    BY <2>1, <2>2, <2>3, <2>4 DEF Next, vars
<1> QED
  BY <1>1, <1>2, PTL DEF Spec

LEMMA QuietKeeps ==
  ASSUME share' = share
  PROVE  KeepsShares
BY DEF KeepsShares

\* A provider that fails keeps what it fetched before, a merge leaves every live story in the
\* cache, and a restart serves what the table holds (news.service.js:13-15, 31-32).
THEOREM OthersFailuresLoseNothing == Spec => NothingIsLost
<1>1. IInv /\ Counted /\ [Next]_vars => KeepsShares /\ KeepsStories /\ KeepsTable
  <2> SUFFICES ASSUME IInv, Counted, [Next]_vars
               PROVE  KeepsShares /\ KeepsStories /\ KeepsTable
    OBVIOUS
  <2>1. KeepsTable
    BY TheTableIsKept DEF KeepsTable
  <2>2. KeepsStories
    <3>1. CASE Merge
      BY <3>1, MergeKeeps
    <3>2. CASE TurnEnds
      BY <3>2, TurnKeeps DEF KeepsStories
    <3>3. ASSUME ~ Merge, ~ TurnEnds, pass.stage = "asking", pass'.stage \in {"saving", "asleep"}
          PROVE  FALSE
      <4>1. pass'.stage # pass.stage
        BY <3>3
      <4>2. ~ UNCHANGED pass
        BY <4>1
      <4>3. ~ Restart /\ ~ Tick /\ ~ Restore /\ ~ RestoreFails /\ ~ FirstPass /\ ~ TimerFires
            /\ ~ LoadEvents /\ ~ Save
        BY <3>3, <4>2 DEF Restart, Forget, Tick, Restore, RestoreFails, FirstPass, TimerFires,
           LoadEvents, Save
      <4>4. \A p \in ProviderSet : ~ Turn(p)
        BY <3>3 DEF Turn, IInv, PassTyped
      <4>5. ~ Search /\ ~ SearchFails
        BY <3>3 DEF Search, SearchFails, IInv, PassTyped
      <4> QED
        BY <3>3, <4>2, <4>3, <4>4, <4>5 DEF Next, Pass, vars
    <3> QED
      BY <3>1, <3>2, <3>3 DEF KeepsStories
  <2>3. KeepsShares
    <3>1. CASE share' = share
      BY <3>1, QuietKeeps
    <3>2. CASE Restart
      <4>1. restarts' # restarts
        BY <3>2 DEF Restart, Counted
      <4> QED
        BY <4>1 DEF KeepsShares
    <3> QED
      BY <3>1, <3>2, MergeKeeps, TurnKeeps, AskingKeeps, RestoreKeeps
         DEF Next, Pass, vars, Tick, RestoreFails, FirstPass, TimerFires, LoadEvents, Search,
             SearchFails, Save, memory
  <2> QED
    BY <2>1, <2>2, <2>3
<1>2. Spec => []IInv
  BY InvariantHolds
<1> QED
  BY <1>1, <1>2, RestartsCounted, PTL DEF Spec, NothingIsLost, KeepsShares, KeepsStories, KeepsTable, RuledOut,
     Delivers, IsCached
=============================================================================
