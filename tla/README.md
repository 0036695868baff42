# DisasterWatch: TLA+ specifications, model checking and proofs

DisasterWatch collects natural disasters from public feeds, shows them on a map
and alerts users whose subscriptions match, in the app and by e-mail.  This
directory specifies the parts of it whose correctness depends on interleavings,
failures and restarts, and the rules that turn its data into what users see.
Paths below are relative to the repository (`backend/`, `notification-service/`,
`disasterwatch-frontend/`); `PROJECT.json` maps every definition to its lines and
lists runs, mutants, findings, hazards and theorems.

## 1. The system

| Component | State it keeps | Operations | Talks to |
|---|---|---|---|
| Ingestion and outbox (`backend/src/jobs/ingest.js`, `services/kafkaProducer.js`, `routes/events.routes.js`) | rows of `IngestedEvent`, `publishedAt` | fetch two feeds, record new events, publish unpublished rows, mark them | feeds, database, Kafka topic `disaster-events` |
| Ingestion runner and wake (`ingest.js`, `routes/internal.routes.js`) | the run under way, the last run | start, join, skip | ingestion |
| Matching (`notification-service/src/match.js`) | the best candidate row per user, in memory | `shouldNotify`, `buildNotifications` | called by the consumer |
| Alert consumer (`notification-service/index.js`, `handler.js`, `db.js`) | partition position, committed offset, rows of `Notification` | validate, match, insert, commit | topic, database, e-mail dispatcher (`schedule`) |
| E-mail dispatcher (`notification-service/src/email/`) | rows of `EmailDelivery`, e-mail fields of `Notification` and `User`; run in memory | claim, lease, read, render, send, mark, finish | database, Resend API |
| Alerts API, e-mail links (`backend/src/routes/alerts`, `email`) | `AlertSubscription`, e-mail fields of `User` | create, edit and delete subscriptions; opt in and out; confirm | database |
| Accounts, sessions, admin (`routes/users`, `admin`, `middleware/auth`, `utils/accountDeletion.js`, `audit.js`) | `User` with its token version, `AdminAuditLog`; cookie and session hint in the browser | sign up, in and out, disable, enable, erase, log | database |
| Feed service (`services/feed.service.js`, `nasa`, `usgs`) | per source: data, last failure, fetch under way | refresh, serve stale, give a verdict | sources |
| GDACS client (`services/gdacs*.js`) | look-ups under way, answers in memory and in the database | look up, rate, flush | GDACS API, database |
| News (`services/news*.js`, `newsProviders/`) | a share per provider, the merged cache, stored rows, back-off gates | ask, merge, store, restore, serve | Guardian, GDELT, GDACS |
| News linking and relevance (`newsRelevance.js`, `newsLinking.js`, `newsLocation.js`) | none | keep or drop an article, link it, locate it | news |
| Severity and normalisation (`utils/severity.js`, `eventTypes`, `normalize*`, `eventDetails`) | none | rate, describe, date and place an event | feed, ingestion, GDACS |
| Frontend data (`DashboardPage.tsx`, `feedCache.ts`) | the module-level feed cache, the loads under way | load, abort, retry | feed service |
| Frontend pages and map (`DashboardPage.tsx`, `MapView.tsx`, `App.tsx`, the account and admin pages) | selection, filter, search, page, the map's flight, session of the app | links, selection, flights, guards | all of the above |

Behaviours that are hard to get right, and to test:

* two backends during a deploy read the same unpublished rows; a backend dies
  between the send of a chunk and the statement that marks it;
* a wake-up call decides on a run that starts, ends or fails around it;
* the consumer is at-least-once: a message comes again after a crash or a
  rebalance, perhaps to another consumer, when subscriptions have changed, and
  two consumers may insert the rows of one message at once;
* users edit, delete and close their accounts between the load of the
  subscriptions and the insert;
* a send may be accepted and the answer lost; the instance may die before it
  records it; the retry must fall into the provider's memory of the key;
* two instances of the dispatcher claim against one daily limit and share
  deliveries through a lease that counts from the start of the run;
* accounts opt out, opt in again, are confirmed, disabled or deleted between any
  two statements of a run, and a deletion is several statements itself;
* a look-up of GDACS holds on to the entry it started from while the stored
  answers load, other callers join it, and saves are on their way;
* requests wait for two sources that settle in either order, and their verdict
  is drawn from what is known then; a page is left while its load is under way, or
  between its rendering and its effects;
* one news provider of three fails while the others deliver, and a restart reads
  the articles back from the table;
* a disable, an enable, a deletion and a sign-in of one account overlap, with
  answers lost or late in the browser;
* a link is opened on a cached feed, a failing one or none; a selection, a
  reload and a resize meet a flight of the map that waits for a timer.

What makes each component correct: nothing marked published is missing from the log;
every listed event reaches the log and is handled; a wake-up is told the truth; one
alert per user and event, none missed for a stable subscription, none that names
nothing; the row a user gets names (nearly) the closest subscription; no notification is
e-mailed twice while runs are short enough, all are accounted for, limits hold, nothing
goes to an address that was not confirmed, the rows a deletion has blanked stay empty;
an answer of GDACS is served until it is too old or a newer one replaces it; an answer
of the feed is as fresh as it says, and its sources are left alone after a failure; no
article outlives its licence or is lost to another provider's failure; a session ended
by a disable or a deletion stays ended, the audit log agrees with the accounts, and an
admin has proven password and mailbox; every link is answered, and the map goes to the
selection and stays where the user takes it.

## 2. Modules

| Module | Models | Composed with |
|---|---|---|
| `Matching` | `typeMatches`, `severityMatches`, `matchesSubscription`, `shouldNotify`, the rounding | used by the next and by `AlertConsumer` |
| `MatchingLoop` | the loop of `buildNotifications`, one subscription a step | `Matching` |
| `IngestOutbox` | `ingestOnce`, `recordNewEvents`, `publishOutbox`, admin publish, several backends | |
| `IngestRunner` | the runner, its timer, the wake endpoint, restarts | `IngestOutbox` |
| `AlertConsumer` | `eachMessage`, `handleMessage`, `insertNotifications`, consumer group, subscription routes | `Matching` |
| `AlertService` | abstract: events become known, open accounts are alerted once; alerts are counted | |
| `AlertPipeline` | outbox and consumer joined at the topic | extends `AlertConsumer`, an instance of `IngestOutbox`; refines `AlertService` |
| `EmailDispatcher` | the dispatcher, the provider, the accounts as it sees them | |
| `GdacsClient` | look-ups, answers in memory and in the table, their load and flush, the callers | |
| `FeedService` | `getFeed`: cache, shared fetch, back-off, verdict | |
| `FeedClient` | the loads of the dashboard and its cached feed | |
| `LiveFeed` | both over one network | `FeedService`, `FeedClient` |
| `NewsRules` | relevance, linking, location, rotation of searches, as operators | |
| `NewsService` | the passes of the loop, shares, merge, table, gates, `GET /news` | `NewsRules` |
| `Accounts` | the account and admin routes, statement by statement | |
| `AccountPages` | the browsers: session, guards, pages, users tab | `Accounts` |
| `Severity` | ratings, thresholds, sentences, scales, places and dates of readings | |
| `FeedPage` | what is made of the data: items, counts, filter, search, sort, figures, markers, headline | `Severity` |
| `MapFlight` | clusters, and the flight to the highlighted event | |
| `Dashboard` | the page: links, selection, handlers, phone views, loads | `FeedPage`, `FeedClient`, `MapFlight` |
| `IngestOutboxProofs` | theorems about the outbox and its runner | `IngestOutbox`, `IngestRunner` |
| `AlertPipelineProofs` | theorems about the consumer, the matching loop and the pipeline | `AlertPipeline`, `MatchingLoop` |
| `LiveFeedProofs`, `EmailDispatcherProofs`, `GdacsClientProofs`, `NewsServiceProofs`, `DashboardProofs` | theorems | the module they are named for |
| `AccountsProofs` | theorems about the accounts with their pages | `AccountPages` |
| `MC*` | values, symmetry and start states for TLC | |

Modules of the server have an action per database statement or transaction and
per request, because these are the points where another process can come in
between; code between two of them is part of the step it belongs to.  In the
browser a step is an event handler with the rendering and the effects it causes.

**IngestOutbox.** `feed` is what the two feeds list; `recorded` and `published`
are `IngestedEvent` in insertion order; `topic` is the log.  A backend is at
`pc[b]`: `Fetch` (fetch of both sources and look-up of what is recorded,
`ingestOnce` 150-191), `Record` (the INSERTs, `skipDuplicates`), `QueryOutbox`,
`Publish` (one chunk), `PublishFails` (a send that may have delivered a part),
`Mark`.  `Interrupted` is a crash, a restart or a failed statement.
Simplifications: the INSERTs of two backends do not interleave inside one
statement; an event stays in its feed; ratings of GDACS events are left out.

**IngestRunner.** A run of backend `b` is under way while its `pc` of
`IngestOutbox` is not idle.  `due` is a fired timer, `last` what the runner keeps
of its last run, `wakes` the calls of `POST /internal/ingest`.  `Works` is a
statement of the run, with the end of the run (`Ends`) in the step that reaches it;
`Throws` a statement that fails; `Restart` a process that is stopped or put to
sleep.  `Wake` reads the last run and the run under way in one step, as
`wake` does between two awaits.  `covers` is history: what the run answers for.
Left out: the secret, the rate limit and the seconds of the throttle (ticks).

**Matching, MatchingLoop.** Distances are in hundredths of a kilometre and come
from the table `Distance`; a row keeps the rounded distance, and `Replaces`
compares an exact distance with it, as the code does.

**AlertConsumer.** `users`, `subs`, `notifications` are the tables, `committed`,
`owner` and `position` the consumer group (external), `pc` and `built` what a
consumer holds between two statements.  `Match` is the subscription query and
the matching on its reply; `Insert` is the `INSERT ... ON CONFLICT DO NOTHING`,
and `InsertRejected` the foreign-key violation after a deletion, upon which the
message is handled again.  A rebalance can take the partition while the old
owner is between the two.  Events of admins that lie in the future are left out.
`Produce(batch)` appends what a producer sends at once: `Spec` bounds the topic,
for TLC; `OpenSpec` leaves the producers free, and the consumer is proved
correct under it.

**AlertPipeline.** A step is a step of either module: what the outbox appends is
a batch that the consumer's module sees produced.  Events enter the feeds once
they happened.  `Service` maps tables and log to `AlertService`: an alert there is a
count per user and event, and the rows of the table are counted for it (`TimesTold`).
`Alert` asks for users who were not alerted about the event yet, so a second row for
the same user and event is a step the service does not have.
`ImplementsAlertService` checks every step against it.

**EmailDispatcher.** `accounts`, `notes`, `deliveries` are the tables' e-mail
fields, `mails` what the provider accepted.  An instance goes through `Start`,
`Claim` (the locked transaction, lines 111-184, all of it in one step), `List`,
and for each delivery `TakeLease`/`Busy`, `Read` (the row is read again and
everything that stops the send is checked), `Prepare`, `Store`, `Send` (accepted,
accepted with the answer lost, refused for now, refused for good),
`MarkSent`/`MarkRefused`, `Finish`.  `DatabaseError` ends the claim or drops the
delivery at hand, `Crash` ends the run.  `OptIn`, `OptOut`, `Confirm`,
`SetDisabled`, `Notify` and the deletion of an account come in anywhere.  The
deletion is three steps of one transaction at READ COMMITTED
(`accountDeletion.js:19-26`): `EraseCancel` and `EraseBlank` each see the rows that
are there when they run (`erasing`), and `Erase` deletes the user and commits; a row
claimed in between is `missed`.  The rows the transaction has written are locked
until it ends (`Locked`); a clash with a claim is `DatabaseError` or `EraseAborts`.  Nothing
bounds a run: leases and ages are taken from its start (`started`), time passes under
it, and `longest` keeps the longest time a run has lasted, for properties to refer to.
`made`, `missed`, `longest`, and `proven` of an account (its owner has used a
confirmation link), are history for the properties.  Left out: the text, the debounce of
`schedule` (a run may start at any time), the status row; the account routes are one
step each; an account with e-mail on always has its unsubscribe token
(`alerts.routes.js` sets them together).

**GdacsClient.** `cache`, `inflight`, `unsaved` and the save under way (`saves`)
are the maps of `gdacs.js`; `load` is `loadPromise` with its time limit; `stored`
is `GdacsCache`.  An answer is the moment it was fetched, so that "newer" can be
said.  A caller (the public feed or the ingestion job) is at `stage[c][k]` with
each of its events: `queued`, `loading` (waits for the load), `asking` (waits for
the request that is under way).  `Hit` and `Ask` are the two ends of the look in
the cache, `Answered` and `AskFails` settle a request for everyone who waits for
it, with the entry that was found *before* the request (`gdacs.js` 263-276).
`Flush`, `Saved`, `SaveFails` are the serialised saves.  `lastFailure` is history.

**FeedService, FeedClient, LiveFeed.** `source[s]` is a slot of the cache (the date
of its data, its last failure, the fetch under way), `calls` the requests of a
browser.  `GetFeed` starts or joins the fetches; `FetchSucceeds` and `FetchFails`
settle one and answer every call that waits for nothing else, from what is known
of the sources *then*.  `failedAt` is the time the fetch was started, as in the
code.  `FeedClient` has `cached` (feedCache.ts), the state of the mounted page
(`screen`) and what each load was made for: `mount`, `again`, or `orphan` once the
page it was made for is gone.  `Mount` is the rendering, which reads the cache in the
initial state; `MountEffect` is the passive effect, a later task, which reads it again
and makes a load or skips it.  An answer to a load of the page before can come in
between.  `LiveFeed` runs one page with two loads against the service.

**NewsRules, NewsService.** A headline is what the rules read out of it (markers,
hazards, strong, weak and impact words, places, storm names); the word lists are
data of the model.  `Keeps` is the relevance rule (`KeepsCached` for
what is stored already), `Linked` the event an article is about, `Place` where it is
shown, `Plan` the rotation of the searches.  A pass goes from
`LoadEvents` through a `Turn` of each provider that is due, its `Search`es
(which may fail, or be refused by the gate of `backoff.js`), `TurnEnds`, to
`Merge` and `Save`.  `Restart` keeps the table only; `Restore` reads it back.
`share` holds what a provider delivered last, `cache` what is served.

**Accounts, AccountPages.** `calls[r]` is a request with the stage it is at:
`auth`, `read`, `session`, `write`, `hold`, `erase`, `delete`, `commit`, `done`;
what it read is kept in it and used later, as in the handler.  A transaction
holds the row (`locked`) from the statement that writes it to its commit; a deletion
masks at its commit what its updates saw, audit rows by id and manual disasters by
address.  The
browsers add a cookie, the session hint, the user the app believes in, and the
users tab with its selected row.  Answers arrive in any order, may be lost after
the server did its work, and are dropped by a reload.

**Severity, FeedPage.** Operators over small records.  A reading has a value, a
unit, a place and an age; rounding is modelled by what it does (magnitudes are in
hundredths, areas are rounded to the hectare and, in the sentence, to the
thousand).  `MCDashboard` checks them with ASSUMEs that TLC evaluates before the
run: a page is within its limit, has no event twice and drops only weaker quakes;
counts cover the page; the headline is of the highest severity; the sentence of
every rating agrees with the rating but for three values (see the observations);
a thinned-out series keeps its ends.

**MapFlight, Dashboard.** `ui` is the state of the page besides the feed, `map` the
mounted map. A flight is aimed by an effect, waits for a timer (`TimerFires`) and a
frame (`TakeOff`), and lands (`Land`); `armed` is the resize listener, `disarms` the
moveend or guard that removes it. A change of the map's container fires `moveend` and
then `resize` (`Resize`); one of the window fires `resize` first, which aims a flight
under way again, and `moveend` later (`WindowResize`, `LateMoveEnd`). `Open` renders the
page, `Opened` runs its first effects. `Render` is a handler's new state with what React
does about it: the link effect, the page reset, the effect that aims the flight.
`Once(x, F)` (of `FeedPage`) and `\E done \in {...}` only make TLC evaluate an argument
once; `Once(x, F)` equals `F(x)`. `Clusters` are groups up to a zoom (`ApartFrom`),
which stands for supercluster's distances.

## 3. Runs

Invariants unless marked; every property has a mutant, a plausible bug in a
mapped definition that the same run refutes.

| Run | Shows | Bounds |
|---|---|---|
| `matching_loop` | `RowIffMatched`, `WinnerNearlyClosest` over every list of up to three subscriptions in every order | three subscriptions are the least where the rounding can be applied twice |
| `ingest_runner` | `MarkedIsInTopic`, `DuplicatesBounded`, `DrainedInOrder`, `WakeAnswerIsTrue`; `ListedIsPublished` (liveness) | one backend, since each process has a runner of its own (the theorems of section 5 are for any number of them); an event per source, a chunk of one row so that a batch has two chunks, two faults, one wake-up after another |
| `alert_consumer` | `AtMostOnePerUserEvent`, `NoMissedAlert`, `AlertsAreAnchored`; `AlertsStay` (action); `EventuallyHandled` (liveness) | two consumers, a user with two subscriptions, two messages (an event and its redelivery, or an invalid one), a fault, a clock that goes until the event is too old; `pipeline` adds the second source of events |
| `pipeline` | `ImplementsAlertService` (refinement), `ListedIsHandled` (liveness) | a backend, two consumers, one event that is listed and one published by an admin, two subscriptions that are not edited, one fault on either side (`OneFailure`) |
| `email` | `NeverEmailedTwice`, `EmailedWasAccepted`, `OneSender`, `CountedWithinLimit`, `DigestOnlyToConfirmed` | two instances; either a new user who asks for e-mail beside a subscriber who may be deleted, with a confirmation and two digests for a limit of two, or a subscriber alone with a fault at any step and time past the key window (`Scenarios`); runs that outlast their lease and each of the bounds the properties name |
| `email_live` | `OutcomeRecorded`, `ErasedStaysEmpty`; `EventuallySettled`, `EventuallyAccounted` (liveness) | one instance; two notifications, or one of an account that opts in or out, confirms, is disabled or deleted (`OneKindOfChange` cuts only steps without fairness); a clock past three windows; a fault in the first two ticks, so that leases run out |
| `email_given_up` | finding, see below | the least instance that shows it |
| `gdacs` | `RefreshKeepsAnswer`, `FailureIsRemembered`, `StoreMovesForward`, `ServedIsFresh` (actions); `EventuallyRated` (liveness) | one key, a feed and a job that share it, a fault or restart, times in ticks with the code's order (`FailureTtl`, `StoreRetry` < `Ttl` < `StaleMax` < the clock) |
| `live_feed` | `AnswerIsHonest`, `SkeletonHasLoad`; `SourcesAreSpared` (action) | both sources, two calls (two may wait with different times for one fetch), a clock past `StaleMax` + `MaxFetch`, `ColdRetry` < `Retry` as in the code |
| `news` | `ExpiredIsNeverServed`, `StaleIsHonest`; `NothingIsLost` (action) | GDELT with The Guardian or GDACS, a story each of which one may be ruled out later, one restart, a clock past every retention, passes that take a tick |
| `account_pages` | `EndedStaysEnded`, `AuditIsTrue`, `AdminHasProvenBoth` | two people, one whose address is listed, two requests at a time, two accounts, two rows of the log, from no account or from an established admin; four requests of the pages, since a disable, an enable and the sign-ins around them need no more |
| `dashboard` | `ListenerIsBrief`; `LinkIsAnswered`, `SelectionIsFlownTo` (liveness); the ASSUMEs on the functions | data of two dates with every type, an event that leaves the feed, two that cannot be told apart on the map, a link to an event that is there or is not, three moves of the user (leaving the page is not one), two loads |

Time in `EmailDispatcher` is in ticks with the order of the code's constants:
`Lease` and `DeliveryMaxAge` below `Window`.  The code bounds no run: a dozen sends
that each take the client's 15 seconds outlast the lease of three minutes
(`dispatcher.js:230`, `:303`).  So three properties say under which runs they hold, as
a condition on the longest one so far:
* `OneSender`: `longest <= Lease`;
* `NeverEmailedTwice`: `DeliveryMaxAge + longest < Window`, in the code an hour;
* `CountedWithinLimit`: `longest <= Lease` and `DeliveryMaxAge + 2 * longest < Window`,
  and it is about the accounts that are left (`Ours`).

A condition may fail later in the same behaviour; it says nothing about the runs to
come.  In the run a `Lease` of 0 covers the tick in which a run starts, so that within
four ticks runs stay below each bound and exceed it.  `OutcomeRecorded` is only claimed
with one instance, because of the finding.  `EventuallyAccounted` is about
notifications that are to be e-mailed while they are younger than a window, and has no
exception for those that get too old while they wait: the clock goes past the cut of
three windows (`dispatcher.js:143-146`), and `TimelySpec` assumes a run in every window
(section 4).  With a clock that may outrun the runs TLC shows that a notification is
forgotten.

Two properties of the browser name the one case they exclude: `SkeletonHasLoad` and
`LinkIsAnswered` leave out a page that was rendered before a load of the page before
("Try again") stored its answer, and whose effect came after it (see below).

`CHECK_DEADLOCK FALSE` is set where the bounds on time, faults, messages or moves
stop the model; the programs themselves wait for the next timer or message.

**Finding.** `SkipMeansNoEmail` (`email_given_up`): giving up drops the lease one
statement before the row is failed; another instance can send in between
(`dispatcher.js:284-285`), and the notification ends e-mailed with a reason why
it was not.

**Promises that are stated but do not hold.** These definitions are kept beside
the properties; adding one to the `.cfg` of its module as INVARIANT (or PROPERTY)
makes TLC show the counterexample.
* `NeverTwoSenders` (`EmailDispatcher`): "two instances never send the same digest"
  (`docs/operations.md:234`).  The lease counts from the start of the run, so a run
  that waits for the provider outlasts it, and the other instance takes the row over
  in the middle of the send.  `OneSender` is what does hold.
* `ErasedHoldsNoMessage` (`EmailDispatcher`): the row of a deleted account "must stay
  without the message" (`dispatcher.js:260`). A row that is claimed, and gets its
  message, between the update of the deliveries and the delete of the user
  (`accountDeletion.js:20-26`) keeps it. `ErasedStaysEmpty` is about the rows the
  deletion saw.
* `AllWithinLimit` (`EmailDispatcher`): the daily limit over all rows.  A deletion
  cancels a pending row, which then does not count, though its send may be under way and
  count again once it fails or is accepted; another claim can use the place.
* `OnlyAfterConsent` (`EmailDispatcher`, with `EmailGivenUp.cfg` and two changes): a
  digest pending through an opt-out and a new opt-in goes out under the new
  consent (`dispatcher.js:248`, `schema.prisma:27-28`).
* `SkeletonAlwaysHasLoad` (`LiveFeed`) and `LinkIsAlwaysAnswered` (`Dashboard`): "the
  skeleton is shown until the backend answers" (`DashboardPage.tsx:199`).  The cache is
  read when the page is rendered (`:200-204`) and again in its effect (`:378-386`).  If a
  load of the page before stores its answer in between (`:341`, `:350`), the effect makes
  no load: the skeleton stays, and a link to an event that is not listed waits.
* `KnownAnswerIsServed` (`GdacsClient`): when the load of the stored answers
  exceeds its time limit, a request can be under way that found nothing; the load
  then brings a good answer, and the failing request replaces it with
  "unreachable" (`gdacs.js:273`).  `RefreshKeepsAnswer` is what does hold.
* `ExpiredRowsAreDeleted` (`NewsService`): rows are deleted at a start and by a pass
  with a success only, so they outlive `docs/news.md:15` while providers fail.
* `LiveIsFresh` (`LiveFeed`): a mounted page does not load again, so LIVE stays over
  a feed that ages (`DashboardPage.tsx:641`, `:960`).
* `MaskedAfterDeletion` (`Accounts`): a disable that commits between the masking and
  the delete leaves the full address (`accountDeletion.js:11`).

**Observations** made while modelling, which no run carries.

E-mail and matching:
* A notification of an address that is confirmed more than three windows (72 h) later is
  neither e-mailed nor given a reason (`dispatcher.js:143-146`): it is no longer looked
  at.  The same goes for one that no run has looked at by then.
* The age of a notification is checked at the claim; its digest is retried for
  23 hours more, so it can be e-mailed well after the 24 hours of
  `dispatcher.js:41`.
* A send that fails after its account was deleted writes its error on the
  anonymised row (`dispatcher.js:284`, `accountDeletion.js:5-6`).
* A message that was accepted but not recorded has `attempts = 0`; if its retry is
  cancelled it is not counted, and one more than the limit goes out
  (`dispatcher.js:58-64`).
* A claim that inserts a row for a user who is being deleted waits for the deletion and
  fails as a whole (foreign key), or the deletion does; the next run claims again.
* `buildNotifications` compares an exact distance with a rounded one
  (`match.js:95`), so a farther subscription can stay; `WinnerNearlyClosest`
  bounds the error by 0.05 km.

Sources and news:
* Answers of GDACS are taken from the buffer before they are saved; a save that
  fails drops them until the next refresh (`gdacs.js:207-215`).
* A failure of a source is dated at the start of its fetch, so a fetch that runs
  into its 15 seconds has used up the 10 seconds of `COLD_START_RETRY_MS`.
* The stale flag is about the providers' last attempts, the answer about the merged
  cache: the provider asked first in a pass clears the flag while the cache still
  holds the old articles (`news.service.js:409`, `:465`).
* A story that the day's rules drop stays served while no share is left to merge
  (`news.service.js:329`).

Accounts and their pages:
* Subscriptions are counted and then created, so two requests can exceed the
  limit of twenty (`alerts.routes.js`).
* A sign-in that read the row before a disable is answered 200 with a cookie of the new
  version (`users.routes.js:127`, `:134-140`): refused while the account is disabled, it
  is a session once the account is enabled.  Signing out only clears the cookie
  (`:151`); its token stays valid until it expires.
* Two `PUT /alerts/email` at
  once can bring a used link back; an admin's deletion of an account that just
  went answers 500.
* `POST /disasters` under way while its author deletes the account stores the full
  address.
* A failed sign-out leaves the cookie while the hint says "out"; a late 401 of an
  old session clears a newer cookie; the users tab can show the detail of the row
  selected before; an older poll of the bell can undo "mark read" on screen.

Severity and dashboard:
* The area in a sentence is rounded to the thousand: 17,296 and 17,297 acres give
  "Low: 7,000 ha burned (< 7,000 ha)", and 24,710 acres "Medium: 10,000 ha
  (7,000-9,999)", though text and rating "cannot drift apart"
  (`severity.js:3-4`).  `magnitude.js:4-5` says that thresholds meet the raw value,
  `severity.js:130-133` uses the rounded one.
* A storm with a GDACS source carries a GDACS level though it was rated by its
  wind, and the drawer calls GDACS the source (`eventInsights.ts:63`, `:95`).
* After a reload that shortens the list, the page number is beyond the last page
  and "Prev" seems to do nothing at first (`DashboardPage.tsx:885`).
* "That event is no longer in the live feed" also shows when the backend is
  unreachable (`:267-269`).
* A link or click to the event that is already selected does not fly there again
  after the user panned away; typing in the search does, for the event that is
  open.  The landing callback of an earlier flight is not removed
  (`MapView.tsx:287`).
* Two "Try again" whose answers come out of order leave the older feed, with
  counts that may be of another answer than the items.

## 4. Fairness

`ingest.js:297-304` starts a run on a timer, whatever became of the last one, and the
hosting platform restarts a dead process: `WF` on `Tick`, `TimerRun(b)` and `Works(b)`
of `IngestRunner` (none on wake-up calls, which GitHub may skip), and on the runs in
`AlertPipeline`. The consumer loop of KafkaJS polls as long as it owns the partition,
and the group gives a partition without owner to some member (`WF` on `Handle`,
`Commit`, `Assign`). The dispatcher runs every ten minutes (`RETRY_INTERVAL_MS`) and
each request has a timeout, so each instance starts and finishes its runs (`WF` on
`RunStep(i)`), and time passes (`WF` on `TimelyTick`). `TimelyTick` holds the clock back
until each instance has started a run within the window: ten minutes against a day, and
at most a day's limit of sends of 15 seconds in a run. It is an assumption on a service
that is awake, and used for liveness only. A deletion that was begun ends (`WF` on
`EraseBlank(u) \/ Erase(u)`): Prisma ends a transaction that takes too long. A caller of
`GdacsClient` goes on when what it waits for is there (promises settle their waiters), a
request ends by its `AbortController`, and the wait for the load by its timer: `WF` on
`Call(c)`, `Asking(k)`, `LoadTimeout`, but not on the load. In `Dashboard` the effect of
a page that stays runs (`MountEffect`), a fetch ends (`Reply`, `Receive`, `Fail`), a
timer fires, a frame is drawn and a flight lands (`Flying`). `LiveFeed`, `NewsService`
and `AccountPages` are checked for safety only. No fairness is assumed of users, admins,
feeds or failures.

## 5. Proofs

Checked with TLAPS for all values of the constants that satisfy the named
assumptions.

`IngestOutboxProofs`, from the bounds on chunks, batches and faults, unless said otherwise:
* `TypeCorrect`: `Spec => []TypeOK`.
* `MarkedStaysSent`: `MarkedIsInTopic` alone is not inductive, since a backend
  marks rows it sent earlier; `SentBeforeMark` adds that the chunk a backend is
  about to mark is in the log.  One lemma per action.
* `RecordedAtMostOnce`: from the type invariant and the filter of `Record`.
* `SingleBackendDrainsInOrder`: with one backend, `HeldWithoutGap` adds that the
  rows it holds are the oldest unpublished ones, without a gap, at every step.
* `DuplicatesAreFew`: `DuplicatesBounded` bounds the copies of a row by the backends
  and the failures.  `SendingsCounted` says why: before a row is marked each of its
  copies has a backend about to mark it or a failure that ended a run; once it is
  marked, only the backends that hold it can send it again.  The counts need
  `BackendsAssumption` (finitely many backends).
* `WakeUpsAreAnsweredTruly`, about `IngestRunner` with its sleeping processes, joined and
  queued runs: `RunCovers` ties what a run answers for to the step it is at, `LastIsTrue`
  the result a caller is told of later, and `CallsKnown` what each call waits for.
* `RunnerKeepsTheOutbox`, `RunnerDrainsInOrder`: the results above under the runner.  Its
  steps are steps of the outbox but for the restart of an idle process (`IdleRestart`),
  so each invariant needs one more lemma and no second proof.

`AlertPipelineProofs`, on the consumer, from the ranges of the constants.  The lemmas are
about `OpenSpec`, in which producers send as much as they like; `SendersAreOpen` carries
the results to `Spec`.
* `TypeCorrect`, and `HeldRows`: the rows a consumer holds are about the message
  it is at, one per user, and none once it is idle.
* `AtMostOneCorrect` (`OneInv`): rows of one event, one per user, and only those
  that are not in the table yet.
* `AnchoredCorrect` (`AnchorInv`): `AlertsAreAnchored` needs `BuiltAnchored`, the
  same of the rows held if their subscription is still there; ids are not reused.
* `NoMissedCorrect` (`MissInv`): `CommittedIsCovered` needs that everything read is
  covered (a consumer commits up to there), that rows held cover what their
  message owes, and that every message is about the past, so that no new
  subscription is owed an alert; what is owed about an event only shrinks.
* `AlertsStayCorrect`: one lemma, from the types.

On the matching loop:
* `RowsAreMatches`: exactly the users seen with a notifying subscription have a row.
* `RoundingDoesNotAccumulate`: however many candidates were replaced, the winner is
  less than 0.05 km farther than the closest seen.  Each step needs that the kept
  distance is the rounding of a seen one.
* `MatchIsTheLoop`: given the active subscriptions in any order, the loop ends with the
  rows of one of the results that `BuildNotifications` allows.  This is what permits
  the consumer's module to do the matching in one step.

On the pipeline, from `SourcesAssumption` and the assumptions of the two parts:
* `PipelineInvariant`: everything in the topic was recorded by a run or published by an
  admin, what was recorded has happened, and a consumer about to insert holds rows for
  the event of its message.
* `PipelineIngests`: the pipeline implements `IngestOutbox`, so what is proved of the
  outbox holds in it.
* `PipelineDelivers`: the pipeline implements the consumer's `OpenSpec`.  A run that
  sends a chunk, all of it or a part, is a producer of that batch, and the batch is about
  the past because the rows of the outbox are.  From this `PipelineMissesNoAlert`,
  `PipelineAlertsOnce`, `PipelineAlertsAreAnchored` and `PipelineAlertsStay`: the
  consumer's promises hold with any number of backends, failures and sendings.
* `PipelineIsAnAlertService`: the refinement of the abstract `AlertService`, for any
  number of backends and consumers.  Recording and publishing by hand are what the
  service learns of, an insert alerts the users of its rows about an event that is known
  by the invariant, a deleted account takes its alerts along, and everything else stutters.
  Alerts are counted, so that the unique row per user and event is part of the argument:
  an insert adds a row only for users whose count is 0 (`ToldOnce`).

`GdacsClientProofs`, from `TimesAssumption`, for any number of events, callers and faults:
* `InvariantHolds`: an answer is dated, and not in the future (`EntriesTyped`); what
  waits to be saved is not older than what is being saved, nor that than the row
  (`StoreOrdered`); after a failure the entry ends no earlier than the back-off, and a
  request under way by then began later (`FailuresKept`).
* `AskersAreAnswered`: a caller that waits for an answer has a request to wait for, with
  look-ups shared and requests ended in any order.
* `AnswersSurviveRefresh`, `FailuresAreRemembered`, `RowsMoveForward`,
  `AnswersServedAreFresh`: the four action properties of the run.

`LiveFeedProofs`, from `DelaysAssumption` and `OrderAssumption` (a fetch takes at most as
long as an answer is cached, and so does the back-off: 15 s and 1 min against 5 min, and
an hour until data is dropped), for any number of sources, calls and loads:
* `FeedInvariant`: besides the types, a source's dates tell how its last fetch ended;
  a waiting call waits only for fetches that were under way when it came in, so at
  most for `MaxFetch`; a source it was told is up to date was so at that time.
* `AnswersAreHonest`: from this, an answer's status is drawn under the time of the
  call and is true of the data served when it is given, whichever source settles last.
* `SourcesAreLeftAlone`: a source that is fetched again was asked at least the delay
  ago, since its fetch dated it, whether it answered or failed.
* `SkeletonEnds`: a page that shows a skeleton has a load of its own, or its effect is
  due, or the effect skipped the load over a feed that was stored after the rendering.
  What the page shows is tied to its loads and to where its effect is.

`EmailDispatcherProofs`, for any number of accounts, instances, notifications, crashes,
errors and lost answers.  `RowSteps`, `NoteSteps`, `MailSteps` and `SendingSteps` say what
one step can do to a row, a notification, the provider and a sender; the invariants below
are proved from them.
* `TypesStay`: also that a run at a delivery has one at hand.  A claim numbers the rows it
  makes by the order of their users, so the users of the new rows are those it read.
* `ErasedRowsStayEmpty`: the rows a deletion has seen are blank from its second statement
  on, and locked or without a user when a run would store, mark or refuse them.
* `OneSenderEach`: a run holds a delivery until it has counted an attempt or settled the
  row (`Holds`).  `Leased` says that, as long as `longest <= Lease`, it has the lease of a
  pending one, counted from the start of the run, and `Apart` that no two hold the same.  A
  lease is taken over only by a run that started after it ended, and by then the run
  that took it has outlasted it.
* `EmailedMeansAccepted`: a message, in a row, in memory or at the provider, carries all
  that its delivery still claims (`RowCovers`, `WorkCovers`, `MailCovers`), which only
  shrinks after the claim.
* `EmailedOnce`: while `DeliveryMaxAge + longest < Window` the provider accepts a delivery
  once (`OneKey`), since what is sent is young (`Young`), and a notification stays with the
  delivery that claimed it (`Owned`, also after the notification was deleted).
* `DigestsGoToConfirmed`: `ProvenInv` adds that a verified account is proven, i.e. its
  owner has used a link, and so is whoever a digest at hand is for, since the row was read.
  The one thing assumed is that the initial accounts are honest: verified only if proven.
* `LimitHolds`: while `longest <= Lease` and `DeliveryMaxAge + 2 * longest < Window`, with
  deletions.  A row of an account that is left never begins to count: what is being sent
  is live (`AtHand`), was young when its run began (`Young`, `MarkYoung`) and is not counted
  from long before it was made (`RowDates`), so its attempt renews the date of a row that
  still counts.  New ones come with a claim, which counts before it adds.
* `OutcomesAreRecorded`, for one instance: `OutcomeRecorded`. A notification has the
  user of its delivery (`NotesMatch`), is e-mailed or has a reason as the row's status
  says (`NotesClosed`); what a run is at is pending unless its account went
  (`HandPending`) and what it settles has a reason (`Reasoned`). For two instances it is
  false: see the finding. The conditions on `longest` are about what has happened, not
  about the constants: no theorem assumes that the code bounds a run.

`NewsServiceProofs`, from `NewsAssumption`:
* `LicencesAreKept`: every article in a share, the cache or the table has the dates of the
  pass that fetched it (`ArticlesDated`), through merges, failures and restarts.
* `TheStaleFlagIsHonest`: after the first pass every configured provider had a turn
  (`AskedOnce`) and either failed last or gave its share then (`SharesHonest`).
* `OthersFailuresLoseNothing`: the action property `NothingIsLost`.  Each step keeps the
  shares, the stories of the cache or the table; a pass that ends with an article still
  live leaves a cache (`CacheBuilt`).
* `InvariantHolds`: the conjunction of these parts.

`DashboardProofs`, without an assumption, for any feeds, links, filters and moves.  The
invariant is `PageInv`: a page that is gone leaves neither map nor link behind, and the map
of a page that is shown is `MapOK` for its selection.
* `ListenerIsRemoved`: `ListenerIsBrief` needs that the `moveend` that removes the listener
  is set by the flight that is in the air (`Brief`).
* `NoStaleFlight`: what a timer, a frame or a resize will start goes to the event that is
  selected now (`Current`).
* `SelectionsAreServed`: the map of a selected event is there, has a flight to it pending
  or under way, or was taken elsewhere by the user since.  This is the safety half of
  `SelectionIsFlownTo`: the run shows that the flight also ends.
* `LinksWaitForTheFeed`: a link is open only while its page waits for its effect or for a
  first answer, which the excluded case of `LinkIsAnswered` never gets; its safety half.

`AccountsProofs`, from `AccountsAssumption`, for any people, mailboxes and requests in
flight:
* `EndedSessionsStayEnded`: the version of a session that a disable or a deletion ended is
  behind its account's for ever (`EndedOld`), because versions only grow and ids are not
  given out twice.  It says nothing about signing out, which ends no session on the server.
* `TheAuditLogIsTrue`: `SwitchesOK` (the last disable or enable row is what the account
  says) and `DeletesOK` need that two transactions of one account never wait for their
  commit at once (`LocksOK`).
* `AdminsHaveProvenBoth`: `ProvenOK` needs that what a request knows on its way is its
  sender's (`CallsOK`, `CookiesOK`): a link that is pressed proves the mailbox, and the
  session beside it the account.
* `InvariantHolds`: the conjunction of these parts.

Every invariant and action property of a passing run is the statement of a theorem.  Only
model-checked are
* what holds under fairness, which is out of the prover's reach: `ListedIsPublished`,
  `EventuallyHandled`, `ListedIsHandled`, `EventuallySettled`, `EventuallyAccounted`,
  `EventuallyRated`, `LinkIsAnswered`, `SelectionIsFlownTo`;
* the functions of `Severity` and `FeedPage`, whose ASSUMEs TLC evaluates over bounded
  inputs: what they do for every list would need induction over data.

## 6. Not modelled, and the plan

Not modelled:
* text and layout: `render.js`, `mask.js`, the drawer's contents, the admin's
  statistics and forms, static pages: conversions and rendering whose cases a small
  model does not exhaust;
* how a country, a place, a storm name or a hazard is found in a text (word lists,
  regular expressions, city lists), and the parsing of each source's and
  provider's answer: the rules built on what was found are modelled;
* the debounce of the dispatcher's `schedule` (`dispatcher.js:372`): in the model a
  run may start at any time, which allows all of its schedules;
* GDACS: the list of cyclones, the bounds on look-ups at once (8) and per refresh
  (25), `gdacsImpact` (a memo of the same form as the client); USGS and GDELT size
  limits; the throttle's seconds;
* `EmailChannelStatus`, `/health`, the list of notifications and "mark read" (single
  statements), the polls of the bell and the news panel, the alerts page;
* configuration, HTTP plumbing, rate limits, hashing, validation of fields.

Worth adding, in this order:
1. abstract specifications: a single-flight cache that answers the last good value
   (feed, GDACS, news), and a mailer that mails each notification at most once;
2. the bell and the alerts page, with the polls of the news panel.
