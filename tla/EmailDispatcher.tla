--------------------------- MODULE EmailDispatcher ---------------------------
(***************************************************************************)
(* The e-mail dispatcher of the notification service                       *)
(* (notification-service/src/email/dispatcher.js) with the accounts it     *)
(* reads (backend/src/routes/alerts.routes.js PUT /email, email.routes.js, *)
(* utils/accountDeletion.js) and the provider it sends through.            *)
(*                                                                         *)
(* Every instance of the service runs the dispatcher from time to time; a  *)
(* run claims deliveries in one transaction under the advisory lock and    *)
(* then sends the pending ones, one at a time.  Each database statement or *)
(* transaction and each request to the provider is a step of its own.      *)
(*                                                                         *)
(* The provider is external: it accepts a delivery's key at most once in   *)
(* Window, and its answer can be lost.  The clock counts in ticks, and a   *)
(* run takes as long as it takes: its time stamps and leases are all from  *)
(* its start.  An account is deleted by the statements of one transaction  *)
(* (READ COMMITTED), with other statements between them.  Left out: the    *)
(* text of the messages and the unsubscribe token, which an account with   *)
(* e-mail on always has.                                                   *)
(***************************************************************************)
EXTENDS Integers, SequencesExt

CONSTANTS Users,            \* account ids, in their order
          Instances,        \* instances of the notification service
          Nobody,           \* the userId of a delivery whose account is deleted
          InitialAccounts,  \* what an account can look like at the start
          Erasable,         \* accounts that may be deleted
          DailyLimit,
          Lease,            \* LEASE_MS
          DeliveryMaxAge,   \* DELIVERY_MAX_AGE_MS
          Window,           \* WINDOW_MS = NOTIFICATION_MAX_AGE_MS = the provider's key window
          ConfirmResend,    \* CONFIRM_RESEND_MS
          MaxAttempts,      \* MAX_ATTEMPTS
          MaxTime, MaxNotes, MaxChanges, MaxFaults, LastFault   \* bounds

Never == -1
Times == Nat \cup {Never}

Account ==
  [exists : BOOLEAN, enabled : BOOLEAN, disabled : BOOLEAN, verified : BOOLEAN,
   confirmToken : BOOLEAN, consentAt : Times, confirmSentAt : Times,
   proven : BOOLEAN]   \* the owner of the mailbox has used a confirmation link (history)

ASSUME UsersAssumption ==
  Users \subseteq Nat /\ IsFiniteSet(Users) /\ Nobody \notin Users
ASSUME AccountsAssumption ==
  /\ InitialAccounts \subseteq Account
  /\ Erasable \subseteq Users
  /\ \A a \in InitialAccounts : a.verified => a.proven
ASSUME LimitsAssumption ==
  /\ {DailyLimit, MaxAttempts} \subseteq Nat \ {0}
  /\ {Lease, DeliveryMaxAge, Window, ConfirmResend} \subseteq Nat
  /\ DeliveryMaxAge < Window
ASSUME BoundsAssumption ==
  {MaxTime, MaxNotes, MaxChanges, MaxFaults, LastFault} \subseteq Nat

VARIABLES
  now,         \* the clock
  longest,     \* the longest time a run has lasted (history)
  accounts,    \* the e-mail fields of User
  erasing,     \* by account: the number of deliveries each statement of its
               \* deletion has seen
  missed,      \* deliveries of deleted accounts that the deletion did not see (history)
  made,        \* user and time of every notification ever created (history)
  notes,       \* the e-mail fields of Notification, by id
  deliveries,  \* the rows of EmailDelivery, by id
  mails,       \* the messages the provider accepted
  pc,          \* where each instance's run is
  started,     \* t: when the run started
  todo,        \* pending deliveries the run has still to send
  work,        \* what deliver() holds in memory for the first of them
  changes,     \* account changes so far
  faults       \* crashes, database errors and failed sends so far

runVars == <<pc, started, todo, work>>
\* What the steps of a run leave alone, the claim apart.
outerVars == <<now, longest, accounts, erasing, missed, made, changes>>
vars == <<outerVars, notes, deliveries, mails, runVars, faults>>

Note == [user : Users, at : Nat, delivery : Nat, emailed : BOOLEAN,
         skip : {"", "too-old", "daily-limit", "send-failed", "disabled"}]

Payload == {<<>>} \cup {<<S>> : S \in SUBSET (1 .. MaxNotes)}

Delivery ==
  [user : Users \cup {Nobody}, kind : {"confirm", "digest"},
   status : {"pending", "sent", "failed", "cancelled"}, attempts : Nat,
   createdAt : Nat, lastAttemptAt : Times, sentAt : Times, leaseUntil : Times,
   payload : Payload, lastError : BOOLEAN, providerId : BOOLEAN]

Fault ==
  /\ faults < MaxFaults
  /\ now <= LastFault
  /\ faults' = faults + 1

NoWork == [kind |-> "digest", attempts |-> 0, payload |-> <<>>, to |-> Nobody,
           outcome |-> "", reason |-> "", error |-> FALSE]

\* A bug to look for: a limit that is used up lets one more through.
FirstOfAndOne(S, k) == {x \in S : Cardinality({y \in S : y < x}) <= k}

\* The k first elements of a set of numbers.
FirstOf(S, k) == {x \in S : Cardinality({y \in S : y < x}) < k}

\* The k-th element of a set of numbers.
Nth(S, k) == CHOOSE x \in S : Cardinality({y \in S : y <= x}) = k

-----------------------------------------------------------------------------
Init ==
  /\ now = 0
  /\ longest = 0
  /\ accounts \in [Users -> InitialAccounts]
  /\ erasing = [u \in Users |-> <<>>]
  /\ missed = {}
  /\ made = <<>>
  /\ notes = [n \in {} |-> 0]
  /\ deliveries = <<>>
  /\ mails = {}
  /\ pc = [i \in Instances |-> "idle"]
  /\ started = [i \in Instances |-> 0]
  /\ todo = [i \in Instances |-> {}]
  /\ work = [i \in Instances |-> NoWork]
  /\ changes = 0
  /\ faults = 0

Tick ==
  /\ now < MaxTime
  /\ now' = now + 1
  /\ longest' = IF \E i \in Instances : pc[i] # "idle" /\ now' > started[i] + longest
                THEN longest + 1 ELSE longest
  /\ UNCHANGED <<accounts, erasing, missed, made, notes, deliveries, mails, runVars,
                 changes, faults>>

\* The consumer inserts a notification.
Notify(u) ==
  /\ accounts[u].exists
  /\ Len(made) < MaxNotes
  /\ made' = Append(made, [user |-> u, at |-> now])
  /\ notes' = [n \in DOMAIN notes \cup {Len(made) + 1} |->
                 IF n \in DOMAIN notes THEN notes[n]
                 ELSE [user |-> u, at |-> now, delivery |-> 0, emailed |-> FALSE, skip |-> ""]]
  /\ UNCHANGED <<now, longest, accounts, erasing, missed, deliveries, mails, runVars,
                 changes, faults>>

-----------------------------------------------------------------------------
(***************************************************************************)
(* The accounts.                                                           *)
(***************************************************************************)
Change(u) ==
  /\ accounts[u].exists
  /\ changes < MaxChanges
  /\ changes' = changes + 1
  /\ UNCHANGED <<now, longest, missed, made, mails, runVars, faults>>

\* A bug to look for: turning e-mail on counts as the proof of the address.
OptInVerifies(u) ==
  /\ Change(u)
  /\ ~accounts[u].enabled
  /\ accounts' = [accounts EXCEPT ![u].enabled = TRUE, ![u].consentAt = now,
                                  ![u].verified = TRUE]
  /\ UNCHANGED <<erasing, notes, deliveries>>

\* PUT /alerts/email {enabled: true}
OptIn(u) ==
  /\ Change(u)
  /\ ~accounts[u].enabled
  /\ accounts' = [accounts EXCEPT ![u].enabled = TRUE, ![u].consentAt = now,
                                  ![u].confirmToken = @ \/ ~accounts[u].verified]
  /\ UNCHANGED <<erasing, notes, deliveries>>

\* PUT /alerts/email {enabled: false}, or POST /email/unsubscribe
OptOut(u) ==
  /\ Change(u)
  /\ accounts[u].enabled
  /\ accounts' = [accounts EXCEPT ![u].enabled = FALSE, ![u].consentAt = Never]
  /\ UNCHANGED <<erasing, notes, deliveries>>

\* POST /email/confirm with the token of a confirmation e-mail
Confirm(u) ==
  /\ Change(u)
  /\ accounts[u].confirmToken
  /\ \E m \in mails : m.to = u /\ m.kind = "confirm"
  /\ accounts' = [accounts EXCEPT ![u].verified = TRUE, ![u].confirmToken = FALSE,
                                  ![u].proven = TRUE]
  /\ UNCHANGED <<erasing, notes, deliveries>>

\* An admin disables or enables the account.
SetDisabled(u, d) ==
  /\ Change(u)
  /\ accounts[u].disabled # d
  /\ accounts' = [accounts EXCEPT ![u].disabled = d]
  /\ UNCHANGED <<erasing, notes, deliveries>>

-----------------------------------------------------------------------------
(***************************************************************************)
(* eraseAccount: three statements of one transaction.  A statement sees    *)
(* the rows that are committed when it runs; its own writes are seen by    *)
(* others, and its row locks released, when the transaction ends.          *)
(***************************************************************************)
\* The deletion of its account holds the lock of a row: the first statement
\* takes those of the pending rows, the second all of them.
Locked(k) ==
  LET u == deliveries[k].user
  IN  /\ u # Nobody
      /\ \/ Len(erasing[u]) = 1 /\ k <= erasing[u][1] /\ deliveries[k].status = "pending"
         \/ Len(erasing[u]) = 2 /\ k <= erasing[u][2]

Progress(u, seen) == erasing' = [erasing EXCEPT ![u] = seen]

\* The pending deliveries are cancelled.
EraseCancel(u) ==
  /\ Change(u)
  /\ u \in Erasable
  /\ erasing[u] = <<>>
  /\ Progress(u, <<Len(deliveries)>>)
  /\ UNCHANGED <<accounts, notes, deliveries>>

\* Message, provider id and error are removed from all of them.
EraseBlank(u) ==
  /\ Len(erasing[u]) = 1
  /\ Progress(u, Append(erasing[u], Len(deliveries)))
  /\ UNCHANGED <<now, longest, accounts, missed, made, notes, deliveries, mails, runVars,
                 changes, faults>>

\* The user is deleted, with the notifications, and the transaction commits:
\* every row loses its user, also one claimed after the statements before.
Erase(u) ==
  LET ofUser(k) == deliveries[k].user = u
      cancelled(k) == k <= erasing[u][1] /\ deliveries[k].status = "pending"
      blanked(k) == k <= erasing[u][2]
  IN  /\ Len(erasing[u]) = 2
      /\ deliveries' =
           [k \in DOMAIN deliveries |->
              IF ~ofUser(k) THEN deliveries[k]
              ELSE [deliveries[k] EXCEPT
                      !.status = IF cancelled(k) THEN "cancelled" ELSE @,
                      !.leaseUntil = IF cancelled(k) THEN Never ELSE @,
                      !.payload = IF blanked(k) THEN <<>> ELSE @,
                      !.providerId = IF blanked(k) THEN FALSE ELSE @,
                      !.lastError = IF blanked(k) THEN FALSE ELSE @,
                      !.user = Nobody]]
      /\ missed' = missed \cup {k \in DOMAIN deliveries : ofUser(k) /\ ~blanked(k)}
      /\ notes' = [n \in {m \in DOMAIN notes : notes[m].user # u} |-> notes[n]]
      /\ accounts' = [accounts EXCEPT ![u].exists = FALSE]
      /\ Progress(u, <<>>)
      /\ UNCHANGED <<now, longest, made, mails, runVars, changes, faults>>

\* The transaction fails or times out, and nothing of it stays.
EraseAborts(u) ==
  /\ erasing[u] # <<>>
  /\ Fault
  /\ Progress(u, <<>>)
  /\ UNCHANGED <<now, longest, accounts, missed, made, notes, deliveries, mails, runVars,
                 changes>>

-----------------------------------------------------------------------------
(***************************************************************************)
(* claim                                                                   *)
(***************************************************************************)
ConfirmLimit ==
  LET share == DailyLimit \div 5
  IN  IF share < 1 THEN 1 ELSE IF share > 10 THEN 10 ELSE share

\* COALESCE(sentAt, lastAttemptAt, createdAt)
CountedAt(d) ==
  IF d.sentAt # Never THEN d.sentAt
  ELSE IF d.lastAttemptAt # Never THEN d.lastAttemptAt ELSE d.createdAt

Counted(t) ==
  {k \in DOMAIN deliveries :
     /\ deliveries[k].status \in {"sent", "pending"} \/ deliveries[k].attempts > 0
     /\ CountedAt(deliveries[k]) > t - Window}

Unconfirmed(t) ==
  {u \in Users :
     LET a == accounts[u]
     IN  /\ a.exists /\ a.enabled /\ ~a.disabled /\ ~a.verified /\ a.confirmToken
         /\ a.consentAt # Never
         /\ \/ a.confirmSentAt = Never
            \/ a.confirmSentAt < a.consentAt /\ a.confirmSentAt < t - ConfirmResend}

Unsettled(n) == ~notes[n].emailed /\ notes[n].delivery = 0 /\ notes[n].skip = ""

Wanted(n) ==
  LET a == accounts[notes[n].user]
  IN  a.enabled /\ a.verified /\ a.consentAt # Never /\ notes[n].at >= a.consentAt

\* A bug to look for: what is too old is given its reason for a window only.
TooOldBriefly(t) ==
  {n \in DOMAIN notes :
     Unsettled(n) /\ Wanted(n) /\ notes[n].at <= t - Window /\ notes[n].at > t - 2 * Window}

TooOld(t) ==
  {n \in DOMAIN notes :
     Unsettled(n) /\ Wanted(n) /\ notes[n].at <= t - Window /\ notes[n].at > t - 3 * Window}

Fresh(t) ==
  {n \in DOMAIN notes :
     /\ Unsettled(n) /\ Wanted(n) /\ ~accounts[notes[n].user].disabled
     /\ notes[n].at > t - Window
     /\ ~ \E k \in DOMAIN deliveries :
          /\ deliveries[k].user = notes[n].user
          /\ deliveries[k].kind = "digest" /\ deliveries[k].status = "pending"}

NewDelivery(u, k, t) ==
  [user |-> u, kind |-> k, status |-> "pending", attempts |-> 0, createdAt |-> t,
   lastAttemptAt |-> Never, sentAt |-> Never, leaseUntil |-> Never, payload |-> <<>>,
   lastError |-> FALSE, providerId |-> FALSE]

Claim(i) ==
  LET t == started[i]
      used == Cardinality(Counted(t))
      confirmsUsed == Cardinality({k \in Counted(t) : deliveries[k].kind = "confirm"})
      confirming == FirstOf(FirstOf(Unconfirmed(t), DailyLimit - used), ConfirmLimit - confirmsUsed)
      fresh == Fresh(t)
      \* the first notification of each user stands for the user's digest
      head == [n \in fresh |-> Min({m \in fresh : notes[m].user = notes[n].user})]
      digests == FirstOf({head[n] : n \in fresh}, DailyLimit - used - Cardinality(confirming))
      idOf == [h \in digests |-> Len(deliveries) + Cardinality(confirming)
                                 + Cardinality({g \in digests : g <= h})]
  IN  /\ pc[i] = "claim"
      /\ deliveries' =
           deliveries
             \o [k \in 1 .. Cardinality(confirming) |->
                  NewDelivery(Nth(confirming, k), "confirm", t)]
             \o [k \in 1 .. Cardinality(digests) |->
                  NewDelivery(notes[Nth(digests, k)].user, "digest", t)]
      /\ notes' =
           [n \in DOMAIN notes |->
              IF n \in TooOld(t) THEN [notes[n] EXCEPT !.skip = "too-old"]
              ELSE IF n \notin fresh THEN notes[n]
              ELSE IF head[n] \in digests THEN [notes[n] EXCEPT !.delivery = idOf[head[n]]]
              ELSE [notes[n] EXCEPT !.skip = "daily-limit"]]
      /\ accounts' =
           [u \in Users |-> IF u \in confirming THEN [accounts[u] EXCEPT !.confirmSentAt = t]
                            ELSE accounts[u]]
      /\ pc' = [pc EXCEPT ![i] = "list"]
      /\ UNCHANGED <<now, longest, erasing, missed, made, mails, started, todo, work, changes,
                     faults>>

-----------------------------------------------------------------------------
(***************************************************************************)
(* run and deliver                                                         *)
(***************************************************************************)
Start(i) ==
  /\ pc[i] = "idle"
  /\ started' = [started EXCEPT ![i] = now]
  /\ pc' = [pc EXCEPT ![i] = "claim"]
  /\ UNCHANGED <<outerVars, notes, deliveries, mails, todo, work, faults>>

Pending == {k \in DOMAIN deliveries : deliveries[k].status = "pending"}

List(i) ==
  /\ pc[i] = "list"
  /\ todo' = [todo EXCEPT ![i] = Pending]
  /\ pc' = [pc EXCEPT ![i] = IF Pending = {} THEN "idle" ELSE "lease"]
  /\ UNCHANGED <<outerVars, notes, deliveries, mails, started, work, faults>>

Current(i) == Min(todo[i])
Row(i) == deliveries[Current(i)]

\* On to the next delivery, or the end of the run.
Leave(i) ==
  /\ todo' = [todo EXCEPT ![i] = @ \ {Current(i)}]
  /\ pc' = [pc EXCEPT ![i] = IF todo[i] = {Current(i)} THEN "idle" ELSE "lease"]
  /\ work' = [work EXCEPT ![i] = NoWork]

Stay(i, label) ==
  /\ pc' = [pc EXCEPT ![i] = label]
  /\ UNCHANGED todo

\* A bug to look for: the row is taken whatever its lease.
TakeLeaseAlways(i) ==
  /\ pc[i] = "lease"
  /\ Row(i).status = "pending"
  /\ ~Locked(Current(i))
  /\ deliveries' = [deliveries EXCEPT ![Current(i)].leaseUntil = started[i] + Lease]
  /\ Stay(i, "read") /\ UNCHANGED work
  /\ UNCHANGED <<outerVars, notes, mails, started, faults>>

\* A bug to look for: a lease never runs out.
TakeLeaseFree(i) ==
  /\ pc[i] = "lease"
  /\ Row(i).status = "pending"
  /\ Row(i).leaseUntil = Never
  /\ ~Locked(Current(i))
  /\ deliveries' = [deliveries EXCEPT ![Current(i)].leaseUntil = started[i] + Lease]
  /\ Stay(i, "read") /\ UNCHANGED work
  /\ UNCHANGED <<outerVars, notes, mails, started, faults>>

\* The row is leased for Lease from the start of the run, and read next.
TakeLease(i) ==
  /\ pc[i] = "lease"
  /\ Row(i).status = "pending"
  /\ Row(i).leaseUntil < started[i]
  /\ ~Locked(Current(i))
  /\ deliveries' = [deliveries EXCEPT ![Current(i)].leaseUntil = started[i] + Lease]
  /\ Stay(i, "read") /\ UNCHANGED work
  /\ UNCHANGED <<outerVars, notes, mails, started, faults>>

Busy(i) ==
  /\ pc[i] = "lease"
  /\ ~(Row(i).status = "pending" /\ Row(i).leaseUntil < started[i])
  /\ Leave(i)
  /\ UNCHANGED <<outerVars, notes, deliveries, mails, started, faults>>

Give(i, outcome, reason, error) ==
  /\ work' = [work EXCEPT ![i] = [NoWork EXCEPT !.outcome = outcome, !.reason = reason,
                                                !.error = error]]
  /\ Stay(i, "finish")

Expired(i) == started[i] - Row(i).createdAt > DeliveryMaxAge

Stale(k, a) == IF k = "confirm" THEN a.verified \/ ~a.confirmToken ELSE ~a.verified

\* A bug to look for: the age of the delivery is not checked before a send.
ReadAnyAge(i) ==
  /\ pc[i] = "read"
  /\ IF Row(i).user = Nobody THEN Give(i, "cancelled", "disabled", FALSE)
     ELSE LET a == accounts[Row(i).user]
          IN  IF ~a.enabled \/ a.disabled \/ Stale(Row(i).kind, a)
              THEN Give(i, "cancelled", "disabled", FALSE)
              ELSE /\ work' = [work EXCEPT ![i] =
                               [NoWork EXCEPT !.kind = Row(i).kind, !.attempts = Row(i).attempts,
                                              !.payload = Row(i).payload, !.to = Row(i).user]]
                   /\ Stay(i, IF Row(i).payload = <<>> THEN "prepare" ELSE "send")
  /\ UNCHANGED <<outerVars, notes, deliveries, mails, started, faults>>

\* The row is read again under the lease, and everything that stops the send
\* is checked on that copy.
Read(i) ==
  /\ pc[i] = "read"
  /\ IF Row(i).user = Nobody THEN Give(i, "cancelled", "disabled", FALSE)
     ELSE IF Expired(i) THEN Give(i, "failed", "send-failed", TRUE)
     ELSE LET a == accounts[Row(i).user]
          IN  IF ~a.enabled \/ a.disabled \/ Stale(Row(i).kind, a)
              THEN Give(i, "cancelled", "disabled", FALSE)
              ELSE /\ work' = [work EXCEPT ![i] =
                               [NoWork EXCEPT !.kind = Row(i).kind, !.attempts = Row(i).attempts,
                                              !.payload = Row(i).payload, !.to = Row(i).user]]
                   /\ Stay(i, IF Row(i).payload = <<>> THEN "prepare" ELSE "send")
  /\ UNCHANGED <<outerVars, notes, deliveries, mails, started, faults>>

Claimed(k) == {n \in DOMAIN notes : notes[n].delivery = k}

\* The message is rendered from the database; nothing claimed, nothing to send.
Prepare(i) ==
  /\ pc[i] = "prepare"
  /\ IF work[i].kind = "digest" /\ Claimed(Current(i)) = {}
     THEN Give(i, "cancelled", "disabled", FALSE)
     ELSE /\ work' = [work EXCEPT ![i].payload = <<Claimed(Current(i))>>]
          /\ Stay(i, "store")
  /\ UNCHANGED <<outerVars, notes, deliveries, mails, started, faults>>

\* A bug to look for: the message is stored whoever owns the row by now.
StoreAlways(i) ==
  /\ pc[i] = "store"
  /\ ~Locked(Current(i))
  /\ deliveries' = [deliveries EXCEPT ![Current(i)].payload = work[i].payload]
  /\ Stay(i, "send") /\ UNCHANGED work
  /\ UNCHANGED <<outerVars, notes, mails, started, faults>>

\* The message is stored before the first attempt, not onto a row without a user.
Store(i) ==
  /\ pc[i] = "store"
  /\ ~Locked(Current(i))
  /\ deliveries' = [deliveries EXCEPT ![Current(i)].payload =
                      IF Row(i).user = Nobody THEN @ ELSE work[i].payload]
  /\ Stay(i, "send") /\ UNCHANGED work
  /\ UNCHANGED <<outerVars, notes, mails, started, faults>>

\* The provider takes a message it has not seen the key of within Window.
Accept(i) ==
  LET k == Current(i)
      u == work[i].to
  IN  mails' = IF \E m \in mails : m.key = k /\ now - m.at < Window THEN mails
               ELSE mails \cup {[key |-> k, to |-> u, kind |-> work[i].kind,
                                 notes |-> work[i].payload[1], at |-> now,
                                 consentAt |-> accounts[u].consentAt]}

Answer(i, outcome) ==
  /\ work' = [work EXCEPT ![i].outcome = outcome]
  /\ Stay(i, "mark")

\* A bug to look for: a request nobody refused counts as accepted.
SendUnanswered(i) ==
  /\ pc[i] = "send"
  /\ \/ Accept(i) /\ Answer(i, "sent") /\ UNCHANGED faults
     \/ Accept(i) /\ Answer(i, "transient") /\ Fault
     \/ Answer(i, "sent") /\ Fault /\ UNCHANGED mails
     \/ Answer(i, "permanent") /\ Fault /\ UNCHANGED mails
  /\ UNCHANGED <<outerVars, notes, deliveries, started>>

\* One request to the provider: accepted; accepted but the answer is lost;
\* refused for now; refused for good.
Send(i) ==
  /\ pc[i] = "send"
  /\ \/ Accept(i) /\ Answer(i, "sent") /\ UNCHANGED faults
     \/ Accept(i) /\ Answer(i, "transient") /\ Fault
     \/ Answer(i, "transient") /\ Fault /\ UNCHANGED mails
     \/ Answer(i, "permanent") /\ Fault /\ UNCHANGED mails
  /\ UNCHANGED <<outerVars, notes, deliveries, started>>

\* Accepted: the delivery and its notifications are marked in one transaction.
MarkSent(i) ==
  /\ pc[i] = "mark"
  /\ work[i].outcome = "sent"
  /\ ~Locked(Current(i))
  /\ deliveries' = [deliveries EXCEPT ![Current(i)] =
                      [@ EXCEPT !.status = "sent", !.sentAt = started[i],
                                !.lastAttemptAt = started[i],
                                !.attempts = Row(i).attempts + 1,
                                !.providerId = (Row(i).user # Nobody),
                                !.lastError = FALSE, !.leaseUntil = Never]]
  /\ notes' = [n \in DOMAIN notes |->
                 IF n \in Claimed(Current(i)) THEN [notes[n] EXCEPT !.emailed = TRUE] ELSE notes[n]]
  /\ Leave(i)
  /\ UNCHANGED <<outerVars, mails, started, faults>>

\* Refused, or no answer: one more attempt, given up or left for the next run.
MarkRefused(i) ==
  LET attempts == work[i].attempts + 1
  IN  /\ pc[i] = "mark"
      /\ work[i].outcome # "sent"
      /\ ~Locked(Current(i))
      /\ deliveries' = [deliveries EXCEPT ![Current(i)] =
                          [@ EXCEPT !.attempts = attempts, !.lastAttemptAt = started[i],
                                    !.lastError = TRUE, !.leaseUntil = Never]]
      /\ IF work[i].outcome = "permanent" \/ attempts >= MaxAttempts
         THEN Give(i, "failed", "send-failed", FALSE)
         ELSE Leave(i)
      /\ UNCHANGED <<outerVars, notes, mails, started, faults>>

\* A bug to look for: the notifications keep no reason.
FinishRowOnly(i) ==
  /\ pc[i] = "finish"
  /\ ~Locked(Current(i))
  /\ deliveries' = [deliveries EXCEPT ![Current(i)] =
                      [@ EXCEPT !.status = work[i].outcome, !.leaseUntil = Never,
                                !.lastError = Row(i).lastError \/ work[i].error]]
  /\ Leave(i)
  /\ UNCHANGED <<outerVars, notes, mails, started, faults>>

\* finish
Finish(i) ==
  /\ pc[i] = "finish"
  /\ ~Locked(Current(i))
  /\ deliveries' = [deliveries EXCEPT ![Current(i)] =
                      [@ EXCEPT !.status = work[i].outcome, !.leaseUntil = Never,
                                !.lastError = Row(i).lastError \/ work[i].error]]
  /\ notes' = [n \in DOMAIN notes |->
                 IF n \in Claimed(Current(i)) /\ ~notes[n].emailed
                 THEN [notes[n] EXCEPT !.skip = work[i].reason] ELSE notes[n]]
  /\ Leave(i)
  /\ UNCHANGED <<outerVars, mails, started, faults>>

Stop(i) ==
  /\ pc' = [pc EXCEPT ![i] = "idle"]
  /\ todo' = [todo EXCEPT ![i] = {}]
  /\ work' = [work EXCEPT ![i] = NoWork]

\* A database error ends the claim; past it, it only costs the delivery at hand.
DatabaseError(i) ==
  /\ pc[i] \notin {"idle", "send"}
  /\ Fault
  /\ IF pc[i] \in {"claim", "list"} THEN Stop(i) ELSE Leave(i)
  /\ UNCHANGED <<outerVars, notes, deliveries, mails, started>>

\* The instance is killed or put to sleep; the process that follows starts over.
Crash(i) ==
  /\ pc[i] # "idle"
  /\ Fault
  /\ Stop(i)
  /\ UNCHANGED <<outerVars, notes, deliveries, mails, started>>

-----------------------------------------------------------------------------
AccountStep ==
  \E u \in Users :
    \/ Notify(u) \/ OptIn(u) \/ OptOut(u) \/ Confirm(u)
    \/ EraseCancel(u) \/ EraseBlank(u) \/ Erase(u) \/ EraseAborts(u)
    \/ \E d \in BOOLEAN : SetDisabled(u, d)

RunStep(i) ==
  \/ Start(i) \/ Claim(i) \/ List(i) \/ TakeLease(i) \/ Busy(i) \/ Read(i) \/ Prepare(i)
  \/ Store(i) \/ Send(i) \/ MarkSent(i) \/ MarkRefused(i) \/ Finish(i)

Next ==
  \/ Tick
  \/ AccountStep
  \/ \E i \in Instances : RunStep(i) \/ DatabaseError(i) \/ Crash(i)

Spec == Init /\ [][Next]_vars

\* Every instance starts a run every few minutes (RETRY_INTERVAL_MS), and the
\* daily limit keeps a run from lasting for days: it starts one in every window.
TimelyTick == Tick /\ \A i \in Instances : now - started[i] < Window

TimelyNext ==
  \/ TimelyTick
  \/ AccountStep
  \/ \E i \in Instances : RunStep(i) \/ DatabaseError(i) \/ Crash(i)

\* Time passes, every instance starts its runs and finishes them, and a deletion
\* once begun ends (Prisma ends a transaction that takes too long).
Fairness ==
  /\ WF_vars(TimelyTick)
  /\ \A i \in Instances : WF_vars(RunStep(i))
  /\ \A u \in Users : WF_vars(EraseBlank(u) \/ Erase(u))

TimelySpec == Init /\ [][TimelyNext]_vars /\ Fairness

-----------------------------------------------------------------------------

\* As long as no run lasts so long that the age limit and the run together
\* outlast the provider's memory, a notification is e-mailed at most once,
\* whatever is retried: it is in at most one digest, and the provider's memory
\* of that digest's key outlasts every retry (dispatcher.js deliver, the 23
\* hours against the key's 24).
NeverEmailedTwice ==
  DeliveryMaxAge + longest < Window =>
    \A m1, m2 \in mails : m1 # m2 => m1.notes \cap m2.notes = {}

\* A notification is marked e-mailed only once the provider accepted a message
\* that carries it (dispatcher.js deliver, the transaction after the send).
EmailedWasAccepted ==
  \A n \in DOMAIN notes : notes[n].emailed => \E m \in mails : n \in m.notes

\* As long as no run has outlasted its lease, two instances never send the
\* same delivery at the same time, in spite of crashes, leases that ran out
\* and rows taken over (dispatcher.js deliver, leaseUntil).
OneSender ==
  longest <= Lease =>
    \A i, j \in Instances :
      /\ i # j
      /\ pc[i] \in {"send", "mark"}
      /\ pc[j] \in {"send", "mark"}
      => Current(i) # Current(j)

\* Nobody gets a digest before the owner of the mailbox has used the link of a
\* confirmation e-mail: that one was sent is not enough, and asking for e-mail
\* again does not count (dispatcher.js claim and the checks of deliver).
DigestOnlyToConfirmed ==
  \A m \in mails : m.kind = "digest" => accounts[m.to].proven

\* The deliveries that count, of the accounts that are left.
Ours == {k \in Counted(now) : deliveries[k].user # Nobody}
OurConfirms == {k \in Ours : deliveries[k].kind = "confirm"}

OursWithinLimit ==
  Cardinality(Ours) <= DailyLimit /\ Cardinality(OurConfirms) <= ConfirmLimit

\* As long as no run lasts longer than its lease, or so long that a delivery
\* leaves the window under it, the deliveries that count never exceed the
\* limit, nor the confirmations their share of it, with instances claiming at
\* once and deletions in between (dispatcher.js claim under the advisory lock).
CountedWithinLimit ==
  longest <= Lease /\ DeliveryMaxAge + 2 * longest < Window => OursWithinLimit

\* A settled delivery accounts for every notification in it: all of them are
\* e-mailed if it was sent, and all of them carry a reason if it was not, so a
\* notification is never both and never forgotten (dispatcher.js finish).
OutcomeRecorded ==
  \A n \in DOMAIN notes :
    /\ ~(notes[n].emailed /\ notes[n].skip # "")
    /\ notes[n].delivery # 0 /\ deliveries[notes[n].delivery].status # "pending" =>
         /\ notes[n].emailed = (deliveries[notes[n].delivery].status = "sent")
         /\ notes[n].emailed \/ notes[n].skip # ""

\* The rows that the deletion of an account has seen hold neither message nor
\* provider id when it is over, and get none back, though a run may have been
\* anywhere between reading such a row and marking it (accountDeletion.js
\* eraseAccount, dispatcher.js deliver).
ErasedStaysEmpty ==
  \A k \in DOMAIN deliveries \ missed :
    deliveries[k].user = Nobody => deliveries[k].payload = <<>> /\ ~deliveries[k].providerId

\* Every delivery is settled in the end, also one whose sender crashed while
\* it held the lease (dispatcher.js run, retries).
EventuallySettled ==
  \A k \in 1 .. MaxNotes + 1 :
    (k \in Pending) ~> (k \notin Pending)

\* A notification that is to be e-mailed while it is young enough for it is, or
\* is given a reason, though it may have to wait for a digest of its user that is
\* retried, or lose a claim to an error: runs are frequent enough to reach it
\* before it is three windows old and never looked at again (dispatcher.js claim).
EventuallyAccounted ==
  \A n \in 1 .. MaxNotes :
    (/\ n \in DOMAIN notes /\ Wanted(n) /\ ~accounts[notes[n].user].disabled
     /\ now - notes[n].at < Window)
      ~> (n \notin DOMAIN notes \/ ~Wanted(n) \/ accounts[notes[n].user].disabled
          \/ notes[n].emailed \/ notes[n].skip # "")

-----------------------------------------------------------------------------
(***************************************************************************)
(* What the comments and docs promise, and the code does not keep.         *)
(***************************************************************************)
\* "each send takes a short lease on its delivery row, so two instances never
\* send the same digest" (docs/operations.md).  The lease runs from the start
\* of the run, and a run that waits for the provider can outlast it.
NeverTwoSenders ==
  \A i, j \in Instances :
    i # j /\ pc[i] = "send" /\ pc[j] = "send" => Current(i) # Current(j)

\* "it must stay without the message" (dispatcher.js, of the row of a deleted
\* account).  A row claimed after the deletion's update of the deliveries can
\* get its message before the user is deleted, and keeps it.
ErasedHoldsNoMessage ==
  \A k \in DOMAIN deliveries : deliveries[k].user = Nobody => deliveries[k].payload = <<>>

\* "DAILY_LIMIT over a rolling 24 h" (dispatcher.js).  A deletion cancels a
\* pending delivery that does not count then, though its send may be under way
\* and count later.
AllWithinLimit == Cardinality(Counted(now)) <= DailyLimit

\* emailSkipReason is "Why no e-mail was sent" (schema.prisma).  Giving up
\* drops the lease in one statement and settles the row in the next, and
\* another instance can send the delivery in between.
SkipMeansNoEmail == \A n \in DOMAIN notes : notes[n].skip # "" => ~notes[n].emailed

\* "Only notifications created after this moment are e-mailed"
\* (schema.prisma, emailAlertsConsentAt; docs/operations.md).  A digest pending
\* while its user turns e-mail off and on again is sent under the new consent.
OnlyAfterConsent ==
  \A m \in mails : \A n \in m.notes : made[n].at >= m.consentAt
=============================================================================
