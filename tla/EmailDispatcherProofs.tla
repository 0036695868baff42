------------------------ MODULE EmailDispatcherProofs ------------------------
(***************************************************************************)
(* Proofs about EmailDispatcher, for any number of accounts, instances,    *)
(* notifications, crashes, errors and lost answers: two instances never    *)
(* send the same delivery at once, no notification is e-mailed twice or    *)
(* marked without being accepted, the deliveries that count stay within    *)
(* the limit, and a row that a deletion has blanked holds no message.      *)
(* Nothing in the code bounds a run; what holds only until a run has       *)
(* outlasted something is stated of the longest run so far.                *)
(***************************************************************************)
EXTENDS EmailDispatcher, TLAPS, FiniteSetTheorems, SequenceTheorems, WellFoundedInduction,
        NaturalsInduction

USE DEF outerVars

LEMMA Numbers ==
  /\ Lease \in Nat /\ DeliveryMaxAge \in Nat /\ Window \in Nat
  /\ Nobody \notin Users
BY UsersAssumption, LimitsAssumption

\* Where a run is at a delivery, and where it sends it.
Sending == {"read", "prepare", "store", "send", "mark"}
AtDelivery == {"lease", "finish"} \cup Sending
Stages == {"idle", "claim", "list"} \cup AtDelivery

Payloads == {<<>>} \cup {<<S>> : S \in SUBSET Nat}

Kinds == {"confirm", "digest"}
Statuses == {"pending", "sent", "failed", "cancelled"}
Settled == {"failed", "cancelled"}
Outcomes == {"", "sent", "transient", "permanent"} \cup Settled
Reasons == {"", "disabled", "send-failed", "too-old", "daily-limit"}

\* The types.
Owner == Users \cup {Nobody}

Rows ==
  [user : Owner, kind : Kinds, status : Statuses, attempts : Nat, createdAt : Int,
   lastAttemptAt : Int, sentAt : Int, leaseUntil : Int, payload : Payloads,
   lastError : BOOLEAN, providerId : BOOLEAN]

Works ==
  [kind : Kinds, attempts : Nat, payload : Payloads, to : Owner, outcome : Outcomes,
   reason : Reasons, error : BOOLEAN]

Notes == [user : Users, at : Nat, delivery : Nat, emailed : BOOLEAN, skip : Reasons]

TablesTyped ==
  /\ now \in Nat
  /\ made \in Seq([user : Users, at : Nat])
  /\ notes \in [DOMAIN notes -> Notes]
  /\ DOMAIN notes \subseteq 1 .. Len(made)
  /\ deliveries \in Seq(Rows)
  /\ \A m \in mails : m.key \in Nat /\ m.at \in Nat /\ m.notes \in SUBSET Nat

RunTyped ==
  /\ pc \in [Instances -> Stages]
  /\ started \in [Instances -> Nat]
  /\ todo \in [Instances -> SUBSET Nat]
  /\ work \in [Instances -> Works]

\* What a run holds at its stages.
RunHolds ==
  \A i \in Instances :
    /\ todo[i] \subseteq 1 .. Len(deliveries)
    /\ pc[i] \in AtDelivery => todo[i] # {}
    /\ pc[i] \in {"store", "send"} => work[i].payload # <<>>
    /\ pc[i] = "finish" => work[i].outcome \in Settled

TypeInv == TablesTyped /\ RunTyped /\ RunHolds

-----------------------------------------------------------------------------
\* A nonempty set of ids has a least one.
LEMMA LeastExists ==
  ASSUME NEW S \in SUBSET Nat, S # {}
  PROVE  \E m \in S : \A n \in S : m <= n
<1>1. PICK m \in S : \A n \in S : ~(<<n, m>> \in OpToRel(<, Nat))
  BY NatLessThanWellFounded, WFMin
<1>2. \A n \in S : ~(n < m)
  BY <1>1 DEF OpToRel
<1> QED
  BY <1>2

\* The delivery at hand is one of those the run has still to send.
LEMMA CurrentFacts ==
  ASSUME TypeInv, NEW i \in Instances, pc[i] \in AtDelivery
  PROVE  /\ Current(i) \in todo[i] /\ Current(i) \in 1 .. Len(deliveries)
         /\ Row(i) = deliveries[Current(i)] /\ Row(i) \in Rows
<1>1. todo[i] \subseteq 1 .. Len(deliveries) /\ todo[i] # {} /\ Len(deliveries) \in Nat
  BY LenProperties DEF TypeInv, TablesTyped, RunHolds
<1>2. todo[i] \subseteq Nat
  BY <1>1
<1>3. \E x \in todo[i] : \A y \in todo[i] : x <= y
  BY <1>1, <1>2, LeastExists
<1>5. Current(i) \in todo[i]
  BY <1>3 DEF Current, Min
<1>6. Row(i) = deliveries[Current(i)]
  BY DEF Row
<1> QED
  BY <1>1, <1>5, <1>6, ElementOfSeq DEF TypeInv, TablesTyped

\* What a change of one row leaves.
LEMMA OneRow ==
  ASSUME deliveries \in Seq(Rows), NEW k \in 1 .. Len(deliveries), NEW d \in Rows,
         deliveries' = [deliveries EXCEPT ![k] = d]
  PROVE  /\ Len(deliveries') = Len(deliveries)
         /\ deliveries'[k] = d
         /\ \A l \in 1 .. Len(deliveries) : l # k => deliveries'[l] = deliveries[l]
         /\ deliveries' \in Seq(Rows)
BY ExceptSeq

\* What each statement writes on the delivery at hand.
Writes(i) == TakeLease(i) \/ Store(i) \/ MarkSent(i) \/ MarkRefused(i) \/ Finish(i)

SameDates(d, old) ==
  d.attempts = old.attempts /\ d.lastAttemptAt = old.lastAttemptAt /\ d.sentAt = old.sentAt

Written(i, d) ==
  LET old == Row(i)
  IN  /\ d.user = old.user /\ d.createdAt = old.createdAt /\ d.kind = old.kind
      /\ TakeLease(i) \/ Store(i) \/ Finish(i) => SameDates(d, old)
      /\ MarkSent(i) => d.attempts = old.attempts + 1 /\ d.sentAt = started[i]
      /\ MarkRefused(i) => /\ d.attempts = work[i].attempts + 1
                           /\ d.lastAttemptAt = started[i] /\ d.sentAt = old.sentAt
      /\ TakeLease(i) => /\ d.status = old.status /\ d.leaseUntil = started[i] + Lease
                         /\ d.payload = old.payload /\ d.providerId = old.providerId
      /\ Store(i) => /\ d.status = old.status /\ d.leaseUntil = old.leaseUntil
                     /\ d.payload = IF old.user = Nobody THEN old.payload ELSE work[i].payload
                     /\ d.providerId = old.providerId
      /\ MarkSent(i) => /\ d.status = "sent" /\ d.payload = old.payload
                        /\ d.providerId = (old.user # Nobody)
      /\ MarkRefused(i) => /\ d.status = old.status /\ d.payload = old.payload
                           /\ d.providerId = old.providerId
      /\ Finish(i) => /\ d.status = work[i].outcome /\ d.payload = old.payload
                      /\ d.providerId = old.providerId

\* A row after the statements that write several fields; its type stays.
SentRow(d, at, attempts, id, free, status, error) ==
  [d EXCEPT !.status = status, !.sentAt = at, !.lastAttemptAt = at, !.attempts = attempts,
            !.providerId = id, !.lastError = error, !.leaseUntil = free]
RefusedRow(d, at, attempts, free, error) ==
  [d EXCEPT !.attempts = attempts, !.lastAttemptAt = at, !.lastError = error, !.leaseUntil = free]
SettledRow(d, status, error, free) ==
  [d EXCEPT !.status = status, !.leaseUntil = free, !.lastError = error]

Keeps(d, e) ==
  /\ e.user = d.user /\ e.kind = d.kind /\ e.createdAt = d.createdAt
  /\ e.payload = d.payload
Dated(e, attempts, last, sent) ==
  e.attempts = attempts /\ e.lastAttemptAt = last /\ e.sentAt = sent
Marked(e, status, id) == e.status = status /\ e.providerId = id

LEMMA SentKeeps ==
  ASSUME NEW d \in Rows, NEW at \in Int, NEW attempts \in Nat, NEW free \in Int,
         NEW id \in BOOLEAN, NEW status \in Statuses, NEW error \in BOOLEAN
  PROVE  /\ SentRow(d, at, attempts, id, free, status, error) \in Rows
         /\ Keeps(d, SentRow(d, at, attempts, id, free, status, error))
         /\ Marked(SentRow(d, at, attempts, id, free, status, error), status, id)
         /\ Dated(SentRow(d, at, attempts, id, free, status, error), attempts, at, at)
BY DEF Rows, Keeps, Marked, Dated, SentRow

LEMMA RefusedKeeps ==
  ASSUME NEW d \in Rows, NEW at \in Int, NEW attempts \in Nat, NEW free \in Int,
         NEW error \in BOOLEAN
  PROVE  /\ RefusedRow(d, at, attempts, free, error) \in Rows
         /\ Keeps(d, RefusedRow(d, at, attempts, free, error))
         /\ Marked(RefusedRow(d, at, attempts, free, error), d.status, d.providerId)
         /\ Dated(RefusedRow(d, at, attempts, free, error), attempts, at, d.sentAt)
BY DEF Rows, Keeps, Marked, Dated, RefusedRow

LEMMA SettledKeeps ==
  ASSUME NEW d \in Rows, NEW free \in Int, NEW status \in Statuses,
         NEW error \in BOOLEAN
  PROVE  /\ SettledRow(d, status, error, free) \in Rows
         /\ Keeps(d, SettledRow(d, status, error, free))
         /\ Marked(SettledRow(d, status, error, free), status, d.providerId)
         /\ Dated(SettledRow(d, status, error, free), d.attempts, d.lastAttemptAt, d.sentAt)
BY DEF Rows, Keeps, Marked, Dated, SettledRow

LEMMA WriteEffects ==
  ASSUME TypeInv, NEW i \in Instances, Writes(i)
  PROVE  /\ pc[i] \in AtDelivery
         /\ Len(deliveries') = Len(deliveries) /\ deliveries' \in Seq(Rows)
         /\ \A l \in 1 .. Len(deliveries) : l # Current(i) => deliveries'[l] = deliveries[l]
         /\ Written(i, deliveries'[Current(i)])
<1>1. pc[i] \in AtDelivery
  BY DEF Writes, TakeLease, Store, MarkSent, MarkRefused, Finish, AtDelivery, Sending
<1>2. /\ Current(i) \in 1 .. Len(deliveries)
      /\ Row(i) = deliveries[Current(i)] /\ Row(i) \in Rows
  BY <1>1, CurrentFacts
<1>3. /\ work[i] \in Works /\ started[i] \in Nat /\ deliveries \in Seq(Rows)
      /\ Lease \in Nat /\ Never \in Int
  BY Numbers DEF TypeInv, TablesTyped, RunTyped, Never
<1>w. /\ work[i].payload \in Payloads /\ work[i].attempts + 1 \in Nat
      /\ (Finish(i) => work[i].outcome \in Statuses)
      /\ work[i].error \in BOOLEAN /\ started[i] \in Int /\ started[i] + Lease \in Int
      /\ "sent" \in Statuses
  BY <1>3 DEF Works, TypeInv, RunHolds, Finish, Settled, Statuses
<1>r. /\ Row(i).payload \in Payloads /\ Row(i).attempts + 1 \in Nat /\ Row(i).lastError \in BOOLEAN
  BY <1>2 DEF Rows
<1>b. /\ TRUE \in BOOLEAN /\ FALSE \in BOOLEAN /\ (Row(i).user # Nobody) \in BOOLEAN
      /\ (Row(i).lastError \/ work[i].error) \in BOOLEAN
  BY Zenon
<1> DEFINE Good(d) == d \in Rows /\ Written(i, d) /\ deliveries' = [deliveries EXCEPT ![Current(i)] = d]
<1>4. SUFFICES \E d : Good(d)
  BY <1>1, <1>2, <1>3, OneRow
<1>5. CASE TakeLease(i)
  <2> DEFINE d == [Row(i) EXCEPT !.leaseUntil = started[i] + Lease]
  <2>1. d \in Rows
    BY <1>2, <1>3, <1>w, <1>r DEF Rows
  <2>2. deliveries' = [deliveries EXCEPT ![Current(i)] = d]
    BY <1>2, <1>5 DEF TakeLease
  <2>3. Written(i, d)
    BY <1>2, <1>3, <1>5 DEF Written, SameDates, Rows, TakeLease, Store,
       MarkSent, MarkRefused, Finish
  <2> QED
    BY <2>1, <2>2, <2>3
<1>6. CASE Store(i)
  <2> DEFINE d == [Row(i) EXCEPT !.payload = IF Row(i).user = Nobody THEN @ ELSE work[i].payload]
  <2>1. d \in Rows
    BY <1>2, <1>3, <1>w, <1>r DEF Rows
  <2>2. deliveries' = [deliveries EXCEPT ![Current(i)] = d]
    BY <1>2, <1>6 DEF Store
  <2>3. Written(i, d)
    BY <1>2, <1>3, <1>6 DEF Written, SameDates, Rows, TakeLease, Store,
       MarkSent, MarkRefused, Finish
  <2> QED
    BY <2>1, <2>2, <2>3
<1>7. CASE MarkSent(i)
  <2> DEFINE d == SentRow(Row(i), started[i], Row(i).attempts + 1, Row(i).user # Nobody, Never,
                        "sent", FALSE)
  <2>1. /\ d \in Rows /\ Keeps(Row(i), d)
        /\ Marked(d, "sent", Row(i).user # Nobody)
        /\ Dated(d, Row(i).attempts + 1, started[i], started[i])
    BY <1>2, <1>3, <1>w, <1>r, <1>b, SentKeeps, Zenon
  <2>2. deliveries' = [deliveries EXCEPT ![Current(i)] = d]
    BY <1>7 DEF MarkSent, Row, SentRow
  <2>3. Written(i, d)
    BY <2>1, <1>7 DEF Written, SameDates, Keeps, Marked, Dated,
       TakeLease, Store, MarkSent, MarkRefused, Finish
  <2> QED
    BY <2>1, <2>2, <2>3
<1>8. CASE MarkRefused(i)
  <2> DEFINE d == RefusedRow(Row(i), started[i], work[i].attempts + 1, Never, TRUE)
  <2>1. /\ d \in Rows /\ Keeps(Row(i), d)
        /\ Marked(d, Row(i).status, Row(i).providerId)
        /\ Dated(d, work[i].attempts + 1, started[i], Row(i).sentAt)
    BY <1>2, <1>3, <1>w, <1>r, <1>b, RefusedKeeps, Zenon
  <2>2. deliveries' = [deliveries EXCEPT ![Current(i)] = d]
    BY <1>8 DEF MarkRefused, Row, RefusedRow
  <2>3. Written(i, d)
    BY <2>1, <1>8 DEF Written, SameDates, Keeps, Marked, Dated,
       TakeLease, Store, MarkSent, MarkRefused, Finish
  <2> QED
    BY <2>1, <2>2, <2>3
<1>9. CASE Finish(i)
  <2> DEFINE d == SettledRow(Row(i), work[i].outcome, Row(i).lastError \/ work[i].error, Never)
  <2>0. work[i].outcome \in Statuses
    BY <1>9, <1>w
  <2>1. /\ d \in Rows /\ Keeps(Row(i), d)
        /\ Marked(d, work[i].outcome, Row(i).providerId)
        /\ Dated(d, Row(i).attempts, Row(i).lastAttemptAt, Row(i).sentAt)
    BY <2>0, <1>2, <1>3, <1>w, <1>r, <1>b, SettledKeeps, Zenon
  <2>2. deliveries' = [deliveries EXCEPT ![Current(i)] = d]
    BY <1>9 DEF Finish, Row, SettledRow
  <2>3. Written(i, d)
    BY <2>1, <1>9 DEF Written, SameDates, Keeps, Marked, Dated,
       TakeLease, Store, MarkSent, MarkRefused, Finish
  <2> QED
    BY <2>1, <2>2, <2>3
<1> QED
  BY <1>5, <1>6, <1>7, <1>8, <1>9 DEF Writes

-----------------------------------------------------------------------------
(***************************************************************************)
(* What a claim does to the tables: rows are appended, and notifications   *)
(* without a delivery get one of these.                                    *)
(***************************************************************************)
IsNew(d, t) ==
  /\ d.createdAt = t /\ d.payload = <<>> /\ ~d.providerId /\ d.status = "pending"
  /\ d.user \in Users /\ d.attempts = 0 /\ d.lastAttemptAt = Never /\ d.sentAt = Never

AllNew(s, t) == \A k \in 1 .. Len(s) : IsNew(s[k], t)

\* The sequence s begins like old, and the rest of it is new.
Extends(s, old, t) ==
  /\ Len(s) >= Len(old)
  /\ \A l \in 1 .. Len(old) : s[l] = old[l]
  /\ \A l \in 1 .. Len(s) : l > Len(old) => IsNew(s[l], t)

LEMMA Joined ==
  ASSUME NEW S, NEW s1 \in Seq(S), NEW s2 \in Seq(S), NEW s3 \in Seq(S), NEW t,
         AllNew(s2, t), AllNew(s3, t)
  PROVE  s1 \o s2 \o s3 \in Seq(S) /\ Extends(s1 \o s2 \o s3, s1, t)
<1>1. Len(s1) \in Nat /\ Len(s2) \in Nat /\ Len(s3) \in Nat
  BY LenProperties
<1>2. PICK u : u = s1 \o s2
  OBVIOUS
<1>3. /\ u \in Seq(S) /\ Len(u) = Len(s1) + Len(s2)
      /\ \A l \in 1 .. Len(s1) + Len(s2) : u[l] = IF l <= Len(s1) THEN s1[l] ELSE s2[l - Len(s1)]
  BY <1>2, ConcatProperties
<1>s. PICK s : s = u \o s3
  OBVIOUS
<1>4. /\ s \in Seq(S) /\ Len(s) = Len(u) + Len(s3)
      /\ \A l \in 1 .. Len(u) + Len(s3) : s[l] = IF l <= Len(u) THEN u[l] ELSE s3[l - Len(u)]
  <2>1. u \in Seq(S)
    BY <1>3
  <2> QED
    BY <2>1, <1>s, ConcatProperties
<1>5. \A l \in 1 .. Len(s1) : s[l] = s1[l]
  BY <1>1, <1>3, <1>4
<1>6. ASSUME NEW l \in 1 .. Len(s), l > Len(s1)
      PROVE  IsNew(s[l], t)
  <2>1. CASE l <= Len(u)
    <3>1. s[l] = s2[l - Len(s1)] /\ l - Len(s1) \in 1 .. Len(s2)
      BY <1>1, <1>3, <1>4, <1>6, <2>1
    <3> QED
      BY <3>1 DEF AllNew
  <2>2. CASE l > Len(u)
    <3>1. s[l] = s3[l - Len(u)] /\ l - Len(u) \in 1 .. Len(s3)
      BY <1>1, <1>3, <1>4, <1>6, <2>2
    <3> QED
      BY <3>1 DEF AllNew
  <2> QED
    BY <1>1, <1>3, <2>1, <2>2
<1>7. Len(s) >= Len(s1)
  BY <1>1, <1>3, <1>4
<1>8. s \in Seq(S) /\ Extends(s, s1, t)
  BY <1>4, <1>5, <1>6, <1>7 DEF Extends
<1> QED
  BY <1>2, <1>s, <1>8, Zenon

WithNew(c, d, X, Y, t) ==
  deliveries \o [k \in 1 .. c |-> NewDelivery(Nth(X, k), "confirm", t)]
             \o [k \in 1 .. d |-> NewDelivery(notes[Nth(Y, k)].user, "digest", t)]

\* The rows are those of the table, c confirmations and d digests.
Grown(rows, c, d, Y, t) ==
  /\ rows \in Seq(Rows) /\ Extends(rows, deliveries, t)
  /\ Len(rows) = Len(deliveries) + c + d
  /\ \A k \in 1 .. c : rows[Len(deliveries) + k].kind = "confirm"
  /\ \A k \in 1 .. d : /\ rows[Len(deliveries) + c + k].kind = "digest"
                       /\ rows[Len(deliveries) + c + k].user = notes[Nth(Y, k)].user

LEMMA Appended ==
  ASSUME deliveries \in Seq(Rows), NEW c \in Nat, NEW d \in Nat, NEW X, NEW Y, NEW t \in Nat,
         \A k \in 1 .. c : Nth(X, k) \in Users,
         \A k \in 1 .. d : notes[Nth(Y, k)].user \in Users
  PROVE  Grown(WithNew(c, d, X, Y, t), c, d, Y, t)
<1>0. PICK rows : rows = WithNew(c, d, X, Y, t)
  OBVIOUS
<1> DEFINE first == [k \in 1 .. c |-> NewDelivery(Nth(X, k), "confirm", t)]
           second == [k \in 1 .. d |-> NewDelivery(notes[Nth(Y, k)].user, "digest", t)]
<1>1. ASSUME NEW u \in Users, NEW k \in Kinds
      PROVE  /\ NewDelivery(u, k, t) \in Rows /\ IsNew(NewDelivery(u, k, t), t)
             /\ NewDelivery(u, k, t).kind = k /\ NewDelivery(u, k, t).user = u
  BY DEF NewDelivery, Rows, IsNew, Payloads, Statuses, Never, Owner
<1>2. /\ first \in Seq(Rows) /\ Len(first) = c
      /\ \A k \in 1 .. c : IsNew(first[k], t) /\ first[k].kind = "confirm"
  <2>1. \A k \in 1 .. c :
          /\ NewDelivery(Nth(X, k), "confirm", t) \in Rows
          /\ IsNew(NewDelivery(Nth(X, k), "confirm", t), t)
          /\ NewDelivery(Nth(X, k), "confirm", t).kind = "confirm"
    BY <1>1 DEF Kinds
  <2> QED
    BY <2>1
<1>3. /\ second \in Seq(Rows) /\ Len(second) = d
      /\ \A k \in 1 .. d : /\ IsNew(second[k], t) /\ second[k].kind = "digest"
                           /\ second[k].user = notes[Nth(Y, k)].user
  <2>1. \A k \in 1 .. d :
          /\ NewDelivery(notes[Nth(Y, k)].user, "digest", t) \in Rows
          /\ IsNew(NewDelivery(notes[Nth(Y, k)].user, "digest", t), t)
          /\ NewDelivery(notes[Nth(Y, k)].user, "digest", t).kind = "digest"
          /\ NewDelivery(notes[Nth(Y, k)].user, "digest", t).user = notes[Nth(Y, k)].user
    BY <1>1 DEF Kinds
  <2> QED
    BY <2>1
<1>4. rows = deliveries \o first \o second
  BY <1>0, Zenon DEF WithNew
<1> HIDE DEF first, second
<1>5. AllNew(first, t) /\ AllNew(second, t)
  BY <1>2, <1>3 DEF AllNew
<1>6. rows \in Seq(Rows) /\ Extends(rows, deliveries, t)
  <2>1. /\ deliveries \o first \o second \in Seq(Rows)
        /\ Extends(deliveries \o first \o second, deliveries, t)
    BY <1>2, <1>3, <1>5, Joined, Zenon
  <2> QED
    BY <1>4, <2>1, Zenon
<1>7. PICK u : u = deliveries \o first
  OBVIOUS
<1>8. /\ u \in Seq(Rows) /\ Len(u) = Len(deliveries) + c /\ Len(deliveries) \in Nat
      /\ \A l \in 1 .. Len(deliveries) + c :
           u[l] = IF l <= Len(deliveries) THEN deliveries[l] ELSE first[l - Len(deliveries)]
  BY <1>2, <1>7, ConcatProperties, LenProperties
<1>9. /\ Len(rows) = Len(deliveries) + c + d
      /\ \A l \in 1 .. Len(deliveries) + c + d :
           rows[l] = IF l <= Len(u) THEN u[l] ELSE second[l - Len(u)]
  <2>1. rows = u \o second
    BY <1>4, <1>7, Zenon
  <2>2. /\ Len(rows) = Len(u) + Len(second)
        /\ \A l \in 1 .. Len(u) + Len(second) :
             rows[l] = IF l <= Len(u) THEN u[l] ELSE second[l - Len(u)]
    BY <1>3, <1>8, <2>1, ConcatProperties
  <2> QED
    BY <1>3, <1>8, <2>2
<1>10. ASSUME NEW k \in 1 .. c
       PROVE  rows[Len(deliveries) + k].kind = "confirm"
  <2>1. /\ Len(deliveries) + k \in 1 .. Len(deliveries) + c + d
        /\ Len(deliveries) + k \in 1 .. Len(deliveries) + c
        /\ Len(deliveries) + k <= Len(u) /\ ~(Len(deliveries) + k <= Len(deliveries))
        /\ Len(deliveries) + k - Len(deliveries) = k
    BY <1>8
  <2>2. rows[Len(deliveries) + k] = first[k]
    BY <1>8, <1>9, <2>1
  <2> QED
    BY <1>2, <2>2
<1>11. ASSUME NEW k \in 1 .. d
       PROVE  /\ rows[Len(deliveries) + c + k].kind = "digest"
              /\ rows[Len(deliveries) + c + k].user = notes[Nth(Y, k)].user
  <2>1. /\ Len(deliveries) + c + k \in 1 .. Len(deliveries) + c + d
        /\ ~(Len(deliveries) + c + k <= Len(u))
        /\ Len(deliveries) + c + k - Len(u) = k
    BY <1>8
  <2>2. rows[Len(deliveries) + c + k] = second[k]
    BY <1>9, <2>1
  <2> QED
    BY <1>3, <2>2
<1>12. Grown(rows, c, d, Y, t)
  BY <1>6, <1>9, <1>10, <1>11 DEF Grown
<1> QED
  BY <1>0, <1>12, Zenon

-----------------------------------------------------------------------------
(***************************************************************************)
(* The first elements of a set of numbers, and the k-th.                   *)
(***************************************************************************)

\* How many elements of S are at most x: 1 for the first, and so on.
Rank(S, x) == Cardinality({y \in S : y <= x})

LEMMA RankGrows ==
  ASSUME NEW S \in SUBSET Nat, IsFiniteSet(S), NEW x \in S, NEW y \in S, x < y
  PROVE  Rank(S, x) < Rank(S, y)
<1> DEFINE X == {z \in S : z <= x}
           Y == {z \in S : z <= y}
<1>0. x \in Nat /\ y \in Nat /\ \A z \in S : z \in Nat
  OBVIOUS
<1>1. X \in SUBSET Y /\ y \in Y /\ y \notin X
  <2>1. ASSUME NEW z \in X
        PROVE  z \in Y
    <3>1. z \in S /\ z <= x
      OBVIOUS
    <3>2. z <= y
      BY <1>0, <3>1
    <3> QED
      BY <3>1, <3>2
  <2>2. y <= y /\ ~ (y <= x)
    BY <1>0
  <2> QED
    BY <2>1, <2>2
<1>2. IsFiniteSet(Y) /\ IsFiniteSet(X)
  BY <1>1, FS_Subset
<1> HIDE DEF X, Y
<1>3. /\ Cardinality(X) \in Nat /\ Cardinality(Y) \in Nat
      /\ Cardinality(X) <= Cardinality(Y) /\ Cardinality(X) # Cardinality(Y)
  BY <1>1, <1>2, FS_Subset, FS_CardinalityType
<1>4. Cardinality(X) < Cardinality(Y)
  BY <1>3
<1> QED
  BY <1>4 DEF Rank, X, Y

LEMMA RankType ==
  ASSUME NEW S \in SUBSET Nat, IsFiniteSet(S), NEW x \in S
  PROVE  Rank(S, x) \in 1 .. Cardinality(S) /\ Cardinality(S) \in Nat
<1> DEFINE X == {z \in S : z <= x}
<1>1. X \in SUBSET S /\ x \in X
  OBVIOUS
<1>2. IsFiniteSet(X)
  BY <1>1, FS_Subset
<1> HIDE DEF X
<1>3. /\ Cardinality(X) \in Nat /\ Cardinality(S) \in Nat /\ Cardinality(X) <= Cardinality(S)
      /\ Cardinality(X) # 0
  BY <1>1, <1>2, FS_Subset, FS_CardinalityType, FS_EmptySet
<1>4. Cardinality(X) \in 1 .. Cardinality(S)
  BY <1>3
<1> QED
  BY <1>3, <1>4 DEF Rank, X

\* The k-th element is one of the set, and the one of that rank.
LEMMA NthIs ==
  ASSUME NEW S \in SUBSET Nat, IsFiniteSet(S)
  PROVE  /\ \A k \in 1 .. Cardinality(S) : Nth(S, k) \in S
         /\ \A x \in S : Nth(S, Rank(S, x)) = x
<1> DEFINE r == [x \in S |-> Rank(S, x)]
<1>1. ASSUME NEW x \in S, NEW y \in S, x # y
      PROVE  Rank(S, x) # Rank(S, y)
  <2>1. x < y \/ y < x
    BY <1>1
  <2>2. Rank(S, x) \in Nat /\ Rank(S, y) \in Nat
    BY RankType
  <2> QED
    BY <2>1, <2>2, RankGrows
<1>2. r \in Injection(S, 1 .. Cardinality(S))
  BY <1>1, RankType DEF Injection, IsInjective
<1>3. Cardinality(S) \in Nat
  BY FS_CardinalityType
<1>4. IsFiniteSet(1 .. Cardinality(S)) /\ Cardinality(1 .. Cardinality(S)) = Cardinality(S)
  BY <1>3, FS_Interval
<1>5. r \in Surjection(S, 1 .. Cardinality(S))
  BY <1>2, <1>4, FS_Injection
<1>6. ASSUME NEW k \in 1 .. Cardinality(S)
      PROVE  Nth(S, k) \in S
  <2>1. \E x \in S : Rank(S, x) = k
    BY <1>5 DEF Surjection
  <2> QED
    BY <2>1 DEF Nth, Rank
<1>7. ASSUME NEW x \in S
      PROVE  Nth(S, Rank(S, x)) = x
  <2>1. PICK k : k = Rank(S, x)
    OBVIOUS
  <2>2. Nth(S, k) \in S /\ Rank(S, Nth(S, k)) = k
    BY <2>1 DEF Nth, Rank
  <2> QED
    BY <1>1, <2>1, <2>2
<1> QED
  BY <1>6, <1>7

\* No more than k elements are the k first.
LEMMA FirstOfIs ==
  ASSUME NEW S \in SUBSET Nat, IsFiniteSet(S), NEW k \in Int
  PROVE  /\ FirstOf(S, k) \subseteq S /\ IsFiniteSet(FirstOf(S, k))
         /\ Cardinality(FirstOf(S, k)) \in Nat
         /\ Cardinality(FirstOf(S, k)) <= k \/ Cardinality(FirstOf(S, k)) = 0
<1> DEFINE T == FirstOf(S, k)
<1>1. T \in SUBSET S
  BY DEF FirstOf
<1>2. IsFiniteSet(T) /\ Cardinality(T) \in Nat
  BY <1>1, FS_Subset, FS_CardinalityType
<1>3. CASE T = {}
  BY <1>1, <1>2, <1>3, FS_EmptySet
<1>4. CASE T # {}
  <2>1. Cardinality(T) \in 1 .. Cardinality(T)
    <3>1. Cardinality(T) # 0
      BY <1>2, <1>4, FS_EmptySet
    <3> QED
      BY <1>2, <3>1
  <2>2. T \in SUBSET Nat
    BY <1>1
  <2>3. PICK last \in T : Rank(T, last) = Cardinality(T)
    <3> HIDE DEF T
    <3> DEFINE r == [x \in T |-> Rank(T, x)]
    <3>1. ASSUME NEW x \in T, NEW y \in T, x # y
          PROVE  Rank(T, x) # Rank(T, y)
      <4>1. x < y \/ y < x
        BY <2>2, <3>1
      <4>2. Rank(T, x) \in Nat /\ Rank(T, y) \in Nat
        BY <1>2, <2>2, RankType
      <4> QED
        BY <1>2, <2>2, <4>1, <4>2, RankGrows
    <3>2. r \in Injection(T, 1 .. Cardinality(T))
      BY <1>2, <2>2, <3>1, RankType DEF Injection, IsInjective
    <3>3. IsFiniteSet(1 .. Cardinality(T)) /\ Cardinality(1 .. Cardinality(T)) = Cardinality(T)
      BY <1>2, FS_Interval
    <3>4. r \in Surjection(T, 1 .. Cardinality(T))
      BY <3>2, <3>3, FS_Injection
    <3> QED
      BY <2>1, <3>4 DEF Surjection
  <2> DEFINE below == {y \in S : y < last}
             upto == {y \in T : y <= last}
  <2>4. Cardinality(below) < k
    BY <2>3 DEF FirstOf
  <2>5. upto \in SUBSET (below \cup {last})
    <3>1. ASSUME NEW y \in upto
          PROVE  y \in below \cup {last}
      <4>1. y \in S /\ y \in Nat /\ last \in Nat /\ y <= last
        BY <1>1, <2>2
      <4>2. y < last \/ y = last
        BY <4>1
      <4> QED
        BY <4>1, <4>2
    <3> QED
      BY <3>1
  <2>6. IsFiniteSet(below) /\ Cardinality(below) \in Nat
    <3>1. below \in SUBSET S
      OBVIOUS
    <3> QED
      BY <3>1, FS_Subset, FS_CardinalityType
  <2>7. Cardinality(upto) = Cardinality(T)
    BY <2>3 DEF Rank
  <2> HIDE DEF below, upto
  <2>8. /\ IsFiniteSet(below \cup {last})
        /\ Cardinality(below \cup {last}) = IF last \in below THEN Cardinality(below)
                                            ELSE Cardinality(below) + 1
    BY <2>6, FS_AddElement
  <2>9. Cardinality(upto) <= Cardinality(below \cup {last})
    BY <2>5, <2>8, FS_Subset
  <2>10. Cardinality(T) <= k
    <3> HIDE DEF T
    <3> QED
      BY <1>2, <2>4, <2>6, <2>7, <2>8, <2>9
  <2> QED
    BY <1>1, <1>2, <2>10
<1> QED
  BY <1>3, <1>4

-----------------------------------------------------------------------------
SameNote(n, old) == n.emailed = old.emailed /\ n.user = old.user
InDelivery(n, k) == n.delivery = k

\* A notification nobody has decided about.
Open(n) == ~n.emailed /\ n.delivery = 0 /\ n.skip = ""

\* The notification n is in a delivery of the rows that is not among the first count, and
\* that is its user's.
InNew(n, rows, count) ==
  /\ n.delivery \in 1 .. Len(rows) /\ n.delivery > count
  /\ rows[n.delivery].user = n.user

\* What a claim makes of a notification: an open one may get a reason, or one of the new
\* deliveries.
ClaimedNote(n, old, rows, count) ==
  /\ n \in Notes /\ SameNote(n, old)
  /\ \/ n.delivery = old.delivery /\ (n.skip = old.skip \/ Open(old))
     \/ Open(old) /\ n.skip = "" /\ InNew(n, rows, count)

Skipped(n, s) == [n EXCEPT !.skip = s]
PutIn(n, k) == [n EXCEPT !.delivery = k]
HasSkip(n, s) == n.skip = s

LEMMA NoteSkipped ==
  ASSUME NEW n \in Notes, NEW s \in Reasons
  PROVE  Skipped(n, s) \in Notes /\ SameNote(Skipped(n, s), n) /\ InDelivery(Skipped(n, s), n.delivery)
BY DEF Notes, Skipped, SameNote, InDelivery

LEMMA NotePut ==
  ASSUME NEW n \in Notes, NEW k \in Nat
  PROVE  /\ PutIn(n, k) \in Notes /\ SameNote(PutIn(n, k), n) /\ InDelivery(PutIn(n, k), k)
         /\ HasSkip(PutIn(n, k), n.skip)
BY DEF Notes, PutIn, SameNote, InDelivery, HasSkip

\* What a claim at the time t takes.
Confirming(t) ==
  FirstOf(FirstOf(Unconfirmed(t), DailyLimit - Cardinality(Counted(t))),
          ConfirmLimit - Cardinality({k \in Counted(t) : deliveries[k].kind = "confirm"}))
HeadOf(n, t) == Min({m \in Fresh(t) : notes[m].user = notes[n].user})
Digests(t) ==
  FirstOf({HeadOf(n, t) : n \in Fresh(t)},
          DailyLimit - Cardinality(Counted(t)) - Cardinality(Confirming(t)))

DigestsOf(head, t) ==
  FirstOf({head[n] : n \in Fresh(t)},
          DailyLimit - Cardinality(Counted(t)) - Cardinality(Confirming(t)))

\* The claim keeps to the limits.
Limited(t) ==
  LET c == Cardinality(Confirming(t))
      d == Cardinality(Digests(t))
  IN  /\ c # 0 => /\ Cardinality(Counted(t)) + c <= DailyLimit
                  /\ Cardinality({k \in Counted(t) : deliveries[k].kind = "confirm"}) + c
                       <= ConfirmLimit
      /\ d # 0 => Cardinality(Counted(t)) + c + d <= DailyLimit

LEMMA CountedFinite ==
  ASSUME TypeInv, NEW t
  PROVE  /\ Counted(t) \subseteq 1 .. Len(deliveries) /\ IsFiniteSet(Counted(t))
         /\ Cardinality(Counted(t)) \in Nat
         /\ IsFiniteSet({k \in Counted(t) : deliveries[k].kind = "confirm"})
         /\ Cardinality({k \in Counted(t) : deliveries[k].kind = "confirm"}) \in Nat
<1>1. DOMAIN deliveries = 1 .. Len(deliveries) /\ Len(deliveries) \in Nat
  BY LenProperties DEF TypeInv, TablesTyped
<1>2. Counted(t) \in SUBSET (1 .. Len(deliveries))
  BY <1>1 DEF Counted
<1>3. {k \in Counted(t) : deliveries[k].kind = "confirm"} \in SUBSET (1 .. Len(deliveries))
  BY <1>2
<1>4. IsFiniteSet(1 .. Len(deliveries))
  BY <1>1, FS_Interval
<1> QED
  BY <1>2, <1>3, <1>4, FS_Subset, FS_CardinalityType

LEMMA LimitTypes == DailyLimit \in Nat /\ ConfirmLimit \in Nat
<1>1. DailyLimit \in Nat /\ DailyLimit \div 5 \in Int
  BY LimitsAssumption
<1>2. PICK share \in Int : share = DailyLimit \div 5
  BY <1>1
<1>3. ConfirmLimit = IF share < 1 THEN 1 ELSE IF share > 10 THEN 10 ELSE share
  BY <1>2 DEF ConfirmLimit
<1> QED
  BY <1>1, <1>2, <1>3

LEMMA ConfirmingIs ==
  ASSUME TypeInv, NEW t
  PROVE  /\ Confirming(t) \subseteq Users /\ Confirming(t) \subseteq Nat
         /\ IsFiniteSet(Confirming(t)) /\ Cardinality(Confirming(t)) \in Nat
         /\ Cardinality(Confirming(t)) # 0 =>
              /\ Cardinality(Counted(t)) + Cardinality(Confirming(t)) <= DailyLimit
              /\ Cardinality({k \in Counted(t) : deliveries[k].kind = "confirm"})
                   + Cardinality(Confirming(t)) <= ConfirmLimit
<1>1. PICK used \in Nat, confirmsUsed \in Nat :
        /\ used = Cardinality(Counted(t))
        /\ confirmsUsed = Cardinality({k \in Counted(t) : deliveries[k].kind = "confirm"})
  BY CountedFinite
<1>2. PICK inner : inner = FirstOf(Unconfirmed(t), DailyLimit - used)
  OBVIOUS
<1>3. Confirming(t) = FirstOf(inner, ConfirmLimit - confirmsUsed)
  BY <1>1, <1>2, Zenon DEF Confirming
<1>4. Unconfirmed(t) \in SUBSET Users
  BY DEF Unconfirmed
<1>5. Unconfirmed(t) \in SUBSET Nat /\ IsFiniteSet(Unconfirmed(t))
  BY <1>4, UsersAssumption, FS_Subset
<1>6. DailyLimit - used \in Int /\ ConfirmLimit - confirmsUsed \in Int
  BY LimitTypes
<1>7. /\ inner \subseteq Unconfirmed(t) /\ IsFiniteSet(inner) /\ Cardinality(inner) \in Nat
      /\ Cardinality(inner) <= DailyLimit - used \/ Cardinality(inner) = 0
  BY <1>2, <1>5, <1>6, FirstOfIs
<1>8. inner \in SUBSET Nat
  BY <1>5, <1>7
<1>9. /\ Confirming(t) \subseteq inner /\ IsFiniteSet(Confirming(t))
      /\ Cardinality(Confirming(t)) \in Nat
      /\ Cardinality(Confirming(t)) <= ConfirmLimit - confirmsUsed \/ Cardinality(Confirming(t)) = 0
  BY <1>3, <1>6, <1>7, <1>8, FirstOfIs
<1>10. Cardinality(Confirming(t)) <= Cardinality(inner)
  BY <1>7, <1>9, FS_Subset
<1>11. ASSUME Cardinality(Confirming(t)) # 0
       PROVE  /\ used + Cardinality(Confirming(t)) <= DailyLimit
              /\ confirmsUsed + Cardinality(Confirming(t)) <= ConfirmLimit
  BY <1>7, <1>9, <1>10, <1>11, LimitTypes
<1> QED
  BY <1>1, <1>4, <1>5, <1>7, <1>9, <1>11

LEMMA FreshIs ==
  ASSUME TypeInv, NEW t
  PROVE  /\ Fresh(t) \subseteq DOMAIN notes /\ DOMAIN notes \in SUBSET Nat
         /\ IsFiniteSet(DOMAIN notes)
         /\ \A n \in Fresh(t) : Open(notes[n])
         /\ \A n \in Fresh(t) : HeadOf(n, t) \in Fresh(t) /\ notes[HeadOf(n, t)].user = notes[n].user
<1>0. Len(made) \in Nat /\ DOMAIN notes \subseteq 1 .. Len(made)
  BY LenProperties DEF TypeInv, TablesTyped
<1>1. IsFiniteSet(1 .. Len(made)) /\ 1 .. Len(made) \subseteq Nat
  BY <1>0, FS_Interval
<1>2. DOMAIN notes \in SUBSET Nat /\ IsFiniteSet(DOMAIN notes)
  BY <1>0, <1>1, FS_Subset
<1>3. Fresh(t) \subseteq DOMAIN notes /\ \A n \in Fresh(t) : Open(notes[n])
  BY DEF Fresh, Unsettled, Open
<1>4. ASSUME NEW n \in Fresh(t)
      PROVE  HeadOf(n, t) \in Fresh(t) /\ notes[HeadOf(n, t)].user = notes[n].user
  <2> DEFINE S == {m \in Fresh(t) : notes[m].user = notes[n].user}
  <2>1. S \in SUBSET Nat /\ S # {}
    BY <1>2, <1>3, <1>4
  <2>2. \E x \in S : \A y \in S : x <= y
    BY <2>1, LeastExists
  <2>3. Min(S) \in S
    BY <2>2 DEF Min
  <2> QED
    BY <2>3 DEF HeadOf
<1> QED
  BY <1>2, <1>3, <1>4

LEMMA DigestsIs ==
  ASSUME TypeInv, NEW t
  PROVE  /\ Digests(t) \subseteq Fresh(t) /\ Digests(t) \in SUBSET Nat
         /\ IsFiniteSet(Digests(t)) /\ Cardinality(Digests(t)) \in Nat
         /\ Limited(t)
<1>1. PICK used \in Nat, c \in Nat : used = Cardinality(Counted(t)) /\ c = Cardinality(Confirming(t))
  BY CountedFinite, ConfirmingIs
<1>2. PICK heads : heads = {HeadOf(n, t) : n \in Fresh(t)}
  OBVIOUS
<1>3. heads \in SUBSET Fresh(t) /\ heads \in SUBSET DOMAIN notes /\ DOMAIN notes \in SUBSET Nat
  BY <1>2, FreshIs
<1>4. IsFiniteSet(heads) /\ heads \in SUBSET Nat
  BY <1>3, FreshIs, FS_Subset
<1>5. DailyLimit - used - c \in Int
  BY LimitTypes
<1>6. Digests(t) = FirstOf(heads, DailyLimit - used - c)
  BY <1>1, <1>2, Zenon DEF Digests
<1>7. /\ Digests(t) \subseteq heads /\ IsFiniteSet(Digests(t)) /\ Cardinality(Digests(t)) \in Nat
      /\ Cardinality(Digests(t)) <= DailyLimit - used - c \/ Cardinality(Digests(t)) = 0
  BY <1>4, <1>5, <1>6, FirstOfIs
<1>8. Cardinality(Digests(t)) # 0 => used + c + Cardinality(Digests(t)) <= DailyLimit
  BY <1>7, LimitTypes
<1>9. Limited(t)
  BY <1>1, <1>8, ConfirmingIs DEF Limited
<1> QED
  BY <1>3, <1>4, <1>7, <1>9

LEMMA ClaimRows ==
  ASSUME TypeInv, NEW i \in Instances, Claim(i)
  PROVE  LET t == started[i]
             c == Cardinality(Confirming(t))
             d == Cardinality(Digests(t))
         IN  /\ deliveries' \in Seq(Rows) /\ Extends(deliveries', deliveries, t)
             /\ Len(deliveries') = Len(deliveries) + c + d
             /\ \A k \in 1 .. c : deliveries'[Len(deliveries) + k].kind = "confirm"
             /\ \A k \in 1 .. d : deliveries'[Len(deliveries) + c + k].kind = "digest"
             /\ \A h \in Digests(t) :
                  deliveries'[Len(deliveries) + c + Rank(Digests(t), h)].user = notes[h].user
<1>1. PICK t \in Nat : t = started[i]
  BY DEF TypeInv, RunTyped
<1>2. PICK c \in Nat, d \in Nat : c = Cardinality(Confirming(t)) /\ d = Cardinality(Digests(t))
  BY ConfirmingIs, DigestsIs
<1>3. PICK X, Y : X = Confirming(t) /\ Y = Digests(t)
  OBVIOUS
<1>4. deliveries' = WithNew(c, d, X, Y, t)
  <2>1. \A n \in Fresh(t) :
          [m \in Fresh(t) |-> HeadOf(m, t)][n] = HeadOf(n, t)
    OBVIOUS
  <2>2. {[m \in Fresh(t) |-> HeadOf(m, t)][n] : n \in Fresh(t)} = {HeadOf(n, t) : n \in Fresh(t)}
    BY <2>1, Zenon
  <2>3. deliveries' = WithNew(Cardinality(Confirming(t)),
             Cardinality(DigestsOf([m \in Fresh(t) |-> HeadOf(m, t)], t)), Confirming(t),
             DigestsOf([m \in Fresh(t) |-> HeadOf(m, t)], t), t)
    BY <1>1, Zenon DEF Claim, WithNew, Confirming, DigestsOf, HeadOf
  <2>4. DigestsOf([m \in Fresh(t) |-> HeadOf(m, t)], t) = Digests(t)
    BY <2>2, Zenon DEF DigestsOf, Digests
  <2> QED
    BY <1>2, <1>3, <2>3, <2>4, Zenon
<1>5. /\ X \in SUBSET Nat /\ IsFiniteSet(X) /\ X \subseteq Users /\ c = Cardinality(X)
      /\ Y \in SUBSET Nat /\ IsFiniteSet(Y) /\ d = Cardinality(Y)
      /\ \A h \in Y : notes[h].user \in Users
  <2>1. \A h \in Y : h \in DOMAIN notes
    BY <1>3, DigestsIs, FreshIs
  <2>2. \A h \in Y : notes[h] \in Notes
    BY <2>1 DEF TypeInv, TablesTyped
  <2> QED
    BY <1>2, <1>3, <2>2, ConfirmingIs, DigestsIs DEF Notes
<1>6. /\ \A k \in 1 .. c : Nth(X, k) \in Users
      /\ \A k \in 1 .. d : notes[Nth(Y, k)].user \in Users
      /\ \A h \in Y : Nth(Y, Rank(Y, h)) = h /\ Rank(Y, h) \in 1 .. d
  BY <1>5, NthIs, RankType
<1>7. PICK rows : rows = WithNew(c, d, X, Y, t)
  OBVIOUS
<1>8. /\ rows \in Seq(Rows) /\ Extends(rows, deliveries, t)
      /\ Len(rows) = Len(deliveries) + c + d
      /\ \A k \in 1 .. c : rows[Len(deliveries) + k].kind = "confirm"
      /\ \A k \in 1 .. d : /\ rows[Len(deliveries) + c + k].kind = "digest"
                           /\ rows[Len(deliveries) + c + k].user = notes[Nth(Y, k)].user
  <2>1. deliveries \in Seq(Rows)
    BY DEF TypeInv, TablesTyped
  <2>2. /\ \A k \in 1 .. c : Nth(X, k) \in Users
        /\ \A k \in 1 .. d : notes[Nth(Y, k)].user \in Users
    BY <1>6
  <2>3. Grown(WithNew(c, d, X, Y, t), c, d, Y, t)
    BY <2>1, <2>2, Appended
  <2> QED
    BY <1>7, <2>3, Zenon DEF Grown
<1>9. \A h \in Y : rows[Len(deliveries) + c + Rank(Y, h)].user = notes[h].user
  BY <1>6, <1>8
<1>10. deliveries' = rows
  BY <1>4, <1>7, Zenon
<1> QED
  BY <1>1, <1>2, <1>3, <1>8, <1>9, <1>10, Zenon

LEMMA ClaimEffects ==
  ASSUME TypeInv, NEW i \in Instances, Claim(i)
  PROVE  /\ deliveries' \in Seq(Rows) /\ Extends(deliveries', deliveries, started[i])
         /\ notes' \in [DOMAIN notes -> Notes]
         /\ \A n \in DOMAIN notes :
              ClaimedNote(notes'[n], notes[n], deliveries', Len(deliveries))
<1>1. PICK t \in Nat : t = started[i]
  BY DEF TypeInv, RunTyped
<1>2. PICK c \in Nat : c = Cardinality(Confirming(t))
  BY ConfirmingIs
<1>3. PICK Y : Y = Digests(t)
  OBVIOUS
<1>4. /\ deliveries' \in Seq(Rows) /\ Extends(deliveries', deliveries, t)
      /\ Len(deliveries') = Len(deliveries) + c + Cardinality(Y)
      /\ \A h \in Y : deliveries'[Len(deliveries) + c + Rank(Y, h)].user = notes[h].user
  BY <1>1, <1>2, <1>3, ClaimRows, Zenon
<1> DEFINE idOf(h) == Len(deliveries) + c + Rank(Y, h)
<1>5. notes' = [n \in DOMAIN notes |->
              IF n \in TooOld(t) THEN Skipped(notes[n], "too-old")
              ELSE IF n \notin Fresh(t) THEN notes[n]
              ELSE IF HeadOf(n, t) \in Y THEN PutIn(notes[n], idOf(HeadOf(n, t)))
              ELSE Skipped(notes[n], "daily-limit")]
  <2> DEFINE head == [n \in Fresh(t) |-> HeadOf(n, t)]
             ids == [h \in Y |-> Len(deliveries) + c + Cardinality({g \in Y : g <= h})]
  <2>1. notes' = [n \in DOMAIN notes |->
              IF n \in TooOld(t) THEN Skipped(notes[n], "too-old")
              ELSE IF n \notin Fresh(t) THEN notes[n]
              ELSE IF head[n] \in Y THEN PutIn(notes[n], ids[head[n]])
              ELSE Skipped(notes[n], "daily-limit")]
    <3>1. {head[n] : n \in Fresh(t)} = {HeadOf(n, t) : n \in Fresh(t)}
      <4>1. \A n \in Fresh(t) : head[n] = HeadOf(n, t)
        OBVIOUS
      <4> QED
        BY <4>1, Zenon
    <3>2. DigestsOf(head, t) = Y
      BY <1>3, <3>1, Zenon DEF DigestsOf, Digests
    <3>3. notes' =
           [n \in DOMAIN notes |->
              IF n \in TooOld(t) THEN Skipped(notes[n], "too-old")
              ELSE IF n \notin Fresh(t) THEN notes[n]
              ELSE IF head[n] \in DigestsOf(head, t)
                   THEN PutIn(notes[n],
                              [h \in DigestsOf(head, t) |-> Len(deliveries) + Cardinality(Confirming(t))
                                 + Cardinality({g \in DigestsOf(head, t) : g <= h})][head[n]])
              ELSE Skipped(notes[n], "daily-limit")]
      BY <1>1, ZenonT(120) DEF Claim, Confirming, DigestsOf, HeadOf, Skipped, PutIn
    <3> QED
      BY <1>2, <3>2, <3>3, Zenon
  <2>2. \A n \in Fresh(t) : head[n] = HeadOf(n, t)
    OBVIOUS
  <2>3. \A h \in Y : ids[h] = idOf(h)
    BY DEF Rank
  <2> HIDE DEF head, ids, idOf
  <2> QED
    BY <2>1, <2>2, <2>3, Zenon
<1> HIDE DEF idOf
<1>6. /\ deliveries \in Seq(Rows) /\ Len(deliveries) \in Nat
      /\ notes \in [DOMAIN notes -> Notes]
  BY LenProperties DEF TypeInv, TablesTyped
<1>7. ASSUME NEW n \in Fresh(t), HeadOf(n, t) \in Y
      PROVE  /\ idOf(HeadOf(n, t)) \in 1 .. Len(deliveries')
             /\ idOf(HeadOf(n, t)) > Len(deliveries)
             /\ deliveries'[idOf(HeadOf(n, t))].user = notes[n].user
  <2>1. PICK h \in Y : h = HeadOf(n, t)
    BY <1>7
  <2>2. Rank(Y, h) \in 1 .. Cardinality(Y) /\ Cardinality(Y) \in Nat
    BY <1>3, DigestsIs, RankType
  <2>3. notes[h].user = notes[n].user
    BY <2>1, FreshIs
  <2>4. PICK r \in 1 .. Cardinality(Y) : r = Rank(Y, h)
    BY <2>2
  <2>5. idOf(h) = Len(deliveries) + c + r
    BY <2>4 DEF idOf
  <2>6. idOf(h) \in 1 .. Len(deliveries') /\ idOf(h) > Len(deliveries)
    BY <1>4, <1>6, <2>2, <2>5
  <2>7. deliveries'[idOf(h)].user = notes[h].user
    BY <1>4 DEF idOf
  <2> QED
    BY <2>1, <2>3, <2>6, <2>7
<1>8. TooOld(t) \subseteq DOMAIN notes /\ \A n \in TooOld(t) : Open(notes[n])
  BY DEF TooOld, Unsettled, Open
<1>9. ASSUME NEW n \in DOMAIN notes
      PROVE  ClaimedNote(notes'[n], notes[n], deliveries', Len(deliveries))
  <2>1. notes[n] \in Notes
    BY <1>6
  <2>2. CASE notes'[n] = notes[n]
    BY <2>1, <2>2, Zenon DEF ClaimedNote, SameNote
  <2>3. ASSUME NEW s \in Reasons, notes'[n] = Skipped(notes[n], s), Open(notes[n])
        PROVE  ClaimedNote(notes'[n], notes[n], deliveries', Len(deliveries))
    BY <2>1, <2>3, NoteSkipped, Zenon DEF ClaimedNote, InDelivery
  <2>4. "too-old" \in Reasons /\ "daily-limit" \in Reasons
    BY DEF Reasons
  <2>5. CASE /\ n \in Fresh(t) /\ HeadOf(n, t) \in Y
             /\ notes'[n] = PutIn(notes[n], idOf(HeadOf(n, t)))
    <3>1. PICK k \in 1 .. Len(deliveries') :
            /\ k = idOf(HeadOf(n, t)) /\ k > Len(deliveries)
            /\ deliveries'[k].user = notes[n].user
      BY <1>7, <2>5
    <3>2. Open(notes[n]) /\ notes[n].skip = ""
      BY <2>5, FreshIs DEF Open
    <3>3. k \in Nat
      BY <1>4, LenProperties
    <3>p. notes'[n] = PutIn(notes[n], k)
      BY <2>5, <3>1
    <3>4. /\ notes'[n] \in Notes /\ SameNote(notes'[n], notes[n]) /\ notes'[n].delivery = k
          /\ notes'[n].skip = ""
      <4>1. /\ PutIn(notes[n], k) \in Notes /\ SameNote(PutIn(notes[n], k), notes[n])
            /\ InDelivery(PutIn(notes[n], k), k) /\ HasSkip(PutIn(notes[n], k), notes[n].skip)
        BY <2>1, <3>3, NotePut, Zenon
      <4> QED
        BY <3>2, <3>p, <4>1, Zenon DEF InDelivery, HasSkip
    <3>5. notes'[n].user = notes[n].user
      BY <3>4 DEF SameNote
    <3> QED
      BY <3>1, <3>2, <3>4, <3>5 DEF ClaimedNote, InNew
  <2>6. n \in Fresh(t) => Open(notes[n])
    BY FreshIs
  <2> QED
    BY <1>5, <1>8, <2>2, <2>3, <2>4, <2>5, <2>6, Zenon
<1>10. notes' \in [DOMAIN notes -> Notes]
  BY <1>5, <1>9 DEF ClaimedNote
<1> QED
  BY <1>1, <1>4, <1>9, <1>10, Zenon

-----------------------------------------------------------------------------
\* What a deletion does to the rows and notifications of the account: the rows
\* its first statement saw are cancelled, those its second saw are blanked.
ErasedRow(d, cancelled, blanked) ==
  [d EXCEPT !.status = IF cancelled THEN "cancelled" ELSE @,
            !.leaseUntil = IF cancelled THEN Never ELSE @,
            !.payload = IF blanked THEN <<>> ELSE @,
            !.providerId = IF blanked THEN FALSE ELSE @,
            !.lastError = IF blanked THEN FALSE ELSE @,
            !.user = Nobody]

Erased(e, d) ==
  /\ e.kind = d.kind /\ SameDates(e, d) /\ e.createdAt = d.createdAt /\ e.user = Nobody
  /\ e.status = d.status \/ (d.status = "pending" /\ e.status = "cancelled")
  /\ e.status = "pending" => e.leaseUntil = d.leaseUntil
  /\ e.payload = <<>> \/ e.payload = d.payload
Blank(e) == e.payload = <<>> /\ ~e.providerId

LEMMA RowErased ==
  ASSUME NEW d \in Rows, NEW c, NEW b, c => d.status = "pending"
  PROVE  /\ ErasedRow(d, c, b) \in Rows /\ Erased(ErasedRow(d, c, b), d)
         /\ b => Blank(ErasedRow(d, c, b))
<1>1. ASSUME NEW status \in Statuses, NEW lease \in Int, NEW p \in Payloads,
             NEW id \in BOOLEAN, NEW error \in BOOLEAN,
             status = d.status \/ (d.status = "pending" /\ status = "cancelled"),
             status = "pending" => lease = d.leaseUntil, p = <<>> \/ p = d.payload,
             b => p = <<>> /\ ~id
      PROVE  LET e == [d EXCEPT !.status = status, !.leaseUntil = lease, !.payload = p,
                                !.providerId = id, !.lastError = error, !.user = Nobody]
             IN  e \in Rows /\ Erased(e, d) /\ (b => Blank(e))
  BY <1>1 DEF Rows, Erased, Blank, SameDates, Owner
<1>2. PICK status, lease, p :
        /\ status = (IF c THEN "cancelled" ELSE d.status)
        /\ lease = (IF c THEN Never ELSE d.leaseUntil)
        /\ p = (IF b THEN <<>> ELSE d.payload)
  OBVIOUS
<1>3. PICK id, error : /\ id = (IF b THEN FALSE ELSE d.providerId)
                       /\ error = (IF b THEN FALSE ELSE d.lastError)
  OBVIOUS
<1>p. p \in Payloads /\ (p = <<>> \/ p = d.payload) /\ (b => p = <<>>)
  <2>1. d.payload \in Payloads
    BY DEF Rows
  <2>2. <<>> \in Payloads
    BY DEF Payloads
  <2> QED
    BY <1>2, <2>1, <2>2, Zenon
<1>s. d.status \in Statuses /\ d.leaseUntil \in Int /\ Never \in Int /\ "cancelled" \in Statuses
  BY DEF Rows, Statuses, Never
<1>4. /\ status \in Statuses /\ lease \in Int /\ p \in Payloads
      /\ status = d.status \/ (d.status = "pending" /\ status = "cancelled")
      /\ status = "pending" => lease = d.leaseUntil
      /\ p = <<>> \/ p = d.payload
      /\ b => p = <<>>
  BY <1>2, <1>p, <1>s
<1>5. d.providerId \in BOOLEAN /\ d.lastError \in BOOLEAN
  BY DEF Rows
<1>6. id \in BOOLEAN /\ error \in BOOLEAN /\ (b => ~id)
  BY <1>3, <1>5, Zenon
<1>7. ErasedRow(d, c, b) = [d EXCEPT !.status = status, !.leaseUntil = lease, !.payload = p,
                                     !.providerId = id, !.lastError = error, !.user = Nobody]
  BY <1>2, <1>3, Zenon DEF ErasedRow
<1>8. LET e == [d EXCEPT !.status = status, !.leaseUntil = lease, !.payload = p,
                         !.providerId = id, !.lastError = error, !.user = Nobody]
      IN  e \in Rows /\ Erased(e, d) /\ (b => Blank(e))
  BY <1>1, <1>4, <1>6, Zenon
<1> QED
  BY <1>7, <1>8, Zenon

LEMMA EraseEffects ==
  ASSUME TypeInv, NEW u \in Users, Erase(u)
  PROVE  /\ deliveries' \in Seq(Rows) /\ Len(deliveries') = Len(deliveries)
         /\ \A k \in 1 .. Len(deliveries) :
              IF deliveries[k].user # u THEN deliveries'[k] = deliveries[k]
              ELSE /\ Erased(deliveries'[k], deliveries[k])
                   /\ k \in missed' \/ Blank(deliveries'[k])
         /\ missed \subseteq missed'
         /\ notes' \in [DOMAIN notes' -> Notes] /\ DOMAIN notes' \subseteq DOMAIN notes
         /\ \A n \in DOMAIN notes' : notes'[n] = notes[n] /\ notes[n].user # u
<1>1. deliveries \in Seq(Rows) /\ notes \in [DOMAIN notes -> Notes]
  BY DEF TypeInv, TablesTyped
<1> DEFINE cancelled(k) == k <= erasing[u][1] /\ deliveries[k].status = "pending"
           blanked(k) == k <= erasing[u][2]
           row(k) == ErasedRow(deliveries[k], cancelled(k), blanked(k))
<1>2. deliveries' = [k \in DOMAIN deliveries |->
          IF deliveries[k].user # u THEN deliveries[k] ELSE row(k)]
  BY Zenon DEF Erase, ErasedRow
<1>3. DOMAIN deliveries = 1 .. Len(deliveries) /\ Len(deliveries) \in Nat
      /\ \A k \in 1 .. Len(deliveries) : deliveries[k] \in Rows
  BY <1>1, ElementOfSeq, LenProperties
<1>4. ASSUME NEW k \in 1 .. Len(deliveries)
      PROVE  /\ row(k) \in Rows /\ Erased(row(k), deliveries[k])
             /\ blanked(k) => Blank(row(k))
  <2>1. deliveries[k] \in Rows /\ (cancelled(k) => deliveries[k].status = "pending")
    BY <1>3
  <2> QED
    BY <2>1, RowErased, Zenon
<1>8. /\ missed \subseteq missed'
      /\ \A k \in 1 .. Len(deliveries) : deliveries[k].user = u /\ ~blanked(k) => k \in missed'
  BY <1>3 DEF Erase
<1> HIDE DEF row, blanked, cancelled
<1>5. deliveries' \in Seq(Rows) /\ Len(deliveries') = Len(deliveries)
  BY <1>2, <1>3, <1>4
<1>6. \A k \in 1 .. Len(deliveries) :
        IF deliveries[k].user # u THEN deliveries'[k] = deliveries[k]
        ELSE Erased(deliveries'[k], deliveries[k]) /\ (k \in missed' \/ Blank(deliveries'[k]))
  BY <1>2, <1>3, <1>4, <1>8
<1>7. notes' = [n \in {m \in DOMAIN notes : notes[m].user # u} |-> notes[n]]
  BY DEF Erase
<1> QED
  BY <1>1, <1>5, <1>6, <1>7, <1>8

-----------------------------------------------------------------------------
(***************************************************************************)
(* The types, for every step of a run.                                     *)
(***************************************************************************)
LEMMA NoWorkTyped == NoWork \in Works
BY DEF Owner, NoWork, Works, Kinds, Payloads, Outcomes, Reasons

\* A step that keeps what the other instances hold, and gives i a stage, a list and a work
\* that fit together.
LEMMA RunChange ==
  ASSUME TypeInv, NEW i \in Instances, NEW stage \in Stages, NEW list \in SUBSET Nat,
         NEW w \in Works,
         pc' = [pc EXCEPT ![i] = stage], todo' = [todo EXCEPT ![i] = list],
         work' = [work EXCEPT ![i] = w], started' \in [Instances -> Nat],
         Len(deliveries') \in Nat, Len(deliveries') >= Len(deliveries),
         list \subseteq 1 .. Len(deliveries),
         stage \in AtDelivery => list # {},
         stage \in {"store", "send"} => w.payload # <<>>,
         stage = "finish" => w.outcome \in Settled
  PROVE  RunTyped' /\ RunHolds'
<1>1. /\ pc \in [Instances -> Stages] /\ todo \in [Instances -> SUBSET Nat]
      /\ work \in [Instances -> Works] /\ Len(deliveries) \in Nat
  BY LenProperties DEF TypeInv, TablesTyped, RunTyped
<1>2. RunTyped'
  BY <1>1 DEF RunTyped
<1>3. 1 .. Len(deliveries) \subseteq 1 .. Len(deliveries')
  BY <1>1
<1>4. ASSUME NEW j \in Instances
      PROVE  /\ todo'[j] \subseteq 1 .. Len(deliveries')
             /\ pc'[j] \in AtDelivery => todo'[j] # {}
             /\ pc'[j] \in {"store", "send"} => work'[j].payload # <<>>
             /\ pc'[j] = "finish" => work'[j].outcome \in Settled
  <2>1. CASE j = i
    <3>1. pc'[j] = stage /\ todo'[j] = list /\ work'[j] = w
      BY <1>1, <2>1
    <3> QED
      BY <3>1, <1>3
  <2>2. CASE j # i
    <3>1. pc'[j] = pc[j] /\ todo'[j] = todo[j] /\ work'[j] = work[j]
      BY <1>1, <2>2
    <3> QED
      BY <3>1, <1>3 DEF TypeInv, RunHolds
  <2> QED
    BY <2>1, <2>2
<1> QED
  BY <1>2, <1>4 DEF RunHolds

LEMMA LeaveTyped ==
  ASSUME TypeInv, NEW i \in Instances, pc[i] \in AtDelivery, Leave(i),
         started' = started, Len(deliveries') \in Nat, Len(deliveries') >= Len(deliveries)
  PROVE  RunTyped' /\ RunHolds'
<1> DEFINE list == todo[i] \ {Current(i)}
           stage == IF todo[i] = {Current(i)} THEN "idle" ELSE "lease"
<1>1. Current(i) \in todo[i]
  BY CurrentFacts
<1>2. /\ todo[i] \in SUBSET Nat /\ todo[i] \subseteq 1 .. Len(deliveries)
      /\ NoWork \in Works /\ started' \in [Instances -> Nat]
  BY NoWorkTyped DEF TypeInv, RunTyped, RunHolds
<1>3. list \in SUBSET Nat /\ list \subseteq 1 .. Len(deliveries) /\ (stage = "lease" => list # {})
  BY <1>1, <1>2
<1>4. stage \in {"idle", "lease"} /\ stage \in Stages
  BY DEF Stages, AtDelivery
<1>5. /\ pc' = [pc EXCEPT ![i] = stage] /\ todo' = [todo EXCEPT ![i] = list]
      /\ work' = [work EXCEPT ![i] = NoWork]
  BY DEF Leave
<1>6. stage \in AtDelivery => list # {}
  BY <1>3, <1>4 DEF AtDelivery, Sending
<1> HIDE DEF list, stage
<1> QED
  BY <1>2, <1>3, <1>4, <1>5, <1>6, RunChange

LEMMA StopTyped ==
  ASSUME TypeInv, NEW i \in Instances, Stop(i), started' = started,
         deliveries' = deliveries
  PROVE  RunTyped' /\ RunHolds'
<1>1. NoWork \in Works /\ started' \in [Instances -> Nat] /\ Len(deliveries) \in Nat
  BY NoWorkTyped, LenProperties DEF TypeInv, RunTyped, TablesTyped
<1>2. PICK stage \in Stages, list \in SUBSET Nat :
        /\ stage = "idle" /\ stage \notin AtDelivery /\ list = {} /\ list \subseteq 1 .. Len(deliveries)
        /\ stage \notin {"store", "send"} /\ stage # "finish"
  BY DEF Stages, AtDelivery, Sending
<1>3. Len(deliveries') \in Nat /\ Len(deliveries') >= Len(deliveries)
  BY <1>1
<1>4. /\ pc' = [pc EXCEPT ![i] = stage] /\ todo' = [todo EXCEPT ![i] = list]
      /\ work' = [work EXCEPT ![i] = NoWork]
  BY <1>2 DEF Stop
<1> QED
  BY <1>1, <1>2, <1>3, <1>4, RunChange

\* A stage of the same delivery.
LEMMA StayTyped ==
  ASSUME TypeInv, NEW i \in Instances, pc[i] \in AtDelivery, NEW stage \in AtDelivery,
         NEW w \in Works, Stay(i, stage), work' = [work EXCEPT ![i] = w],
         started' = started, Len(deliveries') \in Nat, Len(deliveries') >= Len(deliveries),
         stage \in {"store", "send"} => w.payload # <<>>,
         stage = "finish" => w.outcome \in Settled
  PROVE  RunTyped' /\ RunHolds'
<1>1. /\ todo[i] \in SUBSET Nat /\ todo[i] \subseteq 1 .. Len(deliveries) /\ todo[i] # {}
      /\ started' \in [Instances -> Nat] /\ todo \in [Instances -> SUBSET Nat]
  BY DEF TypeInv, RunTyped, RunHolds
<1>2. todo' = [todo EXCEPT ![i] = todo[i]] /\ pc' = [pc EXCEPT ![i] = stage]
  BY <1>1 DEF Stay
<1>3. stage \in Stages
  BY DEF Stages
<1> QED
  BY <1>1, <1>2, <1>3, RunChange

LEMMA GiveTyped ==
  ASSUME TypeInv, NEW i \in Instances, pc[i] \in AtDelivery,
         NEW outcome \in Settled, NEW reason \in Reasons, NEW error \in BOOLEAN,
         Give(i, outcome, reason, error),
         started' = started, Len(deliveries') \in Nat, Len(deliveries') >= Len(deliveries)
  PROVE  RunTyped' /\ RunHolds'
<1> DEFINE w == [NoWork EXCEPT !.outcome = outcome, !.reason = reason, !.error = error]
<1>1. w \in Works /\ w.outcome = outcome
  <2>1. NoWork \in Works /\ outcome \in Outcomes
    BY NoWorkTyped DEF TypeInv, Outcomes
  <2> HIDE DEF w
  <2> QED
    BY <2>1 DEF Works, w
<1>2. work' = [work EXCEPT ![i] = w] /\ Stay(i, "finish")
  BY DEF Give
<1>3. "finish" \in AtDelivery
  BY DEF AtDelivery
<1>4. "finish" \notin {"store", "send"} /\ w.outcome \in Settled
  BY <1>1
<1> HIDE DEF w
<1> QED
  BY <1>1, <1>2, <1>3, <1>4, StayTyped, Zenon

\* What sending and finishing make of the notifications.
LEMMA MarkEffects ==
  ASSUME TypeInv, NEW i \in Instances, MarkSent(i) \/ Finish(i)
  PROVE  /\ notes' \in [DOMAIN notes -> Notes] /\ DOMAIN notes' = DOMAIN notes
         /\ \A n \in DOMAIN notes :
              /\ InDelivery(notes'[n], notes[n].delivery)
              /\ Finish(i) => SameNote(notes'[n], notes[n])
<1>1. notes \in [DOMAIN notes -> Notes] /\ work[i].reason \in Reasons
  BY DEF TypeInv, TablesTyped, RunTyped, Works
<1>2. CASE MarkSent(i)
  <2>1. notes' = [n \in DOMAIN notes |->
                   IF n \in Claimed(Current(i)) THEN [notes[n] EXCEPT !.emailed = TRUE] ELSE notes[n]]
    BY <1>2 DEF MarkSent
  <2>2. ASSUME NEW n \in Notes, NEW b \in BOOLEAN
        PROVE  LET e == [n EXCEPT !.emailed = b] IN e \in Notes /\ InDelivery(e, n.delivery)
    BY DEF Notes, InDelivery
  <2>3. ASSUME NEW n \in DOMAIN notes
        PROVE  notes'[n] \in Notes /\ InDelivery(notes'[n], notes[n].delivery)
    <3>1. notes[n] \in Notes
      BY <1>1
    <3>2. CASE notes'[n] = notes[n]
      BY <3>1, <3>2, Zenon DEF InDelivery
    <3>3. CASE notes'[n] = [notes[n] EXCEPT !.emailed = TRUE]
      <4>1. PICK b \in BOOLEAN : b = TRUE
        BY Zenon
      <4>2. notes'[n] = [notes[n] EXCEPT !.emailed = b]
        BY <3>3, <4>1, Zenon
      <4>3. LET e == [notes[n] EXCEPT !.emailed = b] IN e \in Notes /\ InDelivery(e, notes[n].delivery)
        BY <2>2, <3>1
      <4> QED
        BY <4>2, <4>3, Zenon
    <3> QED
      BY <2>1, <3>2, <3>3, Zenon
  <2>4. ~ Finish(i)
    BY <1>2 DEF MarkSent, Finish
  <2> QED
    BY <2>1, <2>3, <2>4
<1>3. CASE Finish(i)
  <2>1. notes' = [n \in DOMAIN notes |->
                   IF n \in Claimed(Current(i)) /\ ~notes[n].emailed
                   THEN Skipped(notes[n], work[i].reason) ELSE notes[n]]
    BY <1>3, Zenon DEF Finish, Skipped
  <2>2. ASSUME NEW n \in DOMAIN notes
        PROVE  /\ notes'[n] \in Notes /\ InDelivery(notes'[n], notes[n].delivery)
               /\ SameNote(notes'[n], notes[n])
    <3>1. notes[n] \in Notes
      BY <1>1
    <3>2. CASE notes'[n] = notes[n]
      BY <3>1, <3>2, Zenon DEF InDelivery, SameNote
    <3>3. CASE notes'[n] = Skipped(notes[n], work[i].reason)
      BY <1>1, <3>1, <3>3, NoteSkipped, Zenon
    <3> QED
      BY <2>1, <3>2, <3>3, Zenon
  <2> QED
    BY <2>1, <2>2
<1> QED
  BY <1>2, <1>3

LEMMA MarkDetails ==
  ASSUME TypeInv, NEW i \in Instances, MarkSent(i) \/ Finish(i), NEW n \in DOMAIN notes
  PROVE  /\ notes'[n].user = notes[n].user
         /\ MarkSent(i) => /\ notes'[n].skip = notes[n].skip
                           /\ n \in Claimed(Current(i)) => notes'[n].emailed
                           /\ n \notin Claimed(Current(i)) => notes'[n] = notes[n]
         /\ Finish(i) => IF n \in Claimed(Current(i)) /\ ~notes[n].emailed
                         THEN notes'[n].skip = work[i].reason ELSE notes'[n] = notes[n]
<1>1. notes[n] \in Notes /\ work[i].reason \in Reasons
  BY DEF TypeInv, TablesTyped, RunTyped, Works
<1>2. CASE MarkSent(i)
  <2>1. notes' = [m \in DOMAIN notes |->
                   IF m \in Claimed(Current(i)) THEN [notes[m] EXCEPT !.emailed = TRUE] ELSE notes[m]]
    BY <1>2 DEF MarkSent
  <2>2. ASSUME NEW m \in Notes, NEW b \in BOOLEAN
        PROVE  LET e == [m EXCEPT !.emailed = b]
               IN  e.user = m.user /\ e.skip = m.skip /\ e.emailed = b
    BY DEF Notes
  <2>3. PICK b \in BOOLEAN : b = TRUE
    BY Zenon
  <2>4. CASE n \in Claimed(Current(i))
    <3>1. notes'[n] = [notes[n] EXCEPT !.emailed = b]
      BY <2>1, <2>3, <2>4, Zenon
    <3>2. LET e == [notes[n] EXCEPT !.emailed = b]
          IN  e.user = notes[n].user /\ e.skip = notes[n].skip /\ e.emailed = b
      BY <1>1, <2>2
    <3>3. /\ notes'[n].user = notes[n].user /\ notes'[n].skip = notes[n].skip
          /\ notes'[n].emailed = b
      BY <3>1, <3>2, Zenon
    <3>4. notes'[n].emailed
      BY <2>3, <3>3, Zenon
    <3>5. ~ Finish(i)
      BY <1>2 DEF MarkSent, Finish
    <3> QED
      BY <2>4, <3>3, <3>4, <3>5
  <2>5. CASE n \notin Claimed(Current(i))
    <3>1. notes'[n] = notes[n]
      BY <2>1, <2>5
    <3>2. ~ Finish(i)
      BY <1>2 DEF MarkSent, Finish
    <3> QED
      BY <2>5, <3>1, <3>2
  <2> QED
    BY <2>4, <2>5
<1>3. CASE Finish(i)
  <2>1. notes' = [m \in DOMAIN notes |->
                   IF m \in Claimed(Current(i)) /\ ~notes[m].emailed
                   THEN Skipped(notes[m], work[i].reason) ELSE notes[m]]
    BY <1>3, Zenon DEF Finish, Skipped
  <2>2. Skipped(notes[n], work[i].reason).skip = work[i].reason
        /\ Skipped(notes[n], work[i].reason).user = notes[n].user
    BY <1>1 DEF Skipped, Notes
  <2>3. ~ MarkSent(i)
    BY <1>3 DEF MarkSent, Finish
  <2>4. IF n \in Claimed(Current(i)) /\ ~notes[n].emailed
        THEN notes'[n] = Skipped(notes[n], work[i].reason) ELSE notes'[n] = notes[n]
    BY <2>1, Zenon
  <2> QED
    BY <1>3, <2>2, <2>3, <2>4, Zenon
<1> QED
  BY <1>2, <1>3

\* The tables stay typed when a row is written.
LEMMA WritesTyped ==
  ASSUME TypeInv, NEW i \in Instances, Writes(i)
  PROVE  TablesTyped'
<1>1. deliveries' \in Seq(Rows)
  BY WriteEffects
<1>2. now' = now /\ made' = made /\ mails' = mails
  BY DEF Writes, TakeLease, Store, MarkSent, MarkRefused, Finish
<1>3. notes' \in [DOMAIN notes -> Notes] /\ DOMAIN notes' = DOMAIN notes
  <2>1. CASE MarkSent(i) \/ Finish(i)
    BY <2>1, MarkEffects
  <2>2. CASE notes' = notes
    BY <2>2 DEF TypeInv, TablesTyped
  <2> QED
    BY <2>1, <2>2 DEF Writes, TakeLease, Store, MarkRefused
<1> QED
  BY <1>1, <1>2, <1>3 DEF TypeInv, TablesTyped

\* The tables and the runs stay typed when the rows do not change.
LEMMA SameRows ==
  ASSUME TypeInv, deliveries' = deliveries, RunTyped' /\ RunHolds',
         UNCHANGED <<now, made, notes, mails>>
  PROVE  TypeInv'
BY DEF TypeInv, TablesTyped

LEMMA WorkSteps ==
  ASSUME TypeInv, NEW i \in Instances, RunStep(i)
  PROVE  TypeInv'
<1>0. /\ TablesTyped /\ RunTyped /\ Len(deliveries) \in Nat
      /\ now \in Nat /\ pc[i] \in Stages /\ work[i] \in Works /\ todo[i] \in SUBSET Nat
      /\ pc \in [Instances -> Stages] /\ todo \in [Instances -> SUBSET Nat]
      /\ work \in [Instances -> Works] /\ started \in [Instances -> Nat]
  BY LenProperties DEF TypeInv, TablesTyped, RunTyped
<1>l. ASSUME NEW stage \in {"claim", "list", "idle"}
      PROVE  /\ stage \in Stages /\ stage \notin AtDelivery /\ stage \notin {"store", "send"}
             /\ stage # "finish"
  BY DEF Stages, AtDelivery, Sending
<1>1. CASE Start(i)
  <2>1. PICK stage \in Stages : stage = "claim" /\ stage \notin AtDelivery
                               /\ stage \notin {"store", "send"} /\ stage # "finish"
    BY <1>l
  <2>2. /\ pc' = [pc EXCEPT ![i] = stage] /\ todo' = [todo EXCEPT ![i] = todo[i]]
        /\ work' = [work EXCEPT ![i] = work[i]] /\ started' \in [Instances -> Nat]
        /\ deliveries' = deliveries /\ UNCHANGED <<now, made, notes, mails>>
    BY <1>0, <1>1, <2>1 DEF Start
  <2>3. todo[i] \subseteq 1 .. Len(deliveries)
        /\ Len(deliveries') \in Nat /\ Len(deliveries') >= Len(deliveries)
    BY <1>0, <2>2 DEF TypeInv, RunHolds
  <2>4. RunTyped' /\ RunHolds'
    BY <1>0, <2>1, <2>2, <2>3, RunChange
  <2> QED
    BY <2>2, <2>4, SameRows
<1>2. CASE Claim(i)
  <2>1. deliveries' \in Seq(Rows) /\ Extends(deliveries', deliveries, started[i])
    BY <1>2, ClaimEffects
  <2>2. notes' \in [DOMAIN notes -> Notes] /\ DOMAIN notes' = DOMAIN notes
    BY <1>2, ClaimEffects
  <2>3. Len(deliveries') \in Nat /\ Len(deliveries') >= Len(deliveries)
    BY <2>1, LenProperties DEF Extends
  <2>4. PICK stage \in Stages : stage = "list" /\ stage \notin AtDelivery
                               /\ stage \notin {"store", "send"} /\ stage # "finish"
    BY <1>l
  <2>5. /\ pc' = [pc EXCEPT ![i] = stage] /\ todo' = [todo EXCEPT ![i] = todo[i]]
        /\ work' = [work EXCEPT ![i] = work[i]] /\ started' \in [Instances -> Nat]
        /\ UNCHANGED <<now, made, mails>>
    BY <1>0, <1>2, <2>4 DEF Claim
  <2>6. todo[i] \subseteq 1 .. Len(deliveries)
    BY DEF TypeInv, RunHolds
  <2>7. RunTyped' /\ RunHolds'
    BY <1>0, <2>3, <2>4, <2>5, <2>6, RunChange
  <2>8. TablesTyped'
    BY <1>0, <2>1, <2>2, <2>5 DEF TablesTyped
  <2> QED
    BY <2>7, <2>8 DEF TypeInv
<1>3. CASE List(i)
  <2>1. Pending \subseteq 1 .. Len(deliveries) /\ Pending \in SUBSET Nat
    BY <1>0 DEF Pending, TablesTyped
  <2> DEFINE stage == IF Pending = {} THEN "idle" ELSE "lease"
  <2>2. /\ stage \in Stages /\ (stage \in AtDelivery => Pending # {})
        /\ stage \notin {"store", "send"} /\ stage # "finish"
    BY DEF Stages, AtDelivery, Sending
  <2>3. /\ deliveries' = deliveries
        /\ UNCHANGED <<now, made, notes, mails, work, started>>
        /\ todo' = [todo EXCEPT ![i] = Pending] /\ pc' = [pc EXCEPT ![i] = stage]
    BY <1>3 DEF List
  <2> HIDE DEF stage
  <2>4. work' = [work EXCEPT ![i] = work[i]] /\ started' \in [Instances -> Nat]
    BY <1>0, <2>3
  <2>5. Len(deliveries') \in Nat /\ Len(deliveries') >= Len(deliveries)
    BY <1>0, <2>3
  <2>6. RunTyped' /\ RunHolds'
    BY <1>0, <2>1, <2>2, <2>3, <2>4, <2>5, RunChange
  <2> QED
    BY <2>3, <2>6, SameRows
<1>w. ASSUME Writes(i), RunTyped' /\ RunHolds'
      PROVE  TypeInv'
  BY <1>w, <1>0, WritesTyped DEF TypeInv
<1>n. ASSUME Writes(i)
      PROVE  Len(deliveries') \in Nat /\ Len(deliveries') >= Len(deliveries) /\ pc[i] \in AtDelivery
  BY <1>0, <1>n, WriteEffects
<1>4. CASE TakeLease(i)
  <2>1. /\ "read" \in AtDelivery /\ Stay(i, "read") /\ work' = [work EXCEPT ![i] = work[i]]
        /\ started' = started /\ "read" \notin {"store", "send"}
    BY <1>0, <1>4 DEF TakeLease, AtDelivery, Sending
  <2>2. Writes(i)
    BY <1>4 DEF Writes
  <2>3. RunTyped' /\ RunHolds'
    BY <1>0, <1>n, <2>1, <2>2, StayTyped
  <2> QED
    BY <1>w, <2>2, <2>3
<1>5. CASE Busy(i)
  <2>1. pc[i] \in AtDelivery /\ Leave(i) /\ started' = started /\ deliveries' = deliveries
        /\ UNCHANGED <<now, made, notes, mails>>
    BY <1>5 DEF Busy, AtDelivery
  <2>2. RunTyped' /\ RunHolds'
    BY <1>0, <2>1, LeaveTyped
  <2> QED
    BY <2>1, <2>2, SameRows
<1>6. CASE Read(i)
  <2>0. /\ pc[i] \in AtDelivery /\ started' = started /\ deliveries' = deliveries
        /\ UNCHANGED <<now, made, notes, mails>> /\ Len(deliveries') \in Nat
        /\ Len(deliveries') >= Len(deliveries)
    BY <1>0, <1>6 DEF Read, AtDelivery, Sending
  <2>1. ASSUME NEW outcome \in Settled, NEW reason \in Reasons, NEW error \in BOOLEAN,
               Give(i, outcome, reason, error)
        PROVE  RunTyped' /\ RunHolds'
    BY <2>0, <2>1, GiveTyped
  <2>2. PICK t \in BOOLEAN, f \in BOOLEAN : t = TRUE /\ f = FALSE
    BY Zenon
  <2>3. ASSUME Give(i, "cancelled", "disabled", FALSE)
        PROVE  RunTyped' /\ RunHolds'
    <3>1. Give(i, "cancelled", "disabled", f) /\ "cancelled" \in Settled /\ "disabled" \in Reasons
      BY <2>2, <2>3, Zenon DEF Settled, Reasons
    <3> QED
      BY <2>1, <3>1
  <2>4. ASSUME Give(i, "failed", "send-failed", TRUE)
        PROVE  RunTyped' /\ RunHolds'
    <3>1. Give(i, "failed", "send-failed", t) /\ "failed" \in Settled /\ "send-failed" \in Reasons
      BY <2>2, <2>4, Zenon DEF Settled, Reasons
    <3> QED
      BY <2>1, <3>1
  <2> DEFINE w == [NoWork EXCEPT !.kind = Row(i).kind, !.attempts = Row(i).attempts,
                                 !.payload = Row(i).payload, !.to = Row(i).user]
  <2>5. ASSUME work' = [work EXCEPT ![i] = w],
               Stay(i, IF Row(i).payload = <<>> THEN "prepare" ELSE "send")
        PROVE  RunTyped' /\ RunHolds'
    <3>1. Row(i) \in Rows /\ NoWork \in Works
      BY <1>0, <2>0, CurrentFacts, NoWorkTyped
    <3>2. w \in Works /\ w.payload = Row(i).payload
      BY <3>1 DEF Works, Rows
    <3>3. PICK stage : /\ stage = IF Row(i).payload = <<>> THEN "prepare" ELSE "send"
                       /\ stage \in AtDelivery /\ stage # "finish"
                       /\ stage \in {"store", "send"} => Row(i).payload # <<>>
      BY DEF AtDelivery, Sending
    <3>4. Stay(i, stage)
      BY <2>5, <3>3
    <3> HIDE DEF w
    <3> QED
      BY <2>0, <2>5, <3>2, <3>3, <3>4, StayTyped
  <2>6. RunTyped' /\ RunHolds'
    BY <1>6, <2>3, <2>4, <2>5, Zenon DEF Read
  <2> QED
    BY <2>0, <2>6, SameRows
<1>7. CASE Prepare(i)
  <2>0. /\ pc[i] \in AtDelivery /\ started' = started /\ deliveries' = deliveries
        /\ UNCHANGED <<now, made, notes, mails>> /\ Len(deliveries') \in Nat
        /\ Len(deliveries') >= Len(deliveries)
    BY <1>0, <1>7 DEF Prepare, AtDelivery, Sending
  <2>1. ASSUME Give(i, "cancelled", "disabled", FALSE)
        PROVE  RunTyped' /\ RunHolds'
    <3>1. PICK f \in BOOLEAN : f = FALSE
      BY Zenon
    <3>2. Give(i, "cancelled", "disabled", f) /\ "cancelled" \in Settled /\ "disabled" \in Reasons
      BY <2>1, <3>1, Zenon DEF Settled, Reasons
    <3> QED
      BY <2>0, <3>2, GiveTyped
  <2>2. ASSUME work' = [work EXCEPT ![i].payload = <<Claimed(Current(i))>>], Stay(i, "store")
        PROVE  RunTyped' /\ RunHolds'
    <3> DEFINE w == [work[i] EXCEPT !.payload = <<Claimed(Current(i))>>]
    <3>1. Claimed(Current(i)) \in SUBSET Nat
      BY <1>0 DEF Claimed, TablesTyped
    <3>2. PICK p \in Payloads : p = <<Claimed(Current(i))>> /\ p # <<>>
      BY <3>1 DEF Payloads
    <3>3. w \in Works /\ w.payload = p
      BY <1>0, <3>2 DEF Works
    <3>4. work' = [work EXCEPT ![i] = w]
      BY <2>2
    <3>5. "store" \in AtDelivery /\ "store" # "finish"
      BY DEF AtDelivery, Sending
    <3> HIDE DEF w
    <3> QED
      BY <2>0, <2>2, <3>2, <3>3, <3>4, <3>5, StayTyped
  <2>3. RunTyped' /\ RunHolds'
    BY <1>7, <2>1, <2>2, Zenon DEF Prepare
  <2> QED
    BY <2>0, <2>3, SameRows
<1>8. CASE Store(i)
  <2>1. /\ "send" \in AtDelivery /\ Stay(i, "send") /\ work' = [work EXCEPT ![i] = work[i]]
        /\ started' = started /\ "send" # "finish" /\ work[i].payload # <<>>
    BY <1>0, <1>8 DEF Store, AtDelivery, Sending, TypeInv, RunHolds
  <2>2. Writes(i)
    BY <1>8 DEF Writes
  <2>3. RunTyped' /\ RunHolds'
    BY <1>0, <1>n, <2>1, <2>2, StayTyped
  <2> QED
    BY <1>w, <2>2, <2>3
<1>9. CASE Send(i)
  <2>0. /\ pc[i] \in AtDelivery /\ started' = started /\ deliveries' = deliveries
        /\ UNCHANGED <<now, made, notes>> /\ Len(deliveries') \in Nat
        /\ Len(deliveries') >= Len(deliveries)
    BY <1>0, <1>9 DEF Send, AtDelivery, Sending
  <2>1. PICK outcome \in {"sent", "transient", "permanent"} : Answer(i, outcome)
    BY <1>9 DEF Send
  <2>2. mails' = mails \/ Accept(i)
    BY <1>9 DEF Send
  <2> DEFINE w == [work[i] EXCEPT !.outcome = outcome]
  <2>3. w \in Works
    BY <1>0, <2>1 DEF Works, Outcomes
  <2>4. work' = [work EXCEPT ![i] = w] /\ Stay(i, "mark")
    BY <2>1 DEF Answer
  <2>5. "mark" \in AtDelivery /\ "mark" \notin {"store", "send"} /\ "mark" # "finish"
    BY DEF AtDelivery, Sending
  <2>6. RunTyped' /\ RunHolds'
    <3> HIDE DEF w
    <3> QED
      BY <2>0, <2>3, <2>4, <2>5, StayTyped
  <2>7. \A m \in mails' : m.key \in Nat /\ m.at \in Nat /\ m.notes \in SUBSET Nat
    <3>1. \A m \in mails : m.key \in Nat /\ m.at \in Nat /\ m.notes \in SUBSET Nat
      BY <1>0 DEF TablesTyped
    <3>2. CASE mails' = mails
      BY <3>1, <3>2
    <3>3. CASE Accept(i)
      <4>1. Current(i) \in Nat
        BY <1>0, <2>0, CurrentFacts
      <4>2. work[i].payload \in Payloads /\ work[i].payload # <<>>
        BY <1>0, <1>9 DEF Works, Send, TypeInv, RunHolds
      <4>3. work[i].payload[1] \in SUBSET Nat
        <5>1. PICK S \in SUBSET Nat : work[i].payload = <<S>>
          BY <4>2 DEF Payloads
        <5> QED
          BY <5>1
      <4> QED
        BY <1>0, <3>1, <3>3, <4>1, <4>3 DEF Accept
    <3> QED
      BY <2>2, <3>2, <3>3
  <2>8. now' = now
    BY <1>9 DEF Send
  <2> QED
    BY <1>0, <2>0, <2>6, <2>7, <2>8 DEF TypeInv, TablesTyped
<1>10. CASE MarkSent(i) \/ Finish(i)
  <2>1. Writes(i) /\ Leave(i) /\ started' = started
    BY <1>10 DEF Writes, MarkSent, Finish
  <2>2. RunTyped' /\ RunHolds'
    BY <1>n, <2>1, LeaveTyped
  <2> QED
    BY <1>w, <2>1, <2>2
<1>11. CASE MarkRefused(i)
  <2>1. Writes(i) /\ started' = started
    BY <1>11 DEF Writes, MarkRefused
  <2>2. CASE Leave(i)
    BY <1>n, <2>1, <2>2, LeaveTyped, <1>w
  <2>3. CASE Give(i, "failed", "send-failed", FALSE)
    <3>1. PICK f \in BOOLEAN : f = FALSE
      BY Zenon
    <3>2. Give(i, "failed", "send-failed", f) /\ "failed" \in Settled /\ "send-failed" \in Reasons
      BY <2>3, <3>1, Zenon DEF Settled, Reasons
    <3>3. RunTyped' /\ RunHolds'
      BY <1>n, <2>1, <3>2, GiveTyped
    <3> QED
      BY <1>w, <2>1, <3>3
  <2> QED
    BY <1>11, <2>2, <2>3 DEF MarkRefused
<1> QED
  BY <1>1, <1>2, <1>3, <1>4, <1>5, <1>6, <1>7, <1>8, <1>9, <1>10, <1>11 DEF RunStep

\* Nobody's run moves, and no row comes or goes.
LEMMA RunSame ==
  ASSUME TypeInv, UNCHANGED runVars, Len(deliveries') = Len(deliveries)
  PROVE  RunTyped' /\ RunHolds'
BY DEF TypeInv, RunTyped, RunHolds, runVars

LEMMA NotifyTyped ==
  ASSUME TypeInv, NEW u \in Users, Notify(u)
  PROVE  TypeInv'
<1> DEFINE new == [user |-> u, at |-> now, delivery |-> 0, emailed |-> FALSE, skip |-> ""]
           added == [user |-> u, at |-> now]
<1>1. /\ now \in Nat /\ made \in Seq([user : Users, at : Nat]) /\ Len(made) \in Nat
      /\ notes \in [DOMAIN notes -> Notes] /\ DOMAIN notes \subseteq 1 .. Len(made)
  BY LenProperties DEF TypeInv, TablesTyped
<1>2. new \in Notes
  <2>1. PICK f \in BOOLEAN : f = FALSE
    BY Zenon
  <2>2. [user |-> u, at |-> now, delivery |-> 0, emailed |-> f, skip |-> ""] \in Notes
    BY <1>1 DEF Notes, Reasons
  <2> QED
    BY <2>1, <2>2, Zenon
<1>3. /\ made' = Append(made, added)
      /\ notes' = [n \in DOMAIN notes \cup {Len(made) + 1} |->
                     IF n \in DOMAIN notes THEN notes[n] ELSE new]
      /\ UNCHANGED <<now, deliveries, mails>> /\ UNCHANGED runVars
  BY DEF Notify
<1>4. added \in [user : Users, at : Nat]
  BY <1>1
<1> HIDE DEF new, added
<1>5. made' \in Seq([user : Users, at : Nat]) /\ Len(made') = Len(made) + 1
  BY <1>1, <1>3, <1>4, AppendProperties
<1>6. DOMAIN notes' = DOMAIN notes \cup {Len(made) + 1} /\ notes' \in [DOMAIN notes' -> Notes]
  BY <1>1, <1>2, <1>3
<1>7. DOMAIN notes' \subseteq 1 .. Len(made')
  BY <1>1, <1>5, <1>6
<1>8. RunTyped' /\ RunHolds'
  BY <1>3, RunSame
<1>9. TablesTyped'
  BY <1>3, <1>5, <1>6, <1>7 DEF TypeInv, TablesTyped
<1> QED
  BY <1>8, <1>9 DEF TypeInv

LEMMA EraseTyped ==
  ASSUME TypeInv, NEW u \in Users, Erase(u)
  PROVE  TypeInv'
<1>1. UNCHANGED <<now, made, mails>> /\ UNCHANGED runVars
  BY DEF Erase
<1>2. /\ deliveries' \in Seq(Rows) /\ Len(deliveries') = Len(deliveries)
      /\ notes' \in [DOMAIN notes' -> Notes] /\ DOMAIN notes' \subseteq DOMAIN notes
  BY EraseEffects
<1>3. RunTyped' /\ RunHolds'
  BY <1>1, <1>2, RunSame
<1>4. TablesTyped'
  BY <1>1, <1>2 DEF TypeInv, TablesTyped
<1> QED
  BY <1>3, <1>4 DEF TypeInv

\* Steps of the accounts that move neither the runs nor the tables.
AccountMove(u) ==
  \/ OptIn(u) \/ OptOut(u) \/ Confirm(u) \/ EraseCancel(u) \/ EraseBlank(u) \/ EraseAborts(u)
  \/ \E d \in BOOLEAN : SetDisabled(u, d)
AccountOnly == UNCHANGED <<now, longest, made, notes, deliveries, mails, runVars>>

LEMMA AccountOnlySteps ==
  ASSUME NEW u \in Users, AccountMove(u)
  PROVE  AccountOnly
BY DEF AccountMove, AccountOnly, OptIn, OptOut, Confirm, SetDisabled, EraseCancel, EraseBlank,
       EraseAborts, Change, runVars

LEMMA TypeStep ==
  ASSUME TypeInv, [Next]_vars
  PROVE  TypeInv'
<1>1. CASE UNCHANGED vars
  <2>1. UNCHANGED <<now, made, notes, deliveries, mails>> /\ UNCHANGED runVars
    BY <1>1 DEF vars
  <2> QED
    BY <2>1, RunSame, SameRows
<1>2. CASE Tick
  <2>1. UNCHANGED <<made, notes, deliveries, mails>> /\ UNCHANGED runVars /\ now' = now + 1
    BY <1>2 DEF Tick
  <2>2. RunTyped' /\ RunHolds'
    BY <2>1, RunSame
  <2>3. TablesTyped'
    BY <2>1 DEF TypeInv, TablesTyped
  <2> QED
    BY <2>2, <2>3 DEF TypeInv
<1>3. ASSUME NEW u \in Users,
             Notify(u) \/ Erase(u) \/ AccountMove(u)
      PROVE  TypeInv'
  <2>1. CASE Notify(u)
    BY <2>1, NotifyTyped
  <2>2. CASE Erase(u)
    BY <2>2, EraseTyped
  <2>3. CASE AccountMove(u)
    <3>1. AccountOnly
      BY <2>3, AccountOnlySteps
    <3>2. UNCHANGED <<now, made, notes, deliveries, mails>> /\ UNCHANGED runVars
      BY <3>1 DEF AccountOnly
    <3> QED
      BY <3>2, RunSame, SameRows
  <2> QED
    BY <1>3, <2>1, <2>2, <2>3
<1>4. ASSUME NEW i \in Instances, DatabaseError(i) \/ Crash(i)
      PROVE  TypeInv'
  <2>1. UNCHANGED <<now, made, notes, deliveries, mails, started>>
    BY <1>4 DEF DatabaseError, Crash
  <2>2. CASE Stop(i)
    BY <2>1, <2>2, StopTyped, SameRows
  <2>3. CASE pc[i] \in AtDelivery /\ Leave(i)
    <3>1. Len(deliveries') \in Nat /\ Len(deliveries') >= Len(deliveries)
      BY <2>1, LenProperties DEF TypeInv, TablesTyped
    <3> QED
      BY <2>1, <2>3, <3>1, LeaveTyped, SameRows
  <2>4. Stop(i) \/ (pc[i] \in AtDelivery /\ Leave(i))
    BY <1>4 DEF DatabaseError, Crash, TypeInv, RunTyped, Stages
  <2> QED
    BY <2>2, <2>3, <2>4
<1> QED
  BY <1>1, <1>2, <1>3, <1>4, WorkSteps DEF Next, AccountStep, AccountMove

LEMMA InitTyped ==
  ASSUME Init
  PROVE  TypeInv
<1>1. /\ now = 0 /\ made = <<>> /\ deliveries = <<>> /\ mails = {} /\ DOMAIN notes = {}
      /\ notes = [n \in {} |-> 0]
  BY DEF Init
<1>2. NoWork \in Works
  BY NoWorkTyped
<1>3. TablesTyped
  BY <1>1 DEF TablesTyped
<1>4. RunTyped
  BY <1>2 DEF Init, RunTyped, Stages, AtDelivery
<1>5. RunHolds
  BY DEF Init, RunHolds, AtDelivery, Sending
<1> QED
  BY <1>3, <1>4, <1>5 DEF TypeInv

\* The state stays well typed.
THEOREM TypesStay == Spec => []TypeInv
<1>1. Init => TypeInv
  BY InitTyped DEF TypeInv
<1>2. TypeInv /\ [Next]_vars => TypeInv'
  BY TypeStep DEF TypeInv
<1> QED
  BY <1>1, <1>2, PTL DEF Spec

-----------------------------------------------------------------------------
(***************************************************************************)
(* What a step can do, seen from one row, one notification, one run.       *)
(***************************************************************************)
\* What the steps of the accounts and those of a run leave alone.
LEMMA UserFrames ==
  ASSUME Tick \/ AccountStep
  PROVE  /\ Tick \/ (now' = now /\ longest' = longest)
         /\ mails' = mails
         /\ made' = made \/ \E u \in Users : Notify(u)
<1>1. CASE Tick
  BY <1>1 DEF Tick
<1>2. ASSUME NEW u \in Users,
             Notify(u) \/ Erase(u) \/ AccountMove(u)
      PROVE  /\ now' = now /\ longest' = longest
             /\ mails' = mails /\ (made' = made \/ Notify(u))
  BY <1>2, AccountOnlySteps DEF Notify, Erase, AccountOnly
<1> QED
  BY <1>1, <1>2 DEF AccountStep, AccountMove

LEMMA RunFrames ==
  ASSUME NEW i \in Instances, RunStep(i) \/ DatabaseError(i) \/ Crash(i)
  PROVE  now' = now /\ longest' = longest /\ made' = made /\ (mails' = mails \/ Send(i))
<1>1. CASE Claim(i)
  BY <1>1 DEF Claim
<1>2. CASE Start(i) \/ List(i) \/ TakeLease(i) \/ Busy(i) \/ Read(i) \/ Prepare(i) \/ Store(i)
  BY <1>2 DEF Start, List, TakeLease, Busy, Read, Prepare, Store
<1>3. CASE Send(i) \/ MarkSent(i) \/ MarkRefused(i) \/ Finish(i)
  BY <1>3 DEF Send, MarkSent, MarkRefused, Finish
<1>4. CASE DatabaseError(i) \/ Crash(i)
  BY <1>4 DEF DatabaseError, Crash
<1> QED
  BY <1>1, <1>2, <1>3, <1>4 DEF RunStep

\* The rows change with a deletion, a claim and the statements of a sender.
LEMMA RowCases ==
  ASSUME [Next]_vars
  PROVE  \/ deliveries' = deliveries
         \/ \E u \in Users : Erase(u)
         \/ \E i \in Instances : Claim(i) \/ Writes(i)
<1>1. ASSUME NEW u \in Users, Notify(u) \/ AccountMove(u)
      PROVE  deliveries' = deliveries
  BY <1>1, AccountOnlySteps DEF Notify, AccountOnly
<1> QED
  BY <1>1 DEF Next, AccountStep, AccountMove, RunStep, Writes, vars, Tick, Start, List, Busy,
     Read, Prepare, Send, DatabaseError, Crash

\* A row keeps its number and its time; what else it holds changes when its
\* sender writes it and when its account is deleted.
LEMMA RowSteps ==
  ASSUME TypeInv, [Next]_vars
  PROVE  /\ Len(deliveries) \in Nat /\ Len(deliveries') \in Nat
         /\ Len(deliveries') >= Len(deliveries)
         /\ \A k \in 1 .. Len(deliveries) :
              \/ deliveries'[k] = deliveries[k]
              \/ Erased(deliveries'[k], deliveries[k])
              \/ \E i \in Instances : Writes(i) /\ k = Current(i) /\ Written(i, deliveries'[k])
         /\ \A k \in 1 .. Len(deliveries') : k > Len(deliveries) =>
              \E i \in Instances : pc[i] = "claim" /\ IsNew(deliveries'[k], started[i])
<1>0. Len(deliveries) \in Nat
  BY LenProperties DEF TypeInv, TablesTyped
<1>1. CASE deliveries' = deliveries
  BY <1>0, <1>1
<1>2. ASSUME NEW u \in Users, Erase(u)
      PROVE  /\ Len(deliveries') = Len(deliveries)
             /\ \A k \in 1 .. Len(deliveries) :
                  deliveries'[k] = deliveries[k] \/ Erased(deliveries'[k], deliveries[k])
  BY <1>2, EraseEffects
<1>3. ASSUME NEW i \in Instances, Claim(i)
      PROVE  pc[i] = "claim" /\ Extends(deliveries', deliveries, started[i])
             /\ Len(deliveries') \in Nat
  <2>1. deliveries' \in Seq(Rows) /\ Extends(deliveries', deliveries, started[i])
    BY <1>3, ClaimEffects
  <2> QED
    BY <2>1, <1>3, LenProperties DEF Claim
<1>4. ASSUME NEW i \in Instances, Writes(i)
      PROVE  /\ Len(deliveries') = Len(deliveries)
             /\ \A l \in 1 .. Len(deliveries) : l # Current(i) => deliveries'[l] = deliveries[l]
             /\ Written(i, deliveries'[Current(i)])
  BY <1>4, WriteEffects
<1>5. \/ deliveries' = deliveries
      \/ \E u \in Users : Erase(u)
      \/ \E i \in Instances : Claim(i) \/ Writes(i)
  BY RowCases
<1>6. CASE \E u \in Users : Erase(u)
  BY <1>0, <1>2, <1>6
<1>7. CASE \E i \in Instances : Claim(i)
  BY <1>0, <1>3, <1>7 DEF Extends
<1>8. CASE \E i \in Instances : Writes(i)
  <2>1. PICK i \in Instances : Writes(i)
    BY <1>8
  <2> QED
    BY <1>0, <1>4, <2>1
<1> QED
  BY <1>1, <1>5, <1>6, <1>7, <1>8

\* An attempt that was counted stays counted.
LEMMA AttemptsKept ==
  ASSUME TypeInv, [Next]_vars, NEW k \in 1 .. Len(deliveries), deliveries'[k].attempts = 0
  PROVE  deliveries[k].attempts = 0
<1>1. deliveries[k].attempts \in Nat
  <2>1. deliveries[k] \in Rows
    BY ElementOfSeq DEF TypeInv, TablesTyped
  <2> QED
    BY <2>1 DEF Rows
<1>2. CASE Erased(deliveries'[k], deliveries[k])
  BY <1>2 DEF Erased, SameDates
<1>3. ASSUME NEW i \in Instances, Writes(i), k = Current(i), Written(i, deliveries'[k])
      PROVE  deliveries[k].attempts = 0
  <2>1. Row(i) = deliveries[k] /\ work[i].attempts \in Nat
    BY <1>3 DEF Row, TypeInv, RunTyped, Works
  <2>2. ~ MarkSent(i) /\ ~ MarkRefused(i)
    BY <1>1, <1>3, <2>1 DEF Written
  <2> QED
    BY <1>3, <2>1, <2>2 DEF Writes, Written, SameDates
<1> QED
  BY <1>2, <1>3, RowSteps

\* A notification never leaves its delivery, and only a claim puts it in one: an open one,
\* in one that is new and its user's.  It is marked e-mailed only when its delivery is, and
\* gets a reason while it is open, or when its delivery is settled.
NewNote(n) ==
  /\ n \notin DOMAIN notes /\ n = Len(made) + 1
  /\ notes'[n].delivery = 0 /\ ~notes'[n].emailed /\ notes'[n].skip = ""

SameDelivery(n) ==
  \/ notes'[n].delivery = notes[n].delivery
  \/ /\ Open(notes[n]) /\ notes'[n].skip = ""
     /\ InNew(notes'[n], deliveries', Len(deliveries))

SameMark(n) ==
  \/ notes'[n].emailed = notes[n].emailed
  \/ \E i \in Instances : MarkSent(i) /\ n \in Claimed(Current(i))

SameSkip(n) ==
  \/ notes'[n].skip = notes[n].skip
  \/ Open(notes[n]) /\ notes'[n].delivery = 0
  \/ \E i \in Instances :
       /\ Finish(i) /\ n \in Claimed(Current(i))
       /\ ~notes[n].emailed /\ notes'[n].skip = work[i].reason

LEMMA NoteSteps ==
  ASSUME TypeInv, [Next]_vars, NEW n \in DOMAIN notes'
  PROVE  \/ NewNote(n)
         \/ /\ n \in DOMAIN notes /\ notes'[n].user = notes[n].user
            /\ SameDelivery(n) /\ SameMark(n) /\ SameSkip(n)
<1> DEFINE Kept == /\ n \in DOMAIN notes /\ notes'[n].user = notes[n].user
                   /\ SameDelivery(n) /\ SameMark(n) /\ SameSkip(n)
<1>0. ASSUME n \in DOMAIN notes, notes'[n] = notes[n]
      PROVE  Kept
  BY <1>0, Zenon DEF SameDelivery, SameMark, SameSkip
<1>1. CASE notes' = notes
  BY <1>0, <1>1
<1>2. ASSUME NEW u \in Users, Notify(u)
      PROVE  (n \in DOMAIN notes /\ notes'[n] = notes[n]) \/ NewNote(n)
  <2>1. notes' = [m \in DOMAIN notes \cup {Len(made) + 1} |->
                    IF m \in DOMAIN notes THEN notes[m]
                    ELSE [user |-> u, at |-> now, delivery |-> 0, emailed |-> FALSE, skip |-> ""]]
    BY <1>2 DEF Notify
  <2>2. n \in DOMAIN notes \cup {Len(made) + 1}
    BY <2>1
  <2> QED
    BY <2>1, <2>2 DEF NewNote
<1>3. ASSUME NEW u \in Users, Erase(u)
      PROVE  n \in DOMAIN notes /\ notes'[n] = notes[n]
  BY <1>3, EraseEffects
<1>4. ASSUME NEW i \in Instances, Claim(i)
      PROVE  Kept
  <2>1. n \in DOMAIN notes /\ ClaimedNote(notes'[n], notes[n], deliveries', Len(deliveries))
    BY <1>4, ClaimEffects
  <2>2. notes'[n].user = notes[n].user /\ SameMark(n)
    BY <2>1, Zenon DEF ClaimedNote, SameNote, SameMark
  <2>3. CASE notes'[n].delivery = notes[n].delivery /\ (notes'[n].skip = notes[n].skip \/ Open(notes[n]))
    BY <2>1, <2>2, <2>3, Zenon DEF SameDelivery, SameSkip, Open
  <2>4. CASE /\ Open(notes[n]) /\ notes'[n].skip = ""
             /\ InNew(notes'[n], deliveries', Len(deliveries))
    BY <2>1, <2>2, <2>4, Zenon DEF SameDelivery, SameSkip, Open
  <2> QED
    BY <2>1, <2>3, <2>4, Zenon DEF ClaimedNote
<1>5. ASSUME NEW i \in Instances, Finish(i)
      PROVE  Kept
  <2>1. /\ n \in DOMAIN notes /\ InDelivery(notes'[n], notes[n].delivery)
        /\ SameNote(notes'[n], notes[n])
    BY <1>5, MarkEffects
  <2>2. IF n \in Claimed(Current(i)) /\ ~notes[n].emailed
        THEN notes'[n].skip = work[i].reason ELSE notes'[n] = notes[n]
    BY <1>5, <2>1, MarkDetails, Zenon
  <2> QED
    BY <1>0, <1>5, <2>1, <2>2, Zenon DEF SameDelivery, SameMark, SameSkip, SameNote, InDelivery
<1>6. ASSUME NEW i \in Instances, MarkSent(i)
      PROVE  Kept
  <2>1. n \in DOMAIN notes /\ InDelivery(notes'[n], notes[n].delivery)
    BY <1>6, MarkEffects
  <2>2. /\ notes'[n].user = notes[n].user /\ notes'[n].skip = notes[n].skip
        /\ n \in Claimed(Current(i)) \/ notes'[n] = notes[n]
    BY <1>6, <2>1, MarkDetails, Zenon
  <2> QED
    BY <1>0, <1>6, <2>1, <2>2, Zenon DEF SameDelivery, SameMark, SameSkip, InDelivery
<1>m. ASSUME NEW u \in Users, AccountMove(u)
      PROVE  notes' = notes
  BY <1>m, AccountOnlySteps DEF AccountOnly
<1>7. \/ notes' = notes
      \/ \E u \in Users : Notify(u) \/ Erase(u)
      \/ \E i \in Instances : Claim(i) \/ Finish(i) \/ MarkSent(i)
  BY <1>m DEF Next, AccountStep, AccountMove, RunStep, vars, Tick,
         Start, List, TakeLease, Busy, Read, Prepare, Store, Send, MarkRefused,
         DatabaseError, Crash
<1> HIDE DEF Kept
<1>8. NewNote(n) \/ Kept
  BY <1>0, <1>1, <1>2, <1>3, <1>4, <1>5, <1>6, <1>7, Zenon
<1> QED
  BY <1>8 DEF Kept

\* What the run of another instance holds does not change.
Untouched(j) ==
  /\ pc'[j] = pc[j] /\ started'[j] = started[j]
  /\ todo'[j] = todo[j] /\ work'[j] = work[j]

LEMMA OthersUntouched ==
  ASSUME TypeInv, NEW i \in Instances, RunStep(i) \/ DatabaseError(i) \/ Crash(i),
         NEW j \in Instances, j # i
  PROVE  Untouched(j)
<1>1. /\ pc \in [Instances -> Stages] /\ started \in [Instances -> Nat]
      /\ todo \in [Instances -> SUBSET Nat] /\ work \in [Instances -> Works]
  BY DEF TypeInv, RunTyped
<1> QED
  BY <1>1 DEF Untouched, RunStep, Start, Claim, List, TakeLease, Busy, Read, Prepare, Store, Send,
     MarkSent, MarkRefused, Finish, DatabaseError, Crash, Leave, Stop, Stay, Give, Answer

\* Outside its own steps an instance's run stands still.
LEMMA Untouching ==
  ASSUME TypeInv, [Next]_vars, NEW j \in Instances
  PROVE  Untouched(j) \/ RunStep(j) \/ DatabaseError(j) \/ Crash(j)
<1>1. CASE UNCHANGED runVars
  BY <1>1 DEF runVars, Untouched
<1>2. CASE \E i \in Instances : RunStep(i) \/ DatabaseError(i) \/ Crash(i)
  BY <1>2, OthersUntouched
<1>3. ASSUME NEW u \in Users, Notify(u) \/ Erase(u) \/ AccountMove(u)
      PROVE  UNCHANGED runVars
  BY <1>3, AccountOnlySteps DEF Notify, Erase, AccountOnly
<1> QED
  BY <1>1, <1>2, <1>3 DEF Next, AccountStep, AccountMove, vars, Tick

\* An instance that sends has been sending the same delivery in the same run,
\* or has just taken the lease.
LEMMA SendingSteps ==
  ASSUME TypeInv, [Next]_vars, NEW j \in Instances, pc'[j] \in Sending
  PROVE  /\ Current(j)' = Current(j) /\ Current(j) \in 1 .. Len(deliveries)
         /\ started'[j] = started[j]
         /\ pc[j] \in Sending \/ TakeLease(j)
<1>1. /\ pc \in [Instances -> Stages] /\ started \in [Instances -> Nat]
      /\ todo \in [Instances -> SUBSET Nat] /\ work \in [Instances -> Works]
  BY DEF TypeInv, RunTyped
<1>2. ASSUME Untouched(j)
      PROVE  /\ Current(j)' = Current(j)
             /\ started'[j] = started[j]
             /\ pc[j] \in Sending \/ TakeLease(j)
  BY <1>2 DEF Untouched, Current
<1>3. ASSUME RunStep(j)
      PROVE  /\ Current(j)' = Current(j)
             /\ started'[j] = started[j]
             /\ pc[j] \in Sending \/ TakeLease(j)
  <2>1. ~ (Start(j) \/ Claim(j) \/ List(j) \/ Busy(j) \/ MarkSent(j) \/ MarkRefused(j) \/ Finish(j))
    BY <1>1 DEF Start, Claim, List, Busy, MarkSent, MarkRefused, Finish, Leave, Stay, Give, Sending
  <2>2. TakeLease(j) \/ Read(j) \/ Prepare(j) \/ Store(j) \/ Send(j)
    BY <1>3, <2>1 DEF RunStep
  <2>3. todo' = todo /\ started' = started /\ (pc[j] \in Sending \/ TakeLease(j))
    BY <2>2 DEF TakeLease, Read, Prepare, Store, Send, Stay, Give, Answer, Sending
  <2> QED
    BY <2>3 DEF Current
<1>4. ~ (DatabaseError(j) \/ Crash(j))
  BY <1>1 DEF DatabaseError, Crash, Stop, Leave, Sending
<1>5. /\ Current(j)' = Current(j)
      /\ started'[j] = started[j]
      /\ pc[j] \in Sending \/ TakeLease(j)
  BY <1>2, <1>3, <1>4, Untouching
<1>6. pc[j] \in AtDelivery
  BY <1>5 DEF TakeLease, AtDelivery
<1> QED
  BY <1>5, <1>6, CurrentFacts

\* An instance that settles a delivery goes on with it, or found in the message
\* or the answer why.
LEMMA FinishSteps ==
  ASSUME TypeInv, [Next]_vars, NEW j \in Instances, pc'[j] = "finish"
  PROVE  /\ Current(j)' = Current(j) /\ Current(j) \in 1 .. Len(deliveries)
         /\ started'[j] = started[j]
         /\ (Untouched(j) /\ pc[j] = "finish") \/ Read(j) \/ Prepare(j) \/ MarkRefused(j)
<1>1. /\ pc \in [Instances -> Stages] /\ work \in [Instances -> Works]
  BY DEF TypeInv, RunTyped
<1>2. CASE Untouched(j)
  <2>1. pc[j] = "finish" /\ Current(j)' = Current(j) /\ started'[j] = started[j]
    BY <1>2 DEF Untouched, Current
  <2>2. Current(j) \in 1 .. Len(deliveries)
    BY <2>1, CurrentFacts DEF AtDelivery
  <2> QED
    BY <1>2, <2>1, <2>2
<1>3. CASE Read(j) \/ Prepare(j)
  <2>1. todo' = todo /\ started' = started /\ pc[j] \in AtDelivery
    BY <1>3 DEF Read, Prepare, Give, Stay, Sending, AtDelivery
  <2> QED
    BY <1>3, <2>1, CurrentFacts DEF Current
<1>4. CASE MarkRefused(j)
  <2>1. started' = started /\ pc[j] \in AtDelivery
    BY <1>4 DEF MarkRefused, Sending, AtDelivery
  <2>2. ~ Leave(j)
    BY <1>1 DEF Leave
  <2>3. todo' = todo
    BY <1>4, <2>2 DEF MarkRefused, Give, Stay
  <2> QED
    BY <1>4, <2>1, <2>3, CurrentFacts DEF Current
<1>5. ~ (Start(j) \/ Claim(j) \/ List(j) \/ Busy(j) \/ MarkSent(j) \/ Finish(j))
  BY <1>1 DEF Start, Claim, List, Busy, MarkSent, Finish, Leave
<1>6. ~ (TakeLease(j) \/ Store(j) \/ Send(j) \/ DatabaseError(j) \/ Crash(j))
  BY <1>1 DEF TakeLease, Store, Send, Answer, Stay, DatabaseError, Crash, Stop, Leave
<1> QED
  BY <1>2, <1>3, <1>4, <1>5, <1>6, Untouching DEF RunStep

-----------------------------------------------------------------------------
(***************************************************************************)
(* A deleted account.                                                      *)
(***************************************************************************)
Empty(d) == d.user = Nobody => d.payload = <<>> /\ ~d.providerId
ErasedInv == \A k \in 1 .. Len(deliveries) : k \in missed \/ Empty(deliveries[k])

\* A row a deletion did not see is not forgotten.
LEMMA MissedStays ==
  ASSUME TypeInv, [Next]_vars
  PROVE  missed \subseteq missed'
<1>1. ASSUME NEW u \in Users, Erase(u) PROVE missed \subseteq missed'
  BY <1>1, EraseEffects
<1>2. ASSUME NEW u \in Users, Notify(u) \/ AccountMove(u) PROVE missed' = missed
  BY <1>2 DEF Notify, AccountMove, OptIn, OptOut, Confirm, SetDisabled, EraseCancel, EraseBlank,
     EraseAborts, Change
<1>3. ASSUME NEW i \in Instances, RunStep(i) \/ DatabaseError(i) \/ Crash(i)
      PROVE  missed' = missed
  BY <1>3 DEF RunStep, Start, Claim, List, TakeLease, Busy, Read, Prepare, Store, Send,
     MarkSent, MarkRefused, Finish, DatabaseError, Crash
<1> QED
  BY <1>1, <1>2, <1>3 DEF Next, AccountStep, AccountMove, vars, Tick

\* A deletion blanks the rows it sees, and leaves those of other accounts.
LEMMA Blanking ==
  ASSUME TypeInv, NEW u \in Users, Erase(u), NEW k \in 1 .. Len(deliveries)
  PROVE  deliveries'[k] = deliveries[k] \/ k \in missed' \/ Blank(deliveries'[k])
BY EraseEffects

LEMMA ErasedStep ==
  ASSUME TypeInv, ErasedInv, [Next]_vars
  PROVE  ErasedInv'
<1> SUFFICES ASSUME NEW k \in 1 .. Len(deliveries'), k \notin missed' PROVE Empty(deliveries'[k])
  BY DEF ErasedInv
<1>0. k \notin missed
  BY MissedStays
<1>1. CASE k \in 1 .. Len(deliveries)
  <2>0. Empty(deliveries[k])
    BY <1>0, <1>1 DEF ErasedInv
  <2>1. CASE deliveries'[k] = deliveries[k]
    BY <2>0, <2>1
  <2>2. CASE \E u \in Users : Erase(u)
    BY <1>1, <2>0, <2>2, Blanking DEF Blank, Empty
  <2>3. ASSUME NEW i \in Instances, Writes(i), k = Current(i), Written(i, deliveries'[k])
        PROVE  Empty(deliveries'[k])
    <3>1. Empty(Row(i))
      BY <2>0, <2>3 DEF Row
    <3> QED
      BY <2>3, <3>1 DEF Written, Writes, Empty
  <2>4. ASSUME NEW i \in Instances, Claim(i)
        PROVE  deliveries'[k] = deliveries[k]
    BY <1>1, <2>4, ClaimEffects DEF Extends
  <2>5. ASSUME NEW i \in Instances, Writes(i)
        PROVE  deliveries'[k] = deliveries[k] \/ (k = Current(i) /\ Written(i, deliveries'[k]))
    BY <1>1, <2>5, WriteEffects
  <2> QED
    BY <2>1, <2>2, <2>3, <2>4, <2>5, RowCases
<1>2. CASE k \notin 1 .. Len(deliveries)
  <2>1. k > Len(deliveries)
    BY <1>2, RowSteps
  <2>2. PICK i \in Instances : IsNew(deliveries'[k], started[i])
    BY <2>1, RowSteps
  <2> QED
    BY <2>2 DEF IsNew, Empty
<1> QED
  BY <1>1, <1>2

\* The rows that the deletion of an account has seen never get their message or
\* provider id back, whatever sends were under way when the account went:
\* deliver writes both only while the row still has its user (accountDeletion.js
\* eraseAccount, dispatcher.js deliver).  A row claimed between the statements
\* of the deletion is not among them.
THEOREM ErasedRowsStayEmpty == Spec => []ErasedStaysEmpty
<1>1. Init => TypeInv /\ ErasedInv
  BY InitTyped DEF TypeInv, ErasedInv, Init
<1>2. TypeInv /\ ErasedInv /\ [Next]_vars => TypeInv' /\ ErasedInv'
  BY TypeStep, ErasedStep DEF TypeInv
<1>3. TypeInv /\ ErasedInv => ErasedStaysEmpty
  <2>1. ASSUME TypeInv PROVE DOMAIN deliveries = 1 .. Len(deliveries)
    BY <2>1, LenProperties DEF TypeInv, TablesTyped
  <2> QED
    BY <2>1 DEF TypeInv, ErasedInv, Empty, ErasedStaysEmpty
<1> QED
  BY <1>1, <1>2, <1>3, PTL DEF Spec

-----------------------------------------------------------------------------
(***************************************************************************)
(* Time, and the leases.                                                   *)
(***************************************************************************)
\* No run has lasted longer than the longest, and nothing dates from the future.
RunTimes ==
  /\ longest \in Nat
  /\ \A i \in Instances : pc[i] # "idle" => started[i] <= now /\ now <= started[i] + longest
RowTimes == \A k \in 1 .. Len(deliveries) : deliveries[k].createdAt <= now

LEMMA Clock ==
  ASSUME TypeInv, [Next]_vars
  PROVE  /\ now \in Nat /\ now' \in Nat /\ now <= now'
         /\ (now' = now /\ longest' = longest) \/ Tick
         /\ longest \in Nat => longest' \in Nat /\ longest <= longest'
<1>1. now \in Nat
  BY DEF TypeInv, TablesTyped
<1>2. (now' = now /\ longest' = longest) \/ Tick
  BY UserFrames, RunFrames DEF Next, vars
<1>3. Tick => now' = now + 1 /\ longest' \in {longest, longest + 1}
  BY DEF Tick
<1> QED
  BY <1>1, <1>2, <1>3

LEMMA TimeStep ==
  ASSUME TypeInv, RunTimes, RowTimes, [Next]_vars
  PROVE  RunTimes' /\ RowTimes'
<1>1. /\ now \in Nat /\ now' \in Nat /\ now <= now'
      /\ longest \in Nat /\ longest' \in Nat /\ longest <= longest'
      /\ pc \in [Instances -> Stages] /\ started \in [Instances -> Nat]
      /\ todo \in [Instances -> SUBSET Nat] /\ work \in [Instances -> Works]
  BY Clock DEF TypeInv, RunTyped, RunTimes
<1>2. ASSUME NEW i \in Instances, pc'[i] # "idle"
      PROVE  started'[i] <= now' /\ now' <= started'[i] + longest'
  <2>1. CASE Tick
    <3>1. /\ pc[i] # "idle" /\ started' = started /\ now' = now + 1
          /\ longest' = IF \E j \in Instances : pc[j] # "idle" /\ now' > started[j] + longest
                        THEN longest + 1 ELSE longest
      BY <1>2, <2>1 DEF Tick, runVars
    <3>2. started[i] <= now /\ now <= started[i] + longest /\ started[i] \in Nat
      BY <1>1, <3>1 DEF RunTimes
    <3>3. CASE now' > started[i] + longest
      BY <1>1, <3>1, <3>2, <3>3
    <3>4. CASE ~(now' > started[i] + longest)
      BY <1>1, <3>1, <3>2, <3>4
    <3> QED
      BY <3>3, <3>4
  <2>2. CASE ~Tick /\ Untouched(i)
    BY <1>1, <1>2, <2>2, Clock DEF Untouched, RunTimes
  <2>3. CASE Start(i)
    BY <1>1, <2>3 DEF Start
  <2>4. CASE ~Start(i) /\ ~Untouched(i)
    <3>1. pc[i] # "idle" /\ started' = started /\ now' = now /\ longest' = longest
      <4>1. DatabaseError(i) \/ Crash(i) \/ RunStep(i)
        BY <2>4, Untouching
      <4> QED
        BY <2>4, <4>1 DEF RunStep, Claim, List, TakeLease, Busy, Read, Prepare, Store, Send,
           MarkSent, MarkRefused, Finish, DatabaseError, Crash
    <3> QED
      BY <1>1, <3>1 DEF RunTimes
  <2> QED
    BY <2>1, <2>2, <2>3, <2>4
<1>3. ASSUME NEW k \in 1 .. Len(deliveries')
      PROVE  deliveries'[k].createdAt <= now'
  <2>1. CASE k \in 1 .. Len(deliveries)
    <3>1. deliveries'[k].createdAt = deliveries[k].createdAt
      BY <2>1, RowSteps DEF Erased, Written, Row
    <3>2. deliveries[k] \in Rows
      BY <2>1, ElementOfSeq DEF TypeInv, TablesTyped
    <3>4. deliveries[k].createdAt <= now /\ deliveries[k].createdAt \in Int
      BY <2>1, <3>2 DEF RowTimes, Rows
    <3> QED
      BY <1>1, <3>1, <3>4
  <2>2. CASE k \notin 1 .. Len(deliveries)
    <3>1. k > Len(deliveries)
      BY <2>2, RowSteps
    <3>2. PICK i \in Instances : pc[i] = "claim" /\ IsNew(deliveries'[k], started[i])
      BY <3>1, RowSteps
    <3>3. started[i] <= now /\ started[i] \in Nat
      BY <1>1, <3>2 DEF RunTimes
    <3> QED
      BY <1>1, <3>2, <3>3 DEF IsNew
  <2> QED
    BY <2>1, <2>2
<1> QED
  BY <1>1, <1>2, <1>3 DEF RunTimes, RowTimes

\* A run holds the delivery it sends, until it has counted an attempt or settled it.
Holds(i) == pc[i] \in Sending \/ (pc[i] = "finish" /\ Row(i).attempts = 0)

LEMMA HoldSteps ==
  ASSUME TypeInv, [Next]_vars, NEW j \in Instances, Holds(j)'
  PROVE  /\ Current(j)' = Current(j) /\ Current(j) \in 1 .. Len(deliveries)
         /\ started'[j] = started[j]
         /\ Holds(j) \/ TakeLease(j)
<1>1. CASE pc'[j] \in Sending
  BY <1>1, SendingSteps DEF Holds
<1>2. CASE pc'[j] = "finish" /\ Row(j)'.attempts = 0
  <2>1. /\ Current(j)' = Current(j) /\ Current(j) \in 1 .. Len(deliveries)
        /\ started'[j] = started[j]
        /\ (Untouched(j) /\ pc[j] = "finish") \/ Read(j) \/ Prepare(j) \/ MarkRefused(j)
    BY <1>2, FinishSteps
  <2>2. CASE pc[j] = "finish"
    <3>1. Row(j) = deliveries[Current(j)] /\ Row(j)' = deliveries'[Current(j)]
      BY <2>1 DEF Row
    <3>2. Row(j).attempts = 0
      BY <1>2, <2>1, <3>1, AttemptsKept
    <3> QED
      BY <2>1, <2>2, <3>2 DEF Holds
  <2>3. CASE Read(j) \/ Prepare(j)
    BY <2>1, <2>3 DEF Read, Prepare, Sending, Holds
  <2>4. ~ MarkRefused(j)
    <3> SUFFICES ASSUME MarkRefused(j) PROVE FALSE
      OBVIOUS
    <3>1. Row(j)' = deliveries'[Current(j)]
      BY <2>1 DEF Row
    <3>2. deliveries'[Current(j)].attempts = work[j].attempts + 1
      BY WriteEffects DEF Writes, Written
    <3>3. work[j].attempts \in Nat
      BY DEF TypeInv, RunTyped, Works
    <3> QED
      BY <1>2, <3>1, <3>2, <3>3
  <2> QED
    BY <2>1, <2>2, <2>3, <2>4
<1> QED
  BY <1>1, <1>2 DEF Holds

\* Who holds a pending delivery has its lease, for Lease from the start of
\* the run, and nobody else holds it.
Leased == \A i \in Instances :
  Holds(i) /\ Row(i).status = "pending" => Row(i).leaseUntil = started[i] + Lease
Apart == \A i, j \in Instances :
  i # j /\ Holds(i) /\ Holds(j) => Current(i) # Current(j)

\* A lease is not free for another run, as long as the run that holds it lasts.
LEMMA LeaseHolds ==
  ASSUME longest <= Lease, TypeInv, RunTimes, Leased,
         NEW i \in Instances, NEW j \in Instances, TakeLease(i), Holds(j)
  PROVE  Current(i) # Current(j)
<1>1. /\ started[i] \in Nat /\ started[j] \in Nat /\ now \in Nat /\ longest \in Nat /\ Lease \in Nat
  BY Numbers DEF TypeInv, TablesTyped, RunTyped, RunTimes
<1>2. /\ pc[i] = "lease" /\ Row(i).status = "pending" /\ Row(i).leaseUntil < started[i]
  BY DEF TakeLease
<1>3. started[i] <= now /\ now <= started[j] + longest
  BY <1>2 DEF RunTimes, Holds, Sending
<1>4. Current(i) = Current(j) => Row(i) = Row(j)
  BY DEF Row
<1>5. Current(i) = Current(j) => Row(i).leaseUntil = started[j] + Lease
  BY <1>2, <1>4 DEF Leased
<1> QED
  BY <1>1, <1>2, <1>3, <1>5

LEMMA LeaseStep ==
  ASSUME longest <= Lease, TypeInv, RunTimes, Leased, Apart, [Next]_vars
  PROVE  Leased' /\ Apart'
<1>1. ASSUME NEW i \in Instances, NEW j \in Instances, i # j, Holds(i)', Holds(j)'
      PROVE  Current(i)' # Current(j)'
  <2>1. /\ Current(i)' = Current(i) /\ (Holds(i) \/ TakeLease(i))
        /\ Current(j)' = Current(j) /\ (Holds(j) \/ TakeLease(j))
    BY <1>1, HoldSteps
  <2>2. ASSUME NEW a \in Instances, NEW b \in Instances, a # b, TakeLease(a), Holds(b)'
        PROVE  Holds(b)
    <3>1. RunStep(a)
      BY <2>2 DEF RunStep
    <3>2. pc'[b] = pc[b]
      BY <2>2, <3>1, OthersUntouched DEF Untouched
    <3>3. ~ TakeLease(b)
      BY <2>2, <3>2 DEF TakeLease, Holds, Sending
    <3> QED
      BY <2>2, <3>3, HoldSteps
  <2>3. CASE TakeLease(i)
    BY <1>1, <2>1, <2>2, <2>3, LeaseHolds
  <2>4. CASE TakeLease(j)
    BY <1>1, <2>1, <2>2, <2>4, LeaseHolds
  <2>5. CASE Holds(i) /\ Holds(j)
    BY <1>1, <2>1, <2>5 DEF Apart
  <2> QED
    BY <2>1, <2>3, <2>4, <2>5
<1>2. ASSUME NEW j \in Instances, Holds(j)', Row(j)'.status = "pending"
      PROVE  Row(j)'.leaseUntil = started'[j] + Lease
  <2> DEFINE c == Current(j)
  <2>1. /\ Current(j)' = c /\ started'[j] = started[j] /\ c \in 1 .. Len(deliveries)
        /\ Holds(j) \/ TakeLease(j)
    BY <1>2, HoldSteps
  <2>2. Row(j)' = deliveries'[c] /\ Row(j) = deliveries[c]
    BY <2>1 DEF Row
  <2>3. CASE TakeLease(j)
    <3>1. Written(j, deliveries'[c])
      BY <2>3, WriteEffects DEF Writes
    <3> QED
      BY <2>1, <2>2, <2>3, <3>1 DEF Written
  <2>4. CASE Holds(j) /\ ~TakeLease(j)
    <3>1. CASE deliveries'[c] = deliveries[c]
      BY <1>2, <2>1, <2>2, <2>4, <3>1 DEF Leased
    <3>2. CASE Erased(deliveries'[c], deliveries[c])
      <4>1. Row(j).status = "pending" /\ deliveries'[c].leaseUntil = Row(j).leaseUntil
        BY <1>2, <2>2, <3>2 DEF Erased
      <4> QED
        BY <2>1, <2>2, <2>4, <4>1 DEF Leased
    <3>3. ASSUME NEW i \in Instances, Writes(i), c = Current(i), Written(i, deliveries'[c])
          PROVE  deliveries'[c].leaseUntil = started'[j] + Lease
      <4>1. Row(i) = Row(j)
        BY <3>3 DEF Row
      <4>2. CASE TakeLease(i)
        BY <2>4, <3>3, <4>2, LeaseHolds
      <4>3. CASE Store(i)
        <5>1. deliveries'[c].status = Row(j).status /\ deliveries'[c].leaseUntil = Row(j).leaseUntil
          BY <3>3, <4>1, <4>3 DEF Written
        <5> QED
          BY <1>2, <2>1, <2>2, <2>4, <5>1 DEF Leased
      <4>4. CASE MarkSent(i)
        BY <1>2, <2>2, <3>3, <4>4 DEF Written
      <4>5. CASE MarkRefused(i)
        <5>1. Holds(i)
          BY <4>5 DEF MarkRefused, Sending, Holds
        <5>2. i = j
          BY <2>4, <3>3, <5>1 DEF Apart
        <5>3. pc'[i] \notin Sending
          BY <4>5 DEF MarkRefused, Leave, Give, Stay, Sending, TypeInv, RunTyped
        <5>4. deliveries'[c].attempts = work[i].attempts + 1 /\ work[i].attempts \in Nat
          BY <3>3, <4>5 DEF Written, TypeInv, RunTyped, Works
        <5>5. Row(j)'.attempts # 0
          BY <2>2, <5>4
        <5> QED
          BY <1>2, <5>2, <5>3, <5>5 DEF Holds
      <4>6. CASE Finish(i)
        <5>1. work[i].outcome \in Settled
          BY <4>6 DEF Finish, TypeInv, RunHolds
        <5> QED
          BY <1>2, <2>2, <3>3, <4>6, <5>1 DEF Written, Settled
      <4> QED
        BY <3>3, <4>2, <4>3, <4>4, <4>5, <4>6 DEF Writes
    <3> QED
      BY <2>1, <2>2, <3>1, <3>2, <3>3, RowSteps
  <2> QED
    BY <2>1, <2>3, <2>4
<1> QED
  BY <1>1, <1>2 DEF Leased, Apart

LEMMA InitTimes == Init => RunTimes /\ RowTimes
BY DEF Init, RunTimes, RowTimes

\* What the leases keep, until some run has outlasted its lease.
LeaseInv == longest <= Lease => Leased /\ Apart

LEMMA LeaseInvStep ==
  ASSUME TypeInv, RunTimes, LeaseInv, [Next]_vars
  PROVE  LeaseInv'
<1>1. longest \in Nat /\ longest' \in Nat /\ longest <= longest' /\ Lease \in Nat
  BY Clock, Numbers DEF RunTimes
<1>2. longest' <= Lease => longest <= Lease
  BY <1>1
<1> QED
  BY <1>2, LeaseStep DEF LeaseInv

\* As long as no run has outlasted its lease, two instances never send the same
\* delivery at the same time.  The lease is counted from the start of the run
\* that takes it, not from the moment it is taken, and nothing in the code
\* bounds a run (deliver, leaseUntil): the condition is on what happened, not on
\* the constants.
THEOREM OneSenderEach == Spec => []OneSender
<1> DEFINE IInv == TypeInv /\ RunTimes /\ RowTimes /\ LeaseInv
<1>1. Init => IInv
  <2>1. Init => LeaseInv
    BY DEF Init, LeaseInv, Leased, Apart, Holds, Sending
  <2> QED
    BY <2>1, InitTimes, InitTyped DEF TypeInv
<1>2. IInv /\ [Next]_vars => IInv'
  BY TypeStep, TimeStep, LeaseInvStep DEF TypeInv
<1>3. IInv => OneSender
  BY DEF LeaseInv, Apart, OneSender, Holds, Sending
<1> HIDE DEF IInv
<1> QED
  BY <1>1, <1>2, <1>3, PTL DEF Spec

-----------------------------------------------------------------------------
(***************************************************************************)
(* What the messages carry.                                                *)
(***************************************************************************)
\* With a message at hand, before it is sent.
Loaded == {"store", "send"}

NewMail(i) ==
  [key |-> Current(i), to |-> work[i].to, kind |-> work[i].kind,
   notes |-> work[i].payload[1], at |-> now, consentAt |-> accounts[work[i].to].consentAt]

\* The provider keeps what it has, and takes one message at a time.
LEMMA MailSteps ==
  ASSUME [Next]_vars
  PROVE  /\ mails \subseteq mails'
         /\ \A m \in mails' : m \in mails \/
              \E i \in Instances :
                /\ Send(i) /\ m = NewMail(i) /\ mails' = mails \cup {NewMail(i)}
                /\ ~ \E e \in mails : e.key = Current(i) /\ now - e.at < Window
<1>1. CASE mails' = mails
  BY <1>1
<1>2. CASE \E i \in Instances : Send(i)
  <2>1. PICK i \in Instances : Send(i)
    BY <1>2
  <2>2. mails' = mails \/ Accept(i)
    BY <2>1 DEF Send
  <2> QED
    BY <1>1, <2>1, <2>2 DEF Accept, NewMail
<1>3. mails' = mails \/ \E i \in Instances : Send(i)
  BY UserFrames, RunFrames DEF Next, vars
<1> QED
  BY <1>1, <1>2, <1>3

\* A message at hand was rendered from the notifications or read from the row.
LEMMA LoadedSteps ==
  ASSUME TypeInv, [Next]_vars, NEW j \in Instances, pc'[j] \in Loaded
  PROVE  /\ Current(j)' = Current(j) /\ Current(j) \in 1 .. Len(deliveries)
         /\ \/ pc[j] \in Loaded /\ work'[j].payload = work[j].payload
            \/ work'[j].payload = <<Claimed(Current(j))>>
            \/ Row(j).payload # <<>> /\ work'[j].payload = Row(j).payload
<1>1. /\ pc \in [Instances -> Stages] /\ work \in [Instances -> Works]
  BY DEF TypeInv, RunTyped
<1>2. pc'[j] \in Sending
  BY DEF Loaded, Sending
<1>3. ASSUME Untouched(j)
      PROVE  pc[j] \in Loaded /\ work'[j].payload = work[j].payload
  BY <1>3 DEF Untouched
<1>4. ASSUME Store(j)
      PROVE  pc[j] \in Loaded /\ work'[j].payload = work[j].payload
  BY <1>4 DEF Store, Loaded
<1>5. ASSUME Prepare(j)
      PROVE  work'[j].payload = <<Claimed(Current(j))>>
  <2>1. Stay(j, "store") /\ work' = [work EXCEPT ![j].payload = <<Claimed(Current(j))>>]
    BY <1>1, <1>5 DEF Prepare, Give, Stay, Loaded
  <2> QED
    BY <1>1, <2>1 DEF Works
<1>6. ASSUME Read(j)
      PROVE  Row(j).payload # <<>> /\ work'[j].payload = Row(j).payload
  <2> DEFINE w == [NoWork EXCEPT !.kind = Row(j).kind, !.attempts = Row(j).attempts,
                                 !.payload = Row(j).payload, !.to = Row(j).user]
  <2>1. ASSUME NEW outcome, NEW reason, NEW error, Give(j, outcome, reason, error)
        PROVE  FALSE
    BY <1>1, <2>1 DEF Give, Stay, Loaded
  <2>2. work' = [work EXCEPT ![j] = w] /\ Stay(j, IF Row(j).payload = <<>> THEN "prepare" ELSE "send")
    BY <1>6, <2>1, Zenon DEF Read
  <2>3. w.payload = Row(j).payload
    BY DEF NoWork
  <2> HIDE DEF w
  <2> QED
    BY <1>1, <2>2, <2>3 DEF Stay, Loaded
<1>7. ~ (TakeLease(j) \/ Send(j) \/ DatabaseError(j) \/ Crash(j))
  BY <1>1 DEF TakeLease, Send, Answer, Stay, Loaded, DatabaseError, Crash, Stop, Leave
<1>8. ~ (Start(j) \/ Claim(j) \/ List(j) \/ Busy(j) \/ MarkSent(j) \/ MarkRefused(j) \/ Finish(j))
  BY <1>1 DEF Start, Claim, List, Busy, MarkSent, MarkRefused, Finish, Leave, Stay, Give, Loaded
<1>9. Untouched(j) \/ Store(j) \/ Prepare(j) \/ Read(j)
  BY <1>7, <1>8, Untouching DEF RunStep
<1> QED
  BY <1>2, <1>3, <1>4, <1>5, <1>6, <1>9, SendingSteps

\* The message in a row was there, or is stored by its sender.
LEMMA RowMessages ==
  ASSUME TypeInv, [Next]_vars, NEW k \in 1 .. Len(deliveries'),
         deliveries'[k].payload # <<>>
  PROVE  /\ k \in 1 .. Len(deliveries)
         /\ \/ deliveries'[k].payload = deliveries[k].payload
            \/ \E i \in Instances : /\ pc[i] = "store" /\ k = Current(i)
                                    /\ deliveries'[k].payload = work[i].payload
<1>1. k \in 1 .. Len(deliveries)
  BY RowSteps DEF IsNew
<1>2. Erased(deliveries'[k], deliveries[k]) => deliveries'[k].payload = deliveries[k].payload
  BY DEF Erased
<1>3. ASSUME NEW i \in Instances, Writes(i), k = Current(i), Written(i, deliveries'[k])
      PROVE  \/ deliveries'[k].payload = deliveries[k].payload
             \/ pc[i] = "store" /\ deliveries'[k].payload = work[i].payload
  BY <1>3 DEF Writes, Written, Row, Store
<1> QED
  BY <1>1, <1>2, <1>3, RowSteps

\* A delivery gets no notification after the claim that made it.
LEMMA ClaimedShrinks ==
  ASSUME TypeInv, [Next]_vars, NEW k \in 1 .. Len(deliveries)
  PROVE  Claimed(k)' \subseteq Claimed(k)
<1> SUFFICES ASSUME NEW n \in DOMAIN notes', notes'[n].delivery = k
             PROVE  n \in DOMAIN notes /\ notes[n].delivery = k
  BY DEF Claimed
<1>1. Len(deliveries) \in Nat
  BY RowSteps
<1>2. k # 0 /\ ~ (k > Len(deliveries))
  BY <1>1
<1> QED
  BY <1>2, NoteSteps, Zenon DEF NewNote, SameDelivery, InNew

\* Messages carry all that is claimed for their delivery.
RowCovers == \A k \in 1 .. Len(deliveries) :
  deliveries[k].payload # <<>> => Claimed(k) \subseteq deliveries[k].payload[1]
WorkCovers == \A i \in Instances :
  pc[i] \in Loaded => Claimed(Current(i)) \subseteq work[i].payload[1]
MailCovers == \A m \in mails : m.key \in 1 .. Len(deliveries) /\ Claimed(m.key) \subseteq m.notes
SentHasMail == \A i \in Instances :
  pc[i] = "mark" /\ work[i].outcome = "sent" => \E m \in mails : m.key = Current(i)

Covered == RowCovers /\ WorkCovers /\ MailCovers /\ SentHasMail /\ EmailedWasAccepted

LEMMA SentSteps ==
  ASSUME TypeInv, [Next]_vars, SentHasMail, NEW j \in Instances,
         pc'[j] = "mark", work'[j].outcome = "sent"
  PROVE  \E m \in mails' : m.key = Current(j)'
<1>1. /\ pc \in [Instances -> Stages] /\ work \in [Instances -> Works]
  BY DEF TypeInv, RunTyped
<1>2. Current(j)' = Current(j)
  BY SendingSteps DEF Sending
<1>3. CASE Untouched(j)
  BY <1>2, <1>3, MailSteps DEF Untouched, SentHasMail
<1>4. CASE Send(j)
  <2>1. ASSUME NEW outcome, Answer(j, outcome)
        PROVE  outcome = "sent"
    BY <1>1, <2>1 DEF Answer, Works
  <2>2. Accept(j)
    BY <1>4, <2>1 DEF Send
  <2>3. (\E m \in mails : m.key = Current(j)) \/ mails' = mails \cup {NewMail(j)}
    BY <2>2 DEF Accept, NewMail
  <2>4. NewMail(j).key = Current(j)
    BY DEF NewMail
  <2>5. mails \subseteq mails'
    BY MailSteps
  <2> QED
    BY <1>2, <2>3, <2>4, <2>5
<1>5. ~ (Start(j) \/ Claim(j) \/ List(j) \/ Busy(j) \/ MarkSent(j) \/ MarkRefused(j) \/ Finish(j))
  BY <1>1 DEF Start, Claim, List, Busy, MarkSent, MarkRefused, Finish, Leave, Stay, Give
<1>6. ~ (TakeLease(j) \/ Read(j) \/ Prepare(j) \/ Store(j) \/ DatabaseError(j) \/ Crash(j))
  BY <1>1 DEF TakeLease, Read, Prepare, Store, Stay, Give, DatabaseError, Crash, Stop, Leave
<1> QED
  BY <1>3, <1>4, <1>5, <1>6, Untouching DEF RunStep

LEMMA CoverStep ==
  ASSUME TypeInv, Covered, [Next]_vars
  PROVE  Covered'
<1>0. Len(deliveries) \in Nat /\ Len(deliveries') \in Nat /\ Len(deliveries') >= Len(deliveries)
  BY RowSteps
<1>1. ASSUME NEW k \in 1 .. Len(deliveries'), deliveries'[k].payload # <<>>
      PROVE  Claimed(k)' \subseteq deliveries'[k].payload[1]
  <2>1. k \in 1 .. Len(deliveries)
    BY <1>1, RowMessages
  <2>2. Claimed(k)' \subseteq Claimed(k)
    BY <2>1, ClaimedShrinks
  <2>3. CASE deliveries'[k].payload = deliveries[k].payload
    BY <1>1, <2>1, <2>2, <2>3 DEF Covered, RowCovers
  <2>4. CASE \E i \in Instances : /\ pc[i] = "store" /\ k = Current(i)
                                  /\ deliveries'[k].payload = work[i].payload
    BY <2>2, <2>4 DEF Covered, WorkCovers, Loaded
  <2> QED
    BY <1>1, <2>3, <2>4, RowMessages
<1>2. ASSUME NEW j \in Instances, pc'[j] \in Loaded
      PROVE  Claimed(Current(j))' \subseteq work'[j].payload[1]
  <2>1. PICK c : c = Current(j)
    OBVIOUS
  <2>2. Current(j)' = c /\ c \in 1 .. Len(deliveries)
    BY <1>2, <2>1, LoadedSteps
  <2>3. Claimed(c)' \subseteq Claimed(c)
    BY <2>2, ClaimedShrinks
  <2>4. Claimed(c) \subseteq work'[j].payload[1]
    BY <1>2, <2>1, <2>2, LoadedSteps DEF Covered, RowCovers, WorkCovers, Row
  <2>5. Claimed(Current(j))' = Claimed(c)'
    BY <2>2 DEF Claimed
  <2> QED
    BY <2>3, <2>4, <2>5
<1>3. ASSUME NEW m \in mails'
      PROVE  m.key \in 1 .. Len(deliveries') /\ Claimed(m.key)' \subseteq m.notes
  <2>1. m.key \in 1 .. Len(deliveries) /\ Claimed(m.key) \subseteq m.notes
    <3>1. CASE m \in mails
      BY <3>1 DEF Covered, MailCovers
    <3>2. CASE \E i \in Instances : Send(i) /\ m = NewMail(i)
      <4>1. PICK i \in Instances : Send(i) /\ m = NewMail(i)
        BY <3>2
      <4>2. pc[i] = "send" /\ m.key = Current(i) /\ m.notes = work[i].payload[1]
        BY <4>1 DEF Send, NewMail
      <4> QED
        BY <4>2, CurrentFacts DEF Covered, WorkCovers, Loaded, AtDelivery, Sending
    <3> QED
      BY <1>3, <3>1, <3>2, MailSteps
  <2>2. Claimed(m.key)' \subseteq Claimed(m.key)
    BY <2>1, ClaimedShrinks
  <2> QED
    BY <1>0, <2>1, <2>2
<1>4. SentHasMail'
  BY SentSteps DEF Covered, SentHasMail
<1>5. ASSUME NEW n \in DOMAIN notes', notes'[n].emailed
      PROVE  \E m \in mails' : n \in m.notes
  <2>1. mails \subseteq mails'
    BY MailSteps
  <2>2. CASE n \in DOMAIN notes /\ notes[n].emailed
    BY <2>1, <2>2 DEF Covered, EmailedWasAccepted
  <2>3. CASE \E i \in Instances : MarkSent(i) /\ n \in Claimed(Current(i))
    <3>1. PICK i \in Instances : MarkSent(i) /\ n \in Claimed(Current(i))
      BY <2>3
    <3>2. PICK m \in mails : m.key = Current(i)
      BY <3>1 DEF Covered, SentHasMail, MarkSent
    <3>3. n \in m.notes
      BY <3>1, <3>2 DEF Covered, MailCovers
    <3> QED
      BY <2>1, <3>2, <3>3
  <2> QED
    BY <1>5, <2>2, <2>3, NoteSteps DEF NewNote, SameMark
<1> QED
  BY <1>1, <1>2, <1>3, <1>4, <1>5 DEF Covered, RowCovers, WorkCovers, MailCovers, EmailedWasAccepted

\* A notification marked e-mailed is in a message the provider accepted, though
\* the message is rendered, stored and sent in steps of their own and each can
\* be repeated by another run: a message carries all that its delivery claimed.
THEOREM EmailedMeansAccepted == Spec => []EmailedWasAccepted
<1>1. Init => TypeInv /\ Covered
  <2>1. Init => Covered
    BY DEF Init, Covered, RowCovers, WorkCovers, MailCovers, SentHasMail, EmailedWasAccepted, Loaded
  <2> QED
    BY <2>1, InitTyped DEF TypeInv
<1>2. TypeInv /\ Covered /\ [Next]_vars => TypeInv' /\ Covered'
  BY TypeStep, CoverStep DEF TypeInv
<1>3. Covered => EmailedWasAccepted
  BY DEF Covered
<1> QED
  BY <1>1, <1>2, <1>3, PTL DEF Spec


-----------------------------------------------------------------------------
(***************************************************************************)
(* One message per delivery, one delivery per notification.                *)
(***************************************************************************)
\* Past the check of the age.
Ready == {"prepare", "store", "send"}

Young == \A i \in Instances :
  pc[i] \in Ready => started[i] - Row(i).createdAt <= DeliveryMaxAge
MailTimes == \A m \in mails :
  m.key \in 1 .. Len(deliveries) /\ deliveries[m.key].createdAt <= m.at
OneKey == \A m1, m2 \in mails : m1.key = m2.key => m1 = m2

\* The provider knows a key as long as its delivery can be sent, until some run
\* has lasted too long for that.
Timely == Young /\ MailTimes /\ (DeliveryMaxAge + longest < Window => OneKey)

LEMMA ReadySteps ==
  ASSUME TypeInv, [Next]_vars, NEW j \in Instances, pc'[j] \in Ready
  PROVE  pc[j] \in Ready \/ ~Expired(j)
<1>1. /\ pc \in [Instances -> Stages] /\ work \in [Instances -> Works]
  BY DEF TypeInv, RunTyped
<1>2. CASE Untouched(j)
  BY <1>2 DEF Untouched
<1>3. CASE Read(j)
  <2>1. ASSUME NEW outcome, NEW reason, NEW error, Give(j, outcome, reason, error)
        PROVE  FALSE
    BY <1>1, <2>1 DEF Give, Stay, Ready
  <2> QED
    BY <1>3, <2>1, Zenon DEF Read
<1>4. CASE Prepare(j) \/ Store(j)
  BY <1>4 DEF Prepare, Store, Ready
<1>5. ~ (TakeLease(j) \/ Send(j) \/ DatabaseError(j) \/ Crash(j))
  BY <1>1 DEF TakeLease, Send, Answer, Stay, Ready, DatabaseError, Crash, Stop, Leave
<1>6. ~ (Start(j) \/ Claim(j) \/ List(j) \/ Busy(j) \/ MarkSent(j) \/ MarkRefused(j) \/ Finish(j))
  BY <1>1 DEF Start, Claim, List, Busy, MarkSent, MarkRefused, Finish, Leave, Stay, Give, Ready
<1> QED
  BY <1>2, <1>3, <1>4, <1>5, <1>6, Untouching DEF RunStep

LEMMA RowTimeKept ==
  ASSUME TypeInv, [Next]_vars, NEW k \in 1 .. Len(deliveries)
  PROVE  /\ k \in 1 .. Len(deliveries') /\ deliveries'[k].createdAt = deliveries[k].createdAt
         /\ deliveries[k].createdAt \in Int /\ deliveries[k].payload \in Payloads
<1>1. k \in 1 .. Len(deliveries') /\ deliveries'[k].createdAt = deliveries[k].createdAt
  BY RowSteps DEF Erased, Written, Row
<1>2. deliveries[k] \in Rows
  BY ElementOfSeq DEF TypeInv, TablesTyped
<1> QED
  BY <1>1, <1>2 DEF Rows

\* What fits a window with the longer run fits it with the shorter.
LEMMA ShorterRun ==
  ASSUME NEW age \in Int, NEW run \in Int, NEW later \in Int, NEW window \in Int, run <= later
  PROVE  /\ age + later < window => age + run < window
         /\ age + 2 * later < window => age + 2 * run < window
OBVIOUS

LEMMA TimelyStep ==
  ASSUME TypeInv, RunTimes, RowTimes, Timely, [Next]_vars
  PROVE  Timely'
<1>0. /\ now \in Nat /\ DeliveryMaxAge \in Nat /\ Window \in Nat
      /\ longest \in Nat /\ longest' \in Nat /\ longest <= longest'
  BY Numbers, Clock DEF RunTimes
<1>1. ASSUME NEW j \in Instances, pc'[j] \in Ready
      PROVE  started'[j] - Row(j)'.createdAt <= DeliveryMaxAge
  <2>1. /\ Current(j)' = Current(j) /\ Current(j) \in 1 .. Len(deliveries)
        /\ started'[j] = started[j]
    BY <1>1, SendingSteps DEF Ready, Sending
  <2>2. Row(j)' = deliveries'[Current(j)] /\ Row(j) = deliveries[Current(j)]
    BY <2>1 DEF Row
  <2>3. PICK c \in 1 .. Len(deliveries) : c = Current(j)
    BY <2>1
  <2>4. Row(j)'.createdAt = Row(j).createdAt /\ Row(j).createdAt \in Int
    BY <2>2, <2>3, RowTimeKept
  <2>5. started[j] \in Nat
    BY DEF TypeInv, RunTyped
  <2>6. started[j] - Row(j).createdAt <= DeliveryMaxAge
    BY <1>0, <1>1, <2>4, <2>5, ReadySteps DEF Timely, Young, Expired
  <2> QED
    BY <2>1, <2>4, <2>6
<1>2. ASSUME NEW i \in Instances, Send(i)
      PROVE  /\ Current(i) \in 1 .. Len(deliveries)
             /\ deliveries[Current(i)].createdAt <= now
             /\ DeliveryMaxAge + longest < Window =>
                  \A e \in mails : e.key = Current(i) => now - e.at < Window
  <2>1. pc[i] = "send" /\ pc[i] \in AtDelivery
    BY <1>2 DEF Send, AtDelivery, Sending
  <2>2. PICK c \in 1 .. Len(deliveries) : c = Current(i) /\ Row(i) = deliveries[c]
    BY <2>1, CurrentFacts
  <2>3. started[i] \in Nat /\ now <= started[i] + longest
    BY <2>1 DEF RunTimes, TypeInv, RunTyped
  <2>4. deliveries[c].createdAt \in Int /\ deliveries[c].createdAt <= now
    BY RowTimeKept DEF RowTimes
  <2>5. started[i] - deliveries[c].createdAt <= DeliveryMaxAge
    BY <2>1, <2>2 DEF Timely, Young, Ready
  <2>6. ASSUME DeliveryMaxAge + longest < Window, NEW e \in mails, e.key = c
        PROVE  now - e.at < Window
    <3>1. deliveries[c].createdAt <= e.at /\ e.at \in Nat
      BY <2>6 DEF Timely, MailTimes, TypeInv, TablesTyped
    <3> QED
      BY <1>0, <2>3, <2>4, <2>5, <2>6, <3>1
  <2> QED
    BY <2>2, <2>4, <2>6
<1>3. ASSUME NEW m \in mails'
      PROVE  m.key \in 1 .. Len(deliveries') /\ deliveries'[m.key].createdAt <= m.at
  <2>1. m.key \in 1 .. Len(deliveries) /\ deliveries[m.key].createdAt <= m.at
    <3>1. CASE m \in mails
      BY <3>1 DEF Timely, MailTimes
    <3>2. ASSUME NEW i \in Instances, Send(i), m = NewMail(i)
          PROVE  m.key \in 1 .. Len(deliveries) /\ deliveries[m.key].createdAt <= m.at
      <4>1. m.key = Current(i) /\ m.at = now
        BY <3>2 DEF NewMail
      <4> QED
        BY <1>2, <3>2, <4>1
    <3> QED
      BY <1>3, <3>1, <3>2, MailSteps
  <2> QED
    BY <2>1, RowTimeKept
<1>4. ASSUME DeliveryMaxAge + longest' < Window,
             NEW m1 \in mails', NEW m2 \in mails', m1.key = m2.key
      PROVE  m1 = m2
  <2>0. DeliveryMaxAge + longest < Window
    <3>1. PICK age \in Int, run \in Int, later \in Int, window \in Int :
            age = DeliveryMaxAge /\ run = longest /\ later = longest' /\ window = Window
      BY <1>0
    <3>2. run <= later /\ age + later < window
      BY <1>0, <1>4, <3>1
    <3>3. age + run < window
      BY <3>2, ShorterRun
    <3> QED
      BY <3>1, <3>3
  <2>1. CASE m1 \in mails /\ m2 \in mails
    BY <1>4, <2>0, <2>1 DEF Timely, OneKey
  <2>2. ASSUME NEW i \in Instances, Send(i), mails' = mails \cup {NewMail(i)},
               ~ \E e \in mails : e.key = Current(i) /\ now - e.at < Window
        PROVE  m1 = m2
    <3>1. \A e \in mails : e.key # Current(i)
      BY <1>2, <2>0, <2>2
    <3>2. NewMail(i).key = Current(i)
      BY DEF NewMail
    <3>3. m1 \in mails \/ m1 = NewMail(i)
      BY <2>2
    <3>4. m2 \in mails \/ m2 = NewMail(i)
      BY <2>2
    <3> QED
      BY <1>4, <2>1, <3>1, <3>2, <3>3, <3>4
  <2> QED
    BY <2>1, <2>2, MailSteps
<1> QED
  BY <1>1, <1>3, <1>4 DEF Timely, Young, MailTimes, OneKey

\* The delivery each notification was put in; it is remembered here after the
\* notification is deleted with its account.
Owned(own) ==
  /\ own \in [Nat -> Nat]
  /\ \A n \in Nat : n > Len(made) => own[n] = 0
  /\ \A n \in DOMAIN notes : own[n] = notes[n].delivery
  /\ \A k \in 1 .. Len(deliveries) :
       deliveries[k].payload # <<>> => \A n \in deliveries[k].payload[1] : own[n] = k
  /\ \A i \in Instances :
       pc[i] \in Loaded => \A n \in work[i].payload[1] : own[n] = Current(i)
  /\ \A m \in mails : \A n \in m.notes : own[n] = m.key

LEMMA Message ==
  ASSUME NEW p \in Payloads, p # <<>>
  PROVE  p[1] \in SUBSET Nat
<1>1. PICK S \in SUBSET Nat : p = <<S>>
  BY DEF Payloads
<1> QED
  BY <1>1

LEMMA MadeGrows ==
  ASSUME TypeInv, [Next]_vars
  PROVE  Len(made) \in Nat /\ Len(made') \in Nat /\ Len(made') >= Len(made)
<1>1. made \in Seq([user : Users, at : Nat]) /\ Len(made) \in Nat
  BY LenProperties DEF TypeInv, TablesTyped
<1>2. ASSUME NEW u \in Users, Notify(u)
      PROVE  Len(made') = Len(made) + 1
  <2> DEFINE added == [user |-> u, at |-> now]
  <2>1. added \in [user : Users, at : Nat]
    BY DEF TypeInv, TablesTyped
  <2>2. made' = Append(made, added)
    BY <1>2 DEF Notify
  <2> HIDE DEF added
  <2> QED
    BY <1>1, <2>1, <2>2, AppendProperties
<1>3. made' = made \/ \E u \in Users : Notify(u)
  BY UserFrames, RunFrames DEF Next, vars
<1> QED
  BY <1>1, <1>2, <1>3

LEMMA OwnedStep ==
  ASSUME TypeInv, MailTimes, NEW own, Owned(own), [Next]_vars
  PROVE  \E later : Owned(later)'
<1> DEFINE later == [n \in Nat |-> IF n \in DOMAIN notes' THEN notes'[n].delivery ELSE own[n]]
<1>1. /\ Len(made) \in Nat /\ Len(made') \in Nat /\ Len(made') >= Len(made)
      /\ Len(deliveries) \in Nat /\ own \in [Nat -> Nat]
  BY MadeGrows, RowSteps DEF Owned
<1>2. DOMAIN notes' \subseteq 1 .. Len(made') /\ \A n \in DOMAIN notes' : notes'[n].delivery \in Nat
  <2>1. TypeInv'
    BY TypeStep
  <2>2. DOMAIN notes' \subseteq 1 .. Len(made') /\ notes' \in [DOMAIN notes' -> Notes]
    BY <2>1 DEF TypeInv, TablesTyped
  <2>3. \A n \in DOMAIN notes' : notes'[n] \in Notes
    BY <2>2
  <2> QED
    BY <2>2, <2>3 DEF Notes
<1>3. DOMAIN notes' \subseteq Nat
  BY <1>1, <1>2
<1>4. later \in [Nat -> Nat] /\ \A n \in DOMAIN notes' : later[n] = notes'[n].delivery
  BY <1>1, <1>2, <1>3
<1>5. ASSUME NEW n \in Nat, own[n] # 0
      PROVE  later[n] = own[n]
  <2>1. CASE n \notin DOMAIN notes'
    BY <2>1
  <2>2. CASE n \in DOMAIN notes'
    <3>1. n # Len(made) + 1
      BY <1>1, <1>5 DEF Owned
    <3>2. n \in DOMAIN notes /\ notes[n].delivery # 0
      BY <1>5, <2>2, <3>1, NoteSteps DEF Owned, NewNote
    <3>3. notes'[n].delivery = notes[n].delivery
      BY <2>2, <3>2, NoteSteps DEF NewNote, SameDelivery, Open
    <3> QED
      BY <1>4, <2>2, <3>2, <3>3 DEF Owned
  <2> QED
    BY <2>1, <2>2
<1>6. ASSUME NEW n \in Nat, n > Len(made')
      PROVE  later[n] = 0
  <2>0. ASSUME NEW a \in Nat, NEW b \in Nat, NEW m \in Nat, b >= a, m > b
        PROVE  m \notin 1 .. b /\ m > a
    BY <2>0
  <2>1. n \notin 1 .. Len(made') /\ n > Len(made)
    BY <1>1, <1>6, <2>0
  <2>2. n \notin DOMAIN notes'
    BY <1>2, <2>1
  <2>3. own[n] = 0
    BY <2>1 DEF Owned
  <2> QED
    BY <2>2, <2>3
<1>z. \A k \in 1 .. Len(deliveries) : k # 0
  BY <1>1
<1> HIDE DEF later
<1>7. ASSUME NEW k \in 1 .. Len(deliveries'), deliveries'[k].payload # <<>>,
             NEW n \in deliveries'[k].payload[1]
      PROVE  later[n] = k
  <2>1. k \in 1 .. Len(deliveries)
    BY <1>7, RowMessages
  <2>2. n \in Nat /\ own[n] = k
    <3>1. CASE deliveries'[k].payload = deliveries[k].payload
      <4>1. deliveries[k].payload[1] \in SUBSET Nat
        BY <1>7, <2>1, <3>1, RowTimeKept, Message
      <4> QED
        BY <1>7, <2>1, <3>1, <4>1 DEF Owned
    <3>2. ASSUME NEW i \in Instances, pc[i] = "store", k = Current(i),
                 deliveries'[k].payload = work[i].payload
          PROVE  n \in Nat /\ own[n] = k
      <4>1. work[i].payload \in Payloads /\ work[i].payload # <<>>
        BY <3>2 DEF TypeInv, RunTyped, RunHolds, Works
      <4>2. work[i].payload[1] \in SUBSET Nat
        BY <4>1, Message
      <4> QED
        BY <1>7, <3>2, <4>2 DEF Owned, Loaded
    <3> QED
      BY <1>7, <3>1, <3>2, RowMessages
  <2>3. k # 0
    BY <1>1, <2>1
  <2> QED
    BY <1>5, <2>2, <2>3
<1>8. ASSUME NEW j \in Instances, pc'[j] \in Loaded, NEW n \in work'[j].payload[1]
      PROVE  later[n] = Current(j)'
  <2>1. Current(j)' = Current(j) /\ Current(j) \in 1 .. Len(deliveries)
    BY <1>8, LoadedSteps
  <2>2. n \in Nat /\ own[n] = Current(j)
    <3>1. CASE pc[j] \in Loaded /\ work'[j].payload = work[j].payload
      <4>1. work[j].payload \in Payloads /\ work[j].payload # <<>>
        BY <3>1 DEF TypeInv, RunTyped, RunHolds, Works, Loaded
      <4>2. work[j].payload[1] \in SUBSET Nat
        BY <4>1, Message
      <4> QED
        BY <1>8, <3>1, <4>2 DEF Owned
    <3>2. CASE work'[j].payload = <<Claimed(Current(j))>>
      <4>1. n \in DOMAIN notes /\ notes[n].delivery = Current(j)
        BY <1>8, <3>2 DEF Claimed
      <4>2. n \in Nat
        BY <1>1, <4>1 DEF TypeInv, TablesTyped
      <4> QED
        BY <4>1, <4>2 DEF Owned
    <3>3. CASE Row(j).payload # <<>> /\ work'[j].payload = Row(j).payload
      <4>1. PICK c \in 1 .. Len(deliveries) : c = Current(j) /\ Row(j) = deliveries[c]
        BY <2>1 DEF Row
      <4>2. deliveries[c].payload[1] \in SUBSET Nat
        BY <3>3, <4>1, RowTimeKept, Message
      <4>3. \A m \in Nat : m \in deliveries[c].payload[1] => own[m] = c
        BY <3>3, <4>1 DEF Owned
      <4>4. n \in deliveries[c].payload[1]
        BY <1>8, <3>3, <4>1
      <4> QED
        BY <4>1, <4>2, <4>3, <4>4
    <3>4. \/ pc[j] \in Loaded /\ work'[j].payload = work[j].payload
          \/ work'[j].payload = <<Claimed(Current(j))>>
          \/ Row(j).payload # <<>> /\ work'[j].payload = Row(j).payload
      BY <1>8, LoadedSteps
    <3> QED
      BY <3>1, <3>2, <3>3, <3>4
  <2>3. Current(j) # 0
    BY <1>1, <2>1
  <2> QED
    BY <1>5, <2>1, <2>2, <2>3
<1>9. ASSUME NEW m \in mails', NEW n \in m.notes
      PROVE  later[n] = m.key
  <2>1. CASE m \in mails
    <3>1. n \in Nat /\ own[n] = m.key /\ m.key \in 1 .. Len(deliveries)
      BY <1>9, <2>1 DEF Owned, MailTimes, TypeInv, TablesTyped
    <3>2. m.key # 0
      BY <1>z, <3>1, Zenon
    <3> QED
      BY <1>5, <3>1, <3>2
  <2>2. ASSUME NEW i \in Instances, Send(i), m = NewMail(i)
        PROVE  later[n] = m.key
    <3>1. pc[i] = "send" /\ pc[i] \in AtDelivery /\ m.key = Current(i) /\ m.notes = work[i].payload[1]
      BY <2>2 DEF Send, AtDelivery, Sending, NewMail
    <3>2. work[i].payload \in Payloads /\ work[i].payload # <<>>
      BY <3>1 DEF TypeInv, RunTyped, RunHolds, Works
    <3>3. n \in Nat /\ own[n] = m.key
      BY <1>9, <3>1, <3>2, Message DEF Owned, Loaded
    <3>4. m.key # 0
      <4>1. Current(i) \in 1 .. Len(deliveries)
        BY <3>1, CurrentFacts
      <4> QED
        BY <1>z, <3>1, <4>1, Zenon
    <3> QED
      BY <1>5, <3>3, <3>4
  <2> QED
    BY <1>9, <2>1, <2>2, MailSteps
<1>10. PICK o : o = later
  OBVIOUS
<1>11. Owned(o)'
  BY <1>4, <1>6, <1>7, <1>8, <1>9, <1>10 DEF Owned
<1> QED
  BY <1>11

\* As long as the age at which deliver gives up and the longest run together
\* stay below the time the provider knows a key, no notification is in two
\* messages, whatever is retried after lost answers, errors and crashes: a
\* delivery is then accepted once, and a notification stays in the delivery
\* that claimed it.
THEOREM EmailedOnce == Spec => []NeverEmailedTwice
<1> DEFINE Assigned == \E own : Owned(own)
           IInv == TypeInv /\ RunTimes /\ RowTimes /\ Timely /\ Assigned
<1>1. Init => IInv
  <2>1. Init => Timely
    BY DEF Init, Timely, Young, MailTimes, OneKey, Ready
  <2>2. Init => Owned([n \in Nat |-> 0])
    BY DEF Init, Owned, Loaded
  <2> QED
    BY <2>1, <2>2, InitTimes, InitTyped DEF TypeInv
<1>2. IInv /\ [Next]_vars => IInv'
  <2>1. TypeInv /\ RunTimes /\ RowTimes /\ Timely /\ [Next]_vars =>
          TypeInv' /\ RunTimes' /\ RowTimes' /\ Timely'
    BY TypeStep, TimeStep, TimelyStep DEF TypeInv
  <2>2. TypeInv /\ Timely /\ Assigned /\ [Next]_vars => Assigned'
    BY OwnedStep DEF TypeInv, Timely
  <2> QED
    BY <2>1, <2>2
<1>3. IInv => NeverEmailedTwice
  BY DEF Owned, Timely, OneKey, NeverEmailedTwice
<1> HIDE DEF IInv
<1> QED
  BY <1>1, <1>2, <1>3, PTL DEF Spec

-----------------------------------------------------------------------------
(***************************************************************************)
(* The confirmed address.                                                  *)
(***************************************************************************)
\* What the statements on an account make of it.
OptedIn(a, on, at, link) == [a EXCEPT !.enabled = on, !.consentAt = at, !.confirmToken = link]
OptedOut(a, on, at) == [a EXCEPT !.enabled = on, !.consentAt = at]
Answered(a, yes, link) == [a EXCEPT !.verified = yes, !.confirmToken = link, !.proven = yes]
Disabled(a, d) == [a EXCEPT !.disabled = d]
Closed(a, there) == [a EXCEPT !.exists = there]
Asked(a, at) == [a EXCEPT !.confirmSentAt = at]

\* It stays an account, verified and proven as before.
Stays(b, a) == b \in Account /\ b.verified = a.verified /\ b.proven = a.proven

LEMMA AccountFields ==
  ASSUME NEW a \in Account, NEW x \in BOOLEAN, NEW y \in BOOLEAN, NEW at \in Times
  PROVE  /\ Stays(OptedIn(a, x, at, y), a)
         /\ Stays(OptedOut(a, x, at), a)
         /\ Answered(a, x, y) \in Account /\ Answered(a, x, y).proven = x
         /\ Stays(Disabled(a, x), a)
         /\ Stays(Closed(a, x), a)
         /\ Stays(Asked(a, at), a)
<1>1. Stays(OptedIn(a, x, at, y), a)
  BY DEF Account, Stays, OptedIn
<1>2. Stays(OptedOut(a, x, at), a)
  BY DEF Account, Stays, OptedOut
<1>3. Answered(a, x, y) \in Account /\ Answered(a, x, y).proven = x
  BY DEF Account, Answered
<1>4. Stays(Disabled(a, x), a)
  BY DEF Account, Stays, Disabled
<1>5. Stays(Closed(a, x), a)
  BY DEF Account, Stays, Closed
<1>6. Stays(Asked(a, at), a)
  BY DEF Account, Stays, Asked
<1> QED
  BY <1>1, <1>2, <1>3, <1>4, <1>5, <1>6

AccountsTyped == accounts \in [Users -> Account]

\* The account u after a step: as before, or answered by the owner of the mailbox.
AccountMoves(u) ==
  \/ Stays(accounts'[u], accounts[u])
  \/ accounts'[u] \in Account /\ accounts'[u].proven

\* One account changes.
LEMMA OneAccount ==
  ASSUME AccountsTyped, NEW u \in Users, NEW b, accounts' = [accounts EXCEPT ![u] = b],
         Stays(b, accounts[u])
  PROVE  accounts' \in [Users -> Account] /\ \A v \in Users : AccountMoves(v)
<1>1. \A v \in Users : accounts[v] \in Account /\ accounts'[v] = IF v = u THEN b ELSE accounts[v]
  BY DEF AccountsTyped
<1>2. \A v \in Users : AccountMoves(v)
  BY <1>1, Zenon DEF AccountMoves, Stays
<1>3. accounts' \in [Users -> Account]
  BY DEF AccountsTyped, Stays
<1> QED
  BY <1>2, <1>3

LEMMA AccountSteps ==
  ASSUME TypeInv, AccountsTyped, [Next]_vars
  PROVE  accounts' \in [Users -> Account] /\ \A u \in Users : AccountMoves(u)
<1>1. CASE accounts' = accounts
  BY <1>1, Zenon DEF AccountsTyped, AccountMoves, Stays
<1>2. now \in Times /\ Never \in Times
  BY DEF TypeInv, TablesTyped, Times
<1>3. PICK yes \in BOOLEAN : yes = TRUE
  BY Zenon
<1>4. PICK no \in BOOLEAN : no = FALSE
  BY Zenon
<1>5. ASSUME NEW u \in Users
      PROVE  accounts[u] \in Account
  BY <1>5 DEF AccountsTyped
<1>6. ASSUME NEW u \in Users, OptIn(u)
      PROVE  accounts' \in [Users -> Account] /\ \A v \in Users : AccountMoves(v)
  <2>1. PICK link \in BOOLEAN : link = (accounts[u].confirmToken \/ ~accounts[u].verified)
    BY Zenon
  <2>2. accounts' = [accounts EXCEPT ![u] = OptedIn(accounts[u], yes, now, link)]
    <3>1. accounts' = [accounts EXCEPT ![u].enabled = TRUE, ![u].consentAt = now,
                                  ![u].confirmToken = accounts[u].confirmToken \/ ~accounts[u].verified]
      BY <1>6, <1>5 DEF OptIn, AccountsTyped, Account
    <3> QED
      BY <3>1, <2>1, <1>3, <1>5 DEF OptedIn, AccountsTyped, Account
  <2> QED
    BY <1>2, <1>5, <2>2, AccountFields, OneAccount
<1>7. ASSUME NEW u \in Users, OptOut(u)
      PROVE  accounts' \in [Users -> Account] /\ \A v \in Users : AccountMoves(v)
  <2>1. accounts' = [accounts EXCEPT ![u] = OptedOut(accounts[u], no, Never)]
    BY <1>4, <1>5, <1>7 DEF OptOut, OptedOut, AccountsTyped, Account
  <2> QED
    BY <1>2, <1>5, <2>1, AccountFields, OneAccount
<1>8. ASSUME NEW u \in Users, Confirm(u)
      PROVE  accounts' \in [Users -> Account] /\ \A v \in Users : AccountMoves(v)
  <2>1. accounts' = [accounts EXCEPT ![u] = Answered(accounts[u], yes, no)]
    BY <1>3, <1>4, <1>5, <1>8 DEF Confirm, Answered, AccountsTyped, Account
  <2>2. Answered(accounts[u], yes, no) \in Account /\ Answered(accounts[u], yes, no).proven = yes
    BY <1>2, <1>5, AccountFields
  <2>3. \A v \in Users : accounts'[v] = IF v = u THEN Answered(accounts[u], yes, no) ELSE accounts[v]
    BY <2>1 DEF AccountsTyped
  <2>4. ASSUME NEW v \in Users PROVE AccountMoves(v)
    BY <1>3, <1>5, <2>2, <2>3, Zenon DEF AccountMoves, Stays
  <2>5. accounts' \in [Users -> Account]
    BY <2>1, <2>2 DEF AccountsTyped
  <2> QED
    BY <2>4, <2>5
<1>9. ASSUME NEW u \in Users, NEW d \in BOOLEAN, SetDisabled(u, d)
      PROVE  accounts' \in [Users -> Account] /\ \A v \in Users : AccountMoves(v)
  <2>1. accounts' = [accounts EXCEPT ![u] = Disabled(accounts[u], d)]
    BY <1>5, <1>9 DEF SetDisabled, Disabled, AccountsTyped, Account
  <2> QED
    BY <1>2, <1>5, <2>1, AccountFields, OneAccount
<1>10. ASSUME NEW u \in Users, Erase(u)
       PROVE  accounts' \in [Users -> Account] /\ \A v \in Users : AccountMoves(v)
  <2>1. accounts' = [accounts EXCEPT ![u] = Closed(accounts[u], no)]
    <3>1. accounts' = [accounts EXCEPT ![u].exists = FALSE]
      BY <1>10, Zenon DEF Erase
    <3> QED
      BY <1>4, <1>5, <3>1 DEF Closed, AccountsTyped, Account
  <2> QED
    BY <1>2, <1>5, <2>1, AccountFields, OneAccount
<1>11. ASSUME NEW i \in Instances, Claim(i)
       PROVE  accounts' \in [Users -> Account] /\ \A v \in Users : AccountMoves(v)
  <2>1. started[i] \in Times
    BY DEF TypeInv, RunTyped, Times
  <2>2. accounts' = [u \in Users |-> IF u \in Confirming(started[i])
                                     THEN Asked(accounts[u], started[i]) ELSE accounts[u]]
    BY <1>11, Zenon DEF Claim, Confirming, Asked
  <2>3. ASSUME NEW u \in Users
        PROVE  Stays(accounts'[u], accounts[u])
    <3>1. Stays(Asked(accounts[u], started[i]), accounts[u])
      BY <1>5, <2>1, AccountFields
    <3>2. accounts'[u] = Asked(accounts[u], started[i]) \/ accounts'[u] = accounts[u]
      BY <2>2
    <3> QED
      BY <1>5, <3>1, <3>2, Zenon DEF Stays
  <2> QED
    BY <2>2, <2>3 DEF AccountMoves, Stays
<1>e. ASSUME NEW u \in Users, Notify(u) \/ EraseCancel(u) \/ EraseBlank(u) \/ EraseAborts(u)
      PROVE  accounts' = accounts
  BY <1>e DEF Notify, EraseCancel, EraseBlank, EraseAborts
<1>12. \/ accounts' = accounts
       \/ \E u \in Users : \/ OptIn(u) \/ OptOut(u) \/ Confirm(u) \/ Erase(u)
                           \/ \E d \in BOOLEAN : SetDisabled(u, d)
       \/ \E i \in Instances : Claim(i)
  BY <1>e DEF Next, AccountStep, RunStep, vars, Tick, Start, List, TakeLease, Busy, Read,
     Prepare, Store, Send, MarkSent, MarkRefused, Finish, DatabaseError, Crash
<1> QED
  BY <1>1, <1>6, <1>7, <1>8, <1>9, <1>10, <1>11, <1>12, Zenon

\* Only the owner of the mailbox verifies an account, and only verified ones are
\* sent digests, also by a run that read the account before it changed.
ProvenInv ==
  /\ AccountsTyped
  /\ \A u \in Users : accounts[u].verified => accounts[u].proven
  /\ \A i \in Instances :
       pc[i] \in Ready => /\ work[i].to \in Users
                          /\ work[i].kind = "digest" => accounts[work[i].to].proven
  /\ \A m \in mails : m.to \in Users /\ (m.kind = "digest" => accounts[m.to].proven)

\* Who a message at hand is for was read from the row, and checked.
LEMMA ReadyFor ==
  ASSUME TypeInv, AccountsTyped, [Next]_vars, NEW j \in Instances, pc'[j] \in Ready
  PROVE  \/ pc[j] \in Ready /\ work'[j].to = work[j].to /\ work'[j].kind = work[j].kind
         \/ /\ work'[j].to \in Users
            /\ work'[j].kind = "digest" => accounts[work'[j].to].verified
<1>1. /\ pc \in [Instances -> Stages] /\ work \in [Instances -> Works]
  BY DEF TypeInv, RunTyped
<1>2. CASE Untouched(j)
  BY <1>2 DEF Untouched
<1>3. CASE Read(j)
  <2> DEFINE w == [NoWork EXCEPT !.kind = Row(j).kind, !.attempts = Row(j).attempts,
                                 !.payload = Row(j).payload, !.to = Row(j).user]
             a == accounts[Row(j).user]
  <2>1. ASSUME NEW outcome, NEW reason, NEW error, Give(j, outcome, reason, error)
        PROVE  FALSE
    BY <1>1, <2>1 DEF Give, Stay, Ready
  <2>2. /\ work' = [work EXCEPT ![j] = w] /\ Row(j).user # Nobody
        /\ ~ Stale(Row(j).kind, a)
    BY <1>3, <2>1, Zenon DEF Read
  <2>3. w.to = Row(j).user /\ w.kind = Row(j).kind
    BY DEF NoWork
  <2>4. work'[j].to = Row(j).user /\ work'[j].kind = Row(j).kind
    BY <1>1, <2>2, <2>3
  <2>5. Row(j) \in Rows
    BY <1>3, CurrentFacts DEF Read, AtDelivery, Sending
  <2>6. Row(j).user \in Users
    BY <2>2, <2>5 DEF Rows, Owner
  <2>7. Row(j).kind = "digest" => a.verified
    BY <2>2 DEF Stale
  <2> HIDE DEF w
  <2> QED
    BY <2>4, <2>6, <2>7
<1>4. CASE Prepare(j) \/ Store(j)
  <2>1. pc[j] \in Ready
    BY <1>4 DEF Prepare, Store, Ready
  <2>2. work' = work \/ work' = [work EXCEPT ![j].payload = <<Claimed(Current(j))>>]
    BY <1>1, <1>4 DEF Prepare, Store, Give, Stay, Ready
  <2>3. work'[j].to = work[j].to /\ work'[j].kind = work[j].kind
    BY <1>1, <2>2 DEF Works
  <2> QED
    BY <2>1, <2>3
<1>5. ~ (TakeLease(j) \/ Send(j) \/ DatabaseError(j) \/ Crash(j))
  BY <1>1 DEF TakeLease, Send, Answer, Stay, Ready, DatabaseError, Crash, Stop, Leave
<1>6. ~ (Start(j) \/ Claim(j) \/ List(j) \/ Busy(j) \/ MarkSent(j) \/ MarkRefused(j) \/ Finish(j))
  BY <1>1 DEF Start, Claim, List, Busy, MarkSent, MarkRefused, Finish, Leave, Stay, Give, Ready
<1> QED
  BY <1>2, <1>3, <1>4, <1>5, <1>6, Untouching DEF RunStep

LEMMA ProvenStep ==
  ASSUME TypeInv, ProvenInv, [Next]_vars
  PROVE  ProvenInv'
<1>0. AccountsTyped
  BY DEF ProvenInv
<1>1. accounts' \in [Users -> Account] /\ \A u \in Users : AccountMoves(u)
  BY <1>0, AccountSteps
<1>4. ASSUME NEW u \in Users, accounts[u].proven
      PROVE  accounts'[u].proven
  BY <1>1, <1>4, Zenon DEF AccountMoves, Stays
<1>5. ASSUME NEW u \in Users, accounts'[u].verified
      PROVE  accounts'[u].proven
  <2>1. CASE Stays(accounts'[u], accounts[u])
    <3>1. accounts[u].verified
      BY <1>5, <2>1, Zenon DEF Stays
    <3>2. accounts[u].proven
      BY <3>1 DEF ProvenInv
    <3> QED
      BY <1>4, <3>2
  <2> QED
    BY <1>1, <2>1 DEF AccountMoves
<1>6. ASSUME NEW j \in Instances, pc'[j] \in Ready
      PROVE  /\ work'[j].to \in Users
             /\ work'[j].kind = "digest" => accounts'[work'[j].to].proven
  <2>1. PICK w : w = work'[j]
    OBVIOUS
  <2>2. w.to \in Users /\ (w.kind = "digest" => accounts[w.to].proven)
    <3>1. CASE pc[j] \in Ready /\ w.to = work[j].to /\ w.kind = work[j].kind
      BY <3>1 DEF ProvenInv
    <3>2. CASE w.to \in Users /\ (w.kind = "digest" => accounts[w.to].verified)
      BY <3>2 DEF ProvenInv
    <3> QED
      BY <1>0, <1>6, <2>1, <3>1, <3>2, ReadyFor
  <2> QED
    BY <1>4, <2>1, <2>2
<1>7. ASSUME NEW m \in mails'
      PROVE  m.to \in Users /\ (m.kind = "digest" => accounts'[m.to].proven)
  <2>1. CASE m \in mails
    BY <1>4, <2>1 DEF ProvenInv
  <2>2. ASSUME NEW i \in Instances, Send(i), m = NewMail(i)
        PROVE  m.to \in Users /\ (m.kind = "digest" => accounts'[m.to].proven)
    <3>1. m.to = work[i].to /\ m.kind = work[i].kind
      BY <2>2 DEF NewMail
    <3>2. pc[i] \in Ready
      BY <2>2 DEF Send, Ready
    <3> QED
      BY <1>4, <3>1, <3>2 DEF ProvenInv
  <2> QED
    BY <1>7, <2>1, <2>2, MailSteps
<1> QED
  BY <1>1, <1>5, <1>6, <1>7 DEF ProvenInv, AccountsTyped

\* Nobody gets a digest before the owner of the mailbox has used the link of a
\* confirmation e-mail: only that verifies an account (email.routes.js confirm),
\* and deliver checks it on the row it reads before it sends (dispatcher.js).
THEOREM DigestsGoToConfirmed == Spec => []DigestOnlyToConfirmed
<1> DEFINE IInv == TypeInv /\ ProvenInv
<1>1. Init => IInv
  <2>1. Init => ProvenInv
    BY AccountsAssumption DEF Init, ProvenInv, AccountsTyped, Ready
  <2> QED
    BY <2>1, InitTyped
<1>2. IInv /\ [Next]_vars => IInv'
  BY TypeStep, ProvenStep
<1>3. IInv => DigestOnlyToConfirmed
  BY DEF ProvenInv, DigestOnlyToConfirmed
<1> HIDE DEF IInv
<1> QED
  BY <1>1, <1>2, <1>3, PTL DEF Spec

-----------------------------------------------------------------------------
(***************************************************************************)
(* The limits.                                                             *)
(***************************************************************************)
\* A row that counts as far as its status goes, or that no account is behind.
Live(d) == d.user = Nobody \/ d.status \in {"sent", "pending"} \/ d.attempts > 0

\* What is being sent is live; it was young enough when its run began; and
\* no row is counted from a time long before it was made.
AtHand == \A i \in Instances : pc[i] \in Sending => Live(Row(i))
MarkYoung == \A i \in Instances :
  pc[i] = "mark" => started[i] - Row(i).createdAt <= DeliveryMaxAge
RowDates == \A k \in 1 .. Len(deliveries) :
  CountedAt(deliveries[k]) >= deliveries[k].createdAt - longest

LEMMA AtHandStep ==
  ASSUME TypeInv, Apart, AtHand, [Next]_vars
  PROVE  AtHand'
<1> SUFFICES ASSUME NEW j \in Instances, pc'[j] \in Sending
             PROVE  Live(Row(j))'
  BY DEF AtHand
<1>1. PICK c \in 1 .. Len(deliveries) : c = Current(j) /\ Current(j)' = c
  BY SendingSteps
<1>2. Row(j)' = deliveries'[c] /\ Row(j) = deliveries[c]
  BY <1>1 DEF Row
<1>3. CASE TakeLease(j)
  <2>1. Written(j, deliveries'[c])
    BY <1>1, <1>3, WriteEffects DEF Writes
  <2> QED
    BY <1>2, <1>3, <2>1 DEF Written, TakeLease, Live
<1>4. CASE pc[j] \in Sending
  <2>1. Live(deliveries[c])
    BY <1>2, <1>4 DEF AtHand
  <2>2. CASE deliveries'[c] = deliveries[c]
    BY <1>2, <2>1, <2>2
  <2>3. CASE Erased(deliveries'[c], deliveries[c])
    BY <1>2, <2>3 DEF Erased, Live
  <2>4. ASSUME NEW i \in Instances, Writes(i), c = Current(i), Written(i, deliveries'[c])
        PROVE  Live(deliveries'[c])
    <3>1. Row(i) = deliveries[c] /\ work[i].attempts \in Nat
      BY <2>4 DEF Row, TypeInv, RunTyped, Works
    <3>2. CASE TakeLease(i) \/ Store(i)
      BY <2>1, <2>4, <3>1, <3>2 DEF Written, SameDates, Live
    <3>3. CASE MarkSent(i)
      BY <2>4, <3>3 DEF Written, Live
    <3>4. CASE MarkRefused(i)
      BY <2>4, <3>1, <3>4 DEF Written, Live
    <3>5. CASE Finish(i)
      <4>1. pc[i] = "finish" /\ i # j
        BY <1>4, <3>5 DEF Finish, Sending
      <4>2. Row(i).attempts # 0
        BY <1>1, <1>4, <2>4, <4>1 DEF Apart, Holds
      <4>3. Row(i).attempts \in Nat
        BY <4>1, CurrentFacts DEF AtDelivery, Rows
      <4>4. deliveries'[c].attempts = Row(i).attempts
        BY <2>4, <3>5 DEF Written, SameDates
      <4> QED
        BY <4>2, <4>3, <4>4 DEF Live
    <3> QED
      BY <2>4, <3>2, <3>3, <3>4, <3>5 DEF Writes
  <2> QED
    BY <1>2, <2>2, <2>3, <2>4, RowSteps
<1> QED
  BY <1>3, <1>4, SendingSteps

LEMMA MarkYoungStep ==
  ASSUME TypeInv, Young, MarkYoung, [Next]_vars
  PROVE  MarkYoung'
<1> SUFFICES ASSUME NEW j \in Instances, pc'[j] = "mark"
             PROVE  started'[j] - Row(j)'.createdAt <= DeliveryMaxAge
  BY DEF MarkYoung
<1>1. PICK c \in 1 .. Len(deliveries) : c = Current(j) /\ Current(j)' = c
  BY SendingSteps DEF Sending
<1>2. /\ Row(j)' = deliveries'[c] /\ Row(j) = deliveries[c] /\ started'[j] = started[j]
      /\ deliveries'[c].createdAt = deliveries[c].createdAt
  BY <1>1, SendingSteps, RowTimeKept DEF Row, Sending
<1>3. pc[j] = "mark" \/ pc[j] \in Ready
  <2>0. /\ pc \in [Instances -> Stages] /\ work \in [Instances -> Works]
    BY DEF TypeInv, RunTyped
  <2>1. CASE Untouched(j)
    BY <2>1 DEF Untouched
  <2>2. CASE Send(j)
    BY <2>2 DEF Send, Ready
  <2>3. ~ (Start(j) \/ Claim(j) \/ List(j) \/ Busy(j) \/ MarkSent(j) \/ MarkRefused(j) \/ Finish(j))
    BY <2>0 DEF Start, Claim, List, Busy, MarkSent, MarkRefused, Finish, Leave, Stay, Give
  <2>4. ~ (TakeLease(j) \/ Store(j) \/ DatabaseError(j) \/ Crash(j))
    BY <2>0 DEF TakeLease, Store, Stay, DatabaseError, Crash, Stop, Leave
  <2>5. ~ Prepare(j)
    BY <2>0 DEF Prepare, Stay, Give
  <2>6. ~ Read(j)
    <3>1. ASSUME NEW label, label # "mark"
          PROVE  ~ Stay(j, label)
      BY <2>0, <3>1 DEF Stay
    <3>2. ASSUME NEW outcome, NEW reason, NEW error
          PROVE  ~ Give(j, outcome, reason, error)
      BY <3>1 DEF Give
    <3> QED
      BY <3>1, <3>2, Zenon DEF Read
  <2> QED
    BY <2>1, <2>2, <2>3, <2>4, <2>5, <2>6, Untouching DEF RunStep
<1> QED
  BY <1>2, <1>3 DEF Young, MarkYoung

\* Only the answer of the provider moves the time a row is counted from.
LEMMA Counting ==
  ASSUME TypeInv, NEW i \in Instances, Writes(i), NEW d, Written(i, d)
  PROVE  \/ CountedAt(d) = CountedAt(Row(i))
         \/ pc[i] = "mark" /\ CountedAt(d) = started[i]
<1>0. started[i] \in Nat /\ Never = -1
  BY DEF TypeInv, RunTyped, Never
<1>1. CASE TakeLease(i) \/ Store(i) \/ Finish(i)
  BY <1>1 DEF Written, SameDates, CountedAt
<1>2. CASE MarkSent(i)
  <2>1. d.sentAt = started[i] /\ pc[i] = "mark"
    BY <1>2 DEF Written, MarkSent
  <2>2. d.sentAt # Never
    BY <1>0, <2>1
  <2> QED
    BY <2>1, <2>2 DEF CountedAt
<1>3. CASE MarkRefused(i)
  <2>1. d.sentAt = Row(i).sentAt /\ d.lastAttemptAt = started[i] /\ pc[i] = "mark"
    BY <1>3 DEF Written, MarkRefused
  <2>2. d.lastAttemptAt # Never
    BY <1>0, <2>1
  <2> QED
    BY <2>1, <2>2 DEF CountedAt
<1> QED
  BY <1>1, <1>2, <1>3 DEF Writes

LEMMA RowDatesStep ==
  ASSUME TypeInv, RunTimes, RowTimes, RowDates, [Next]_vars
  PROVE  RowDates'
<1> SUFFICES ASSUME NEW k \in 1 .. Len(deliveries')
             PROVE  CountedAt(deliveries'[k]) >= deliveries'[k].createdAt - longest'
  BY DEF RowDates
<1>0. longest \in Nat /\ longest' \in Nat /\ longest <= longest' /\ now \in Nat
  BY Clock DEF RunTimes
<1>c. ASSUME NEW l \in 1 .. Len(deliveries) PROVE CountedAt(deliveries[l]) \in Int
  <2>1. deliveries[l] \in Rows
    BY ElementOfSeq DEF TypeInv, TablesTyped
  <2> QED
    BY <2>1 DEF Rows, CountedAt
<1>1. CASE k \in 1 .. Len(deliveries)
  <2>0. deliveries'[k].createdAt = deliveries[k].createdAt /\ deliveries[k].createdAt \in Int
    BY <1>1, RowTimeKept
  <2>1. CASE CountedAt(deliveries'[k]) = CountedAt(deliveries[k])
    BY <1>0, <1>c, <1>1, <2>0, <2>1 DEF RowDates
  <2>2. Erased(deliveries'[k], deliveries[k]) =>
          CountedAt(deliveries'[k]) = CountedAt(deliveries[k])
    BY DEF Erased, SameDates, CountedAt
  <2>3. ASSUME NEW i \in Instances, pc[i] = "mark", CountedAt(deliveries'[k]) = started[i]
        PROVE  CountedAt(deliveries'[k]) >= deliveries'[k].createdAt - longest'
    <3>1. started[i] \in Nat /\ now <= started[i] + longest /\ deliveries[k].createdAt <= now
      BY <1>1, <2>3 DEF RunTimes, RowTimes, TypeInv, RunTyped
    <3> QED
      BY <1>0, <2>0, <2>3, <3>1
  <2>4. ASSUME NEW i \in Instances, Writes(i), k = Current(i), Written(i, deliveries'[k])
        PROVE  CountedAt(deliveries'[k]) >= deliveries'[k].createdAt - longest'
    BY <2>1, <2>3, <2>4, Counting DEF Row
  <2> QED
    BY <1>1, <2>1, <2>2, <2>4, RowSteps
<1>2. CASE k \notin 1 .. Len(deliveries)
  <2>1. k > Len(deliveries)
    BY <1>2, RowSteps
  <2>2. PICK i \in Instances : IsNew(deliveries'[k], started[i])
    BY <2>1, RowSteps
  <2>3. CountedAt(deliveries'[k]) = started[i] /\ deliveries'[k].createdAt = started[i]
    BY <2>2 DEF IsNew, CountedAt
  <2>4. started[i] \in Nat
    BY DEF TypeInv, RunTyped
  <2> QED
    BY <1>0, <2>3, <2>4
<1> QED
  BY <1>1, <1>2

Quota == AtHand /\ Young /\ MarkYoung /\ RowDates

LEMMA StillCounted ==
  ASSUME NEW made0 \in Int, NEW from \in Int, NEW counted \in Int, NEW time \in Int,
         NEW age \in Int, NEW run \in Int, NEW window \in Int,
         age + 2 * run < window, from - made0 <= age, time <= from + run,
         counted >= made0 - run
  PROVE  counted > time - window
OBVIOUS

\* Nothing that is there begins to count: what is answered counted already.
LEMMA CountedBefore ==
  ASSUME DeliveryMaxAge + 2 * longest < Window,
         TypeInv, RunTimes, Quota, [Next]_vars, NEW k \in 1 .. Len(deliveries), k \in Ours'
  PROVE  k \in Ours /\ deliveries'[k].kind = deliveries[k].kind
<1>0. /\ now \in Nat /\ now' \in Nat /\ now <= now'
      /\ DeliveryMaxAge \in Nat /\ longest \in Nat /\ Window \in Nat
  BY Numbers, Clock DEF RunTimes
<1>1. /\ deliveries'[k].user # Nobody
      /\ deliveries'[k].status \in {"sent", "pending"} \/ deliveries'[k].attempts > 0
      /\ CountedAt(deliveries'[k]) > now' - Window
  BY DEF Ours, Counted
<1>2. deliveries[k] \in Rows /\ DOMAIN deliveries = 1 .. Len(deliveries)
  BY ElementOfSeq, LenProperties DEF TypeInv, TablesTyped
<1>3. CountedAt(deliveries[k]) \in Int /\ deliveries[k].createdAt \in Int
  BY <1>2 DEF Rows, CountedAt
<1>4. ASSUME Live(deliveries[k]), deliveries[k].user # Nobody,
             CountedAt(deliveries[k]) > now - Window
      PROVE  k \in Ours
  BY <1>2, <1>4 DEF Ours, Counted, Live
<1>5. CASE deliveries'[k] = deliveries[k]
  BY <1>0, <1>1, <1>3, <1>4, <1>5 DEF Live
<1>6. ~ Erased(deliveries'[k], deliveries[k])
  BY <1>1 DEF Erased
<1>7. ASSUME NEW i \in Instances, Writes(i), k = Current(i), Written(i, deliveries'[k])
      PROVE  k \in Ours /\ deliveries'[k].kind = deliveries[k].kind
  <2>1. Row(i) = deliveries[k]
    BY <1>7 DEF Row
  <2>2. deliveries[k].user # Nobody /\ deliveries'[k].kind = deliveries[k].kind
    BY <1>1, <1>7, <2>1 DEF Written
  <2>3. CASE pc[i] = "mark"
    <3>1. Live(deliveries[k])
      BY <2>1, <2>3 DEF Quota, AtHand, Sending
    <3>2. /\ started[i] - deliveries[k].createdAt <= DeliveryMaxAge
          /\ started[i] \in Nat /\ now <= started[i] + longest
      BY <2>1, <2>3 DEF Quota, MarkYoung, RunTimes, TypeInv, RunTyped
    <3>3. CountedAt(deliveries[k]) >= deliveries[k].createdAt - longest
      BY DEF Quota, RowDates
    <3>4. CountedAt(deliveries[k]) > now - Window
      <4>1. PICK first \in Int, from \in Int, counted \in Int, time \in Int :
              /\ first = deliveries[k].createdAt /\ from = started[i]
              /\ counted = CountedAt(deliveries[k]) /\ time = now
        BY <1>0, <1>3, <3>2
      <4>2. /\ from - first <= DeliveryMaxAge /\ time <= from + longest
            /\ counted >= first - longest
        BY <3>2, <3>3, <4>1
      <4>3. DeliveryMaxAge \in Int /\ longest \in Int /\ Window \in Int
        BY <1>0
      <4>4. counted > time - Window
        BY <4>2, <4>3, StillCounted
      <4> QED
        BY <4>1, <4>4
    <3> QED
      BY <1>4, <2>2, <3>1, <3>4
  <2>4. CASE pc[i] # "mark"
    <3>1. TakeLease(i) \/ Store(i) \/ Finish(i)
      BY <1>7, <2>4 DEF Writes, MarkSent, MarkRefused
    <3>2. CountedAt(deliveries[k]) > now - Window
      <4>1. CountedAt(deliveries'[k]) = CountedAt(deliveries[k])
        BY <1>7, <2>1, <2>4, Counting
      <4> QED
        BY <1>0, <1>1, <1>3, <4>1
    <3>3. deliveries'[k].attempts = deliveries[k].attempts
      BY <1>7, <2>1, <3>1 DEF Written, SameDates
    <3>4. CASE TakeLease(i) \/ Store(i)
      BY <1>1, <1>4, <1>7, <2>1, <2>2, <3>2, <3>3, <3>4 DEF Written, Live
    <3>5. CASE Finish(i)
      <4>1. deliveries'[k].status \in Settled
        BY <1>7, <3>5 DEF Written, Finish, TypeInv, RunHolds
      <4>2. deliveries'[k].attempts > 0
        BY <1>1, <4>1 DEF Settled
      <4> QED
        BY <1>4, <2>2, <3>2, <3>3, <4>2 DEF Live
    <3> QED
      BY <3>1, <3>4, <3>5
  <2> QED
    BY <2>3, <2>4
<1> QED
  BY <1>5, <1>6, <1>7, RowSteps

OursNumbered ==
  /\ Ours \subseteq 1 .. Len(deliveries) /\ IsFiniteSet(Ours) /\ IsFiniteSet(OurConfirms)
  /\ Cardinality(Ours) \in Nat /\ Cardinality(OurConfirms) \in Nat

LEMMA OursFinite == TypeInv => OursNumbered
<1> SUFFICES ASSUME TypeInv PROVE OursNumbered
  OBVIOUS
<1>1. Ours \in SUBSET Counted(now) /\ OurConfirms \in SUBSET Counted(now)
  BY DEF Ours, OurConfirms
<1>2. IsFiniteSet(Counted(now)) /\ Counted(now) \subseteq 1 .. Len(deliveries)
  BY CountedFinite
<1> QED
  BY <1>1, <1>2, FS_Subset, FS_CardinalityType DEF OursNumbered

\* A set within S and b more numbers has at most b elements more than S.
LEMMA UnionBound ==
  ASSUME NEW S, IsFiniteSet(S), NEW a \in Nat, NEW b \in Nat, NEW X,
         X \subseteq S \cup (a + 1 .. a + b)
  PROVE  Cardinality(X) <= Cardinality(S) + b
<1>1. IsFiniteSet(a + 1 .. a + b) /\ Cardinality(a + 1 .. a + b) = b
  <2>1. a + 1 \in Int /\ a + b \in Int
    OBVIOUS
  <2>2. /\ IsFiniteSet(a + 1 .. a + b)
        /\ Cardinality(a + 1 .. a + b)
             = IF a + 1 > a + b THEN 0 ELSE (a + b) - (a + 1) + 1
    BY <2>1, FS_Interval
  <2> QED
    BY <2>2
<1>2. PICK T : T = a + 1 .. a + b
  OBVIOUS
<1>3. /\ IsFiniteSet(S \cup T)
      /\ Cardinality(S \cup T) = Cardinality(S) + Cardinality(T) - Cardinality(S \cap T)
  BY <1>1, <1>2, FS_Union
<1>4. IsFiniteSet(S \cap T)
  BY FS_Subset
<1>5. Cardinality(S) \in Nat /\ Cardinality(T) = b /\ Cardinality(S \cap T) \in Nat
  BY <1>1, <1>2, <1>4, FS_CardinalityType
<1>6. X \in SUBSET (S \cup T)
  BY <1>2
<1>7. IsFiniteSet(X) /\ Cardinality(X) <= Cardinality(S \cup T) /\ Cardinality(X) \in Nat
  BY <1>3, <1>6, FS_Subset, FS_CardinalityType
<1> QED
  BY <1>3, <1>5, <1>7

LEMMA QuotaStep ==
  ASSUME DeliveryMaxAge + 2 * longest < Window,
         TypeInv, TypeInv', RunTimes, Quota, OursWithinLimit, [Next]_vars
  PROVE  OursWithinLimit'
<1>0. /\ Len(deliveries) \in Nat /\ Len(deliveries') \in Nat
      /\ DailyLimit \in Nat /\ ConfirmLimit \in Nat
  BY RowSteps, LimitTypes
<1>6. OursNumbered /\ OursNumbered'
  BY OursFinite, PTL
<1>1. Ours' \subseteq 1 .. Len(deliveries')
  BY <1>6 DEF OursNumbered
<1>2. ASSUME NEW k \in Ours', k \in 1 .. Len(deliveries)
      PROVE  k \in Ours /\ (k \in OurConfirms' => k \in OurConfirms)
  BY <1>2, CountedBefore DEF OurConfirms
<1>3. CASE Len(deliveries') = Len(deliveries)
  <2>1. Ours' \in SUBSET Ours /\ OurConfirms' \in SUBSET OurConfirms
    BY <1>1, <1>2, <1>3 DEF OurConfirms
  <2> QED
    <3>1. /\ Cardinality(Ours') <= Cardinality(Ours)
          /\ Cardinality(OurConfirms') <= Cardinality(OurConfirms)
      BY <1>6, <2>1, FS_Subset DEF OursNumbered
    <3> QED
      BY <1>0, <1>6, <3>1 DEF OursNumbered, OursWithinLimit
<1>4. ASSUME NEW i \in Instances, Claim(i)
      PROVE  OursWithinLimit'
  <2>1. PICK t \in Nat : t = started[i]
    BY DEF TypeInv, RunTyped
  <2>2. PICK c \in Nat, d \in Nat :
          c = Cardinality(Confirming(t)) /\ d = Cardinality(Digests(t))
    BY ConfirmingIs, DigestsIs
  <2>3. PICK L \in Nat : L = Len(deliveries)
    BY <1>0
  <2>4. /\ Len(deliveries') = L + c + d
        /\ \A k \in 1 .. d : deliveries'[L + c + k].kind = "digest"
    BY <1>4, <2>1, <2>2, <2>3, ClaimRows, Zenon
  <2>5. t <= now /\ now \in Nat /\ Window \in Nat
    BY <1>4, <2>1, Clock, Numbers DEF RunTimes, Claim
  <2>6. PICK S, C : S = Counted(t) /\ C = {k \in Counted(t) : deliveries[k].kind = "confirm"}
    OBVIOUS
  <2>7. IsFiniteSet(S) /\ IsFiniteSet(C) /\ Cardinality(S) \in Nat /\ Cardinality(C) \in Nat
    BY <2>6, CountedFinite
  <2>8. Ours \subseteq S /\ OurConfirms \subseteq C
    <3>1. ASSUME NEW k \in Counted(now)
          PROVE  k \in Counted(t)
      <4>1. deliveries[k] \in Rows
        BY <3>1, CountedFinite, ElementOfSeq DEF TypeInv, TablesTyped
      <4>2. CountedAt(deliveries[k]) \in Int
        BY <4>1 DEF Rows, CountedAt
      <4> QED
        BY <2>5, <3>1, <4>2 DEF Counted
    <3> QED
      BY <2>6, <3>1 DEF Ours, OurConfirms
  <2>9. Ours' \subseteq S \cup (L + 1 .. L + (c + d))
    BY <1>1, <1>2, <2>3, <2>4, <2>8
  <2>10. OurConfirms' \subseteq C \cup (L + 1 .. L + c)
    <3>1. ASSUME NEW k \in OurConfirms'
          PROVE  k \in C \cup (L + 1 .. L + c)
      <4>1. k \in Ours' /\ k \in 1 .. Len(deliveries') /\ deliveries'[k].kind = "confirm"
        BY <1>1 DEF OurConfirms
      <4>2. CASE k <= L
        BY <1>2, <2>3, <2>8, <4>1, <4>2
      <4>3. CASE k > L + c
        <5>1. PICK n \in 1 .. d : k = L + c + n
          BY <2>4, <4>1, <4>3
        <5> QED
          BY <2>4, <4>1, <5>1
      <4> QED
        BY <2>4, <4>1, <4>2, <4>3
    <3> QED
      BY <3>1
  <2>11. /\ Cardinality(Ours') <= Cardinality(S) + (c + d)
         /\ Cardinality(OurConfirms') <= Cardinality(C) + c
    BY <2>7, <2>9, <2>10, UnionBound
  <2>12. Limited(t)
    BY DigestsIs
  <2>13. /\ c # 0 => Cardinality(S) + c <= DailyLimit /\ Cardinality(C) + c <= ConfirmLimit
         /\ d # 0 => Cardinality(S) + c + d <= DailyLimit
    BY <2>2, <2>6, <2>12, Zenon DEF Limited
  <2>14. c = 0 => OurConfirms' \in SUBSET OurConfirms
    <3>1. ASSUME c = 0, NEW k \in OurConfirms'
          PROVE  k \in OurConfirms
      <4>1. k \in Ours' /\ k \in 1 .. Len(deliveries') /\ deliveries'[k].kind = "confirm"
        BY <1>1, <3>1 DEF OurConfirms
      <4>2. CASE k <= L
        BY <1>2, <2>3, <3>1, <4>1, <4>2
      <4>3. CASE k > L
        <5>1. PICK n \in 1 .. d : k = L + c + n
          BY <2>4, <3>1, <4>1, <4>3
        <5> QED
          BY <2>4, <4>1, <5>1
      <4> QED
        BY <2>4, <4>1, <4>2, <4>3
    <3> QED
      BY <3>1
  <2>15. Cardinality(Ours') \in Nat /\ Cardinality(OurConfirms') \in Nat
    BY <1>6 DEF OursNumbered
  <2>16. Cardinality(OurConfirms') <= ConfirmLimit
    <3>1. CASE c = 0
      BY <1>0, <1>6, <2>14, <3>1, FS_Subset DEF OursNumbered, OursWithinLimit
    <3>2. CASE c # 0
      BY <1>0, <2>7, <2>11, <2>13, <2>15, <3>2
    <3> QED
      BY <3>1, <3>2
  <2>17. Cardinality(Ours') <= DailyLimit
    <3>1. CASE c + d = 0
      BY <1>3, <2>3, <2>4, <3>1 DEF OursWithinLimit
    <3>2. CASE c + d # 0
      BY <1>0, <2>7, <2>11, <2>13, <2>15, <3>2
    <3> QED
      BY <3>1, <3>2
  <2> QED
    BY <2>16, <2>17 DEF OursWithinLimit
<1>5. deliveries' = deliveries \/ (\E u \in Users : Erase(u)) \/ (\E i \in Instances : Writes(i))
        => Len(deliveries') = Len(deliveries)
  BY EraseEffects, WriteEffects
<1> QED
  BY <1>3, <1>4, <1>5, RowCases

\* The invariant behind the limits.
QuotaInv ==
  /\ TypeInv /\ RunTimes /\ RowTimes /\ Timely /\ LeaseInv
  /\ longest <= Lease => AtHand
  /\ MarkYoung /\ RowDates
  /\ CountedWithinLimit

LEMMA QuotaInvStep ==
  ASSUME QuotaInv, [Next]_vars
  PROVE  QuotaInv'
<1>0. /\ longest \in Nat /\ longest' \in Nat /\ longest <= longest'
      /\ Lease \in Nat /\ Window \in Nat /\ DeliveryMaxAge \in Nat
  BY Clock, Numbers DEF QuotaInv, RunTimes
<1>1. TypeInv' /\ RunTimes' /\ RowTimes' /\ Timely' /\ LeaseInv'
  BY TypeStep, TimeStep, TimelyStep, LeaseInvStep DEF QuotaInv
<1>2. MarkYoung' /\ RowDates'
  BY MarkYoungStep, RowDatesStep DEF QuotaInv, Timely
<1>3. longest' <= Lease => longest <= Lease
  BY <1>0
<1>4. (longest' <= Lease) => AtHand'
  BY <1>3, AtHandStep DEF QuotaInv, LeaseInv
<1>5. ASSUME longest' <= Lease /\ DeliveryMaxAge + 2 * longest' < Window
      PROVE  OursWithinLimit'
  <2>1. longest <= Lease /\ DeliveryMaxAge + 2 * longest < Window
    <3>1. PICK age \in Int, run \in Int, later \in Int, window \in Int :
            age = DeliveryMaxAge /\ run = longest /\ later = longest' /\ window = Window
      BY <1>0
    <3>2. run <= later /\ age + 2 * later < window
      BY <1>0, <1>5, <3>1
    <3>3. age + 2 * run < window
      BY <3>2, ShorterRun
    <3> QED
      BY <1>3, <1>5, <3>1, <3>3
  <2>2. Quota /\ OursWithinLimit
    BY <2>1 DEF QuotaInv, Quota, Timely, CountedWithinLimit
  <2> QED
    BY <1>1, <2>1, <2>2, QuotaStep DEF QuotaInv
<1>6. CountedWithinLimit'
  BY <1>5 DEF CountedWithinLimit
<1> QED
  BY <1>1, <1>2, <1>4, <1>6 DEF QuotaInv

\* As long as no run has outlasted its lease, or has been so long that a
\* delivery leaves the window under it, the deliveries of existing accounts
\* that count never exceed the limit, nor the confirmations their share of it,
\* whatever instances claim at once, are retried or crash: a row counts from
\* before it is sent until a window after (dispatcher.js claim, countRecent).
THEOREM LimitHolds == Spec => []CountedWithinLimit
<1>1. Init => QuotaInv
  <2> SUFFICES ASSUME Init PROVE QuotaInv
    OBVIOUS
  <2>1. TypeInv /\ RunTimes /\ RowTimes
    BY InitTimes, InitTyped
  <2>2. Timely /\ LeaseInv /\ AtHand /\ MarkYoung /\ RowDates
    BY DEF Init, Timely, Young, MailTimes, OneKey, Ready, LeaseInv, Leased, Apart, Holds, Sending,
           AtHand, MarkYoung, RowDates
  <2>3. Ours = {} /\ OurConfirms = {}
    BY DEF Init, Ours, OurConfirms, Counted
  <2> QED
    BY <2>1, <2>2, <2>3, LimitTypes, FS_EmptySet DEF QuotaInv, OursWithinLimit, CountedWithinLimit
<1>2. QuotaInv /\ [Next]_vars => QuotaInv'
  BY QuotaInvStep
<1>3. QuotaInv => CountedWithinLimit
  BY DEF QuotaInv
<1> QED
  BY <1>1, <1>2, <1>3, PTL DEF Spec

-----------------------------------------------------------------------------
(***************************************************************************)
(* The outcome of every notification.                                      *)
(***************************************************************************)
\* A notification belongs to the user of its delivery; it is e-mailed when the
\* delivery is sent, and has a reason when the delivery ended without.
OfUser(n, rows) ==
  n.delivery # 0 => n.delivery \in 1 .. Len(rows) /\ rows[n.delivery].user = n.user
Closing(n, rows) ==
  IF n.delivery = 0 THEN ~n.emailed
  ELSE /\ n.emailed <=> rows[n.delivery].status = "sent"
       /\ n.skip = "" <=> rows[n.delivery].status \in {"pending", "sent"}

NotesMatch == \A n \in DOMAIN notes : OfUser(notes[n], deliveries)
NotesClosed == \A n \in DOMAIN notes : Closing(notes[n], deliveries)
\* What is at hand is pending, unless the account is gone; what is settled has a reason.
HandPending == \A i \in Instances :
  pc[i] \in Sending \cup {"finish"} => Row(i).status = "pending" \/ Row(i).user = Nobody
Reasoned == \A i \in Instances : pc[i] = "finish" => work[i].reason # ""

OutcomeInv == NotesMatch /\ NotesClosed /\ HandPending /\ Reasoned

LEMMA HandPendingStep ==
  ASSUME \A i, j \in Instances : i = j,
         TypeInv, HandPending, [Next]_vars
  PROVE  HandPending'
<1> SUFFICES ASSUME NEW j \in Instances, pc'[j] \in Sending \cup {"finish"}
             PROVE  Row(j)'.status = "pending" \/ Row(j)'.user = Nobody
  BY DEF HandPending
<1>1. PICK c \in 1 .. Len(deliveries) : c = Current(j) /\ Current(j)' = c
  BY SendingSteps, FinishSteps
<1>2. Row(j)' = deliveries'[c] /\ Row(j) = deliveries[c]
  BY <1>1 DEF Row
<1>3. pc[j] \in Sending \cup {"finish"} \/ TakeLease(j)
  BY SendingSteps, FinishSteps DEF Read, Prepare, MarkRefused, Sending
<1>4. Row(j).status = "pending" \/ Row(j).user = Nobody
  BY <1>3 DEF HandPending, TakeLease
<1>5. CASE Erased(deliveries'[c], deliveries[c])
  BY <1>2, <1>5 DEF Erased
<1>6. ASSUME NEW i \in Instances, Writes(i), Written(i, deliveries'[c])
      PROVE  Row(j)'.status = "pending" \/ Row(j)'.user = Nobody
  <2>1. i = j
    OBVIOUS
  <2>2. ~ (MarkSent(j) \/ Finish(j))
    BY DEF MarkSent, Finish, Leave, Sending, TypeInv, RunTyped
  <2>3. deliveries'[c].status = Row(j).status /\ deliveries'[c].user = Row(j).user
    BY <1>6, <2>1, <2>2 DEF Written, Writes
  <2> QED
    BY <1>2, <1>4, <2>3
<1> QED
  BY <1>2, <1>4, <1>5, <1>6, RowSteps

LEMMA ReasonedStep ==
  ASSUME TypeInv, Reasoned, [Next]_vars
  PROVE  Reasoned'
<1> SUFFICES ASSUME NEW j \in Instances, pc'[j] = "finish"
             PROVE  work'[j].reason # ""
  BY DEF Reasoned
<1>0. /\ pc \in [Instances -> Stages] /\ work \in [Instances -> Works]
  BY DEF TypeInv, RunTyped
<1>1. ASSUME NEW outcome, NEW reason, NEW error, Give(j, outcome, reason, error)
      PROVE  work'[j].reason = reason
  <2>1. [NoWork EXCEPT !.outcome = outcome, !.reason = reason, !.error = error].reason = reason
    BY DEF NoWork
  <2>2. work'[j] = [NoWork EXCEPT !.outcome = outcome, !.reason = reason, !.error = error]
    BY <1>0, <1>1 DEF Give
  <2> QED
    BY <2>1, <2>2
<1>2. ASSUME NEW label, Stay(j, label)
      PROVE  label = "finish"
  BY <1>0, <1>2 DEF Stay
<1>3. ~ Leave(j)
  BY <1>0 DEF Leave
<1>4. "disabled" # "" /\ "send-failed" # ""
      /\ "prepare" # "finish" /\ "send" # "finish" /\ "store" # "finish"
  OBVIOUS
<1>5. CASE Untouched(j) /\ pc[j] = "finish"
  BY <1>5 DEF Untouched, Reasoned
<1>6. CASE Read(j)
  <2>1. (IF Row(j).payload = <<>> THEN "prepare" ELSE "send") # "finish"
    OBVIOUS
  <2> QED
    BY <1>1, <1>2, <1>4, <1>6, <2>1, Zenon DEF Read
<1>7. CASE Prepare(j)
  BY <1>1, <1>2, <1>4, <1>7, Zenon DEF Prepare
<1>8. CASE MarkRefused(j)
  BY <1>1, <1>3, <1>4, <1>8, Zenon DEF MarkRefused
<1> QED
  BY <1>5, <1>6, <1>7, <1>8, FinishSteps

\* A row that is kept, or written by its sender.
Moves(k) ==
  \/ deliveries'[k] = deliveries[k]
  \/ \E i \in Instances : Writes(i) /\ k = Current(i) /\ Written(i, deliveries'[k])

\* The row of a notification that stays is not erased.
LEMMA RowOfNote ==
  ASSUME TypeInv, NotesMatch, [Next]_vars, NEW n \in DOMAIN notes, n \in DOMAIN notes',
         notes[n].delivery # 0
  PROVE  \E k \in 1 .. Len(deliveries) : k = notes[n].delivery /\ Moves(k)
<1>1. PICK k \in 1 .. Len(deliveries) :
        k = notes[n].delivery /\ deliveries[k].user = notes[n].user
  BY DEF NotesMatch, OfUser
<1>2. ASSUME NEW u \in Users, Erase(u)
      PROVE  deliveries'[k] = deliveries[k]
  BY <1>1, <1>2, EraseEffects
<1>3. ASSUME NEW i \in Instances, Claim(i)
      PROVE  deliveries'[k] = deliveries[k]
  BY <1>3, ClaimEffects DEF Extends
<1>4. ASSUME NEW i \in Instances, Writes(i)
      PROVE  deliveries'[k] = deliveries[k] \/ (k = Current(i) /\ Written(i, deliveries'[k]))
  BY <1>4, WriteEffects
<1>5. Moves(k)
  BY <1>2, <1>3, <1>4, RowCases DEF Moves
<1> QED
  BY <1>1, <1>5

LEMMA NoteOutcome ==
  ASSUME TypeInv, TypeInv', OutcomeInv, [Next]_vars, NEW n \in DOMAIN notes'
  PROVE  OfUser(notes'[n], deliveries') /\ Closing(notes'[n], deliveries')
<1>0. /\ Len(deliveries) \in Nat /\ Len(deliveries') \in Nat /\ Len(deliveries') >= Len(deliveries)
      /\ notes'[n] \in Notes
  BY RowSteps DEF TypeInv, TablesTyped
<1>1. CASE NewNote(n)
  BY <1>1 DEF NewNote, OfUser, Closing
<1>2. CASE /\ n \in DOMAIN notes /\ notes'[n].user = notes[n].user
           /\ SameDelivery(n) /\ SameMark(n) /\ SameSkip(n)
  <2>0. /\ notes[n] \in Notes /\ OfUser(notes[n], deliveries) /\ Closing(notes[n], deliveries)
    BY <1>2 DEF TypeInv, TablesTyped, OutcomeInv, NotesMatch, NotesClosed
  <2>1. ASSUME NEW i \in Instances, MarkSent(i) \/ Finish(i)
        PROVE  Current(i) \in 1 .. Len(deliveries)
    BY <2>1, CurrentFacts DEF MarkSent, Finish, AtDelivery, Sending
  <2>2. CASE notes[n].delivery = 0
    <3>1. ~ notes'[n].emailed
      <4>1. ASSUME NEW i \in Instances, MarkSent(i), n \in Claimed(Current(i))
            PROVE  FALSE
        BY <1>0, <2>1, <2>2, <4>1 DEF Claimed
      <4> QED
        BY <1>2, <2>0, <2>2, <4>1, Zenon DEF SameMark, Closing
    <3>2. CASE notes'[n].delivery = 0
      BY <3>1, <3>2 DEF OfUser, Closing
    <3>3. CASE notes'[n].skip = "" /\ InNew(notes'[n], deliveries', Len(deliveries))
      <4>1. PICK k \in 1 .. Len(deliveries') :
              /\ k = notes'[n].delivery /\ k > Len(deliveries)
              /\ deliveries'[k].user = notes'[n].user
        BY <3>3 DEF InNew
      <4>2. deliveries'[k].status = "pending"
        BY <4>1, RowSteps DEF IsNew
      <4>3. k # 0
        BY <1>0
      <4>4. OfUser(notes'[n], deliveries')
        BY <4>1 DEF OfUser
      <4>5. Closing(notes'[n], deliveries')
        BY <3>1, <3>3, <4>1, <4>2, <4>3 DEF Closing
      <4> QED
        BY <4>4, <4>5
    <3> QED
      BY <1>2, <2>2, <3>2, <3>3 DEF SameDelivery
  <2>3. CASE notes[n].delivery # 0
    <3>0. ~ Open(notes[n])
      BY <2>3 DEF Open
    <3>1. PICK k \in 1 .. Len(deliveries) :
            /\ k = notes[n].delivery /\ notes'[n].delivery = k
            /\ deliveries[k].user = notes[n].user /\ Moves(k)
      <4>1. PICK k \in 1 .. Len(deliveries) : k = notes[n].delivery /\ Moves(k)
        BY <1>2, <2>3, RowOfNote DEF OutcomeInv
      <4>2. notes'[n].delivery = k
        BY <1>2, <3>0, <4>1 DEF SameDelivery
      <4> QED
        BY <2>0, <2>3, <4>1, <4>2 DEF OfUser
    <3>2. k # 0 /\ k \in 1 .. Len(deliveries')
      BY <1>0
    <3>3. deliveries[k].user # Nobody
      BY <2>0, <3>1, Numbers DEF Notes
    <3>4. deliveries'[k].user = deliveries[k].user
      BY <3>1 DEF Moves, Written, Row
    <3>5. OfUser(notes'[n], deliveries')
      BY <1>2, <3>1, <3>2, <3>4 DEF OfUser
    <3>6. ASSUME NEW i \in Instances, MarkSent(i) \/ Finish(i), k = Current(i)
          PROVE  /\ Written(i, deliveries'[k]) /\ n \in Claimed(Current(i))
                 /\ ~ notes[n].emailed /\ notes[n].skip = ""
      <4>1. Written(i, deliveries'[k])
        BY <3>6, WriteEffects DEF Writes
      <4>2. n \in Claimed(Current(i))
        BY <1>2, <3>1, <3>6 DEF Claimed
      <4>3. Row(i) = deliveries[k]
        BY <3>6 DEF Row
      <4>4. pc[i] \in Sending \cup {"finish"}
        BY <3>6 DEF MarkSent, Finish, Sending
      <4>5. deliveries[k].status = "pending"
        BY <3>3, <4>3, <4>4 DEF OutcomeInv, HandPending
      <4> QED
        BY <2>0, <3>1, <3>2, <4>1, <4>2, <4>5 DEF Closing
    <3>7. ASSUME NEW i \in Instances, MarkSent(i) \/ Finish(i), k # Current(i)
          PROVE  Closing(notes'[n], deliveries')
      <4>1. deliveries'[k] = deliveries[k]
        BY <3>7, WriteEffects DEF Writes
      <4>2. n \notin Claimed(Current(i))
        BY <3>1, <3>7 DEF Claimed
      <4>3. notes'[n] = notes[n]
        BY <1>2, <3>7, <4>2, MarkDetails, Zenon
      <4> QED
        BY <2>0, <3>1, <3>2, <4>1, <4>3 DEF Closing
    <3>8. ASSUME NEW i \in Instances, MarkSent(i), k = Current(i)
          PROVE  Closing(notes'[n], deliveries')
      <4>1. deliveries'[k].status = "sent"
        BY <3>6, <3>8 DEF Written
      <4>2. notes'[n].emailed
        BY <1>2, <3>6, <3>8, MarkDetails, Zenon
      <4>3. notes'[n].skip = ""
        BY <1>2, <3>6, <3>8, MarkDetails, Zenon
      <4> QED
        BY <3>1, <3>2, <4>1, <4>2, <4>3 DEF Closing
    <3>9. ASSUME NEW i \in Instances, Finish(i), k = Current(i)
          PROVE  Closing(notes'[n], deliveries')
      <4>1. deliveries'[k].status \in Settled
        BY <3>6, <3>9 DEF Written, Finish, TypeInv, RunHolds
      <4>2. ~ notes'[n].emailed
        BY <1>2, <3>6, <3>9, MarkEffects, Zenon DEF SameNote
      <4>3. notes'[n].skip = work[i].reason
        BY <1>2, <3>6, <3>9, MarkDetails, Zenon
      <4>4. work[i].reason # ""
        BY <3>9 DEF Finish, OutcomeInv, Reasoned
      <4> QED
        BY <3>1, <3>2, <4>1, <4>2, <4>3, <4>4 DEF Closing, Settled
    <3>10. ASSUME \A i \in Instances : ~ (MarkSent(i) \/ Finish(i))
           PROVE  Closing(notes'[n], deliveries')
      <4>1. notes'[n].emailed = notes[n].emailed
        BY <1>2, <3>10, Zenon DEF SameMark
      <4>2. notes'[n].skip = notes[n].skip
        BY <1>2, <3>0, <3>10, Zenon DEF SameSkip
      <4>3. deliveries'[k].status = deliveries[k].status
        BY <3>1, <3>10 DEF Moves, Written, Writes, Row
      <4> QED
        BY <2>0, <3>1, <3>2, <4>1, <4>2, <4>3 DEF Closing
    <3>11. Closing(notes'[n], deliveries')
      BY <3>7, <3>8, <3>9, <3>10, Zenon
    <3> QED
      BY <3>5, <3>11
  <2> QED
    BY <2>2, <2>3
<1> QED
  BY <1>1, <1>2, NoteSteps

\* With one instance of the service, a settled delivery accounts for all its
\* notifications: they are e-mailed if it was sent and carry a reason if it was
\* not, whatever fails in between and whoever is deleted (dispatcher.js, the
\* transactions of deliver and finish).  With two, giving up and settling are
\* two statements, and the other instance can send in between.
THEOREM OutcomesAreRecorded ==
  ASSUME \A i, j \in Instances : i = j
  PROVE  Spec => []OutcomeRecorded
<1> DEFINE IInv == TypeInv /\ OutcomeInv
<1>1. Init => IInv
  <2>1. Init => OutcomeInv
    BY DEF Init, OutcomeInv, NotesMatch, NotesClosed, HandPending, Reasoned, Sending
  <2> QED
    BY <2>1, InitTyped
<1>2. IInv /\ [Next]_vars => IInv'
  <2> SUFFICES ASSUME IInv, [Next]_vars PROVE IInv'
    OBVIOUS
  <2>1. TypeInv'
    BY TypeStep
  <2>2. NotesMatch' /\ NotesClosed'
    BY <2>1, NoteOutcome DEF NotesMatch, NotesClosed
  <2>3. HandPending' /\ Reasoned'
    BY HandPendingStep, ReasonedStep DEF OutcomeInv
  <2> QED
    BY <2>1, <2>2, <2>3 DEF OutcomeInv
<1>3. IInv => OutcomeRecorded
  <2> SUFFICES ASSUME IInv, NEW n \in DOMAIN notes
               PROVE  /\ ~(notes[n].emailed /\ notes[n].skip # "")
                      /\ notes[n].delivery # 0 /\ deliveries[notes[n].delivery].status # "pending" =>
                           /\ notes[n].emailed = (deliveries[notes[n].delivery].status = "sent")
                           /\ notes[n].emailed \/ notes[n].skip # ""
    BY DEF OutcomeRecorded
  <2>1. Closing(notes[n], deliveries) /\ notes[n] \in Notes
    BY DEF OutcomeInv, NotesClosed, TypeInv, TablesTyped
  <2>2. notes[n].emailed \in BOOLEAN
    BY <2>1 DEF Notes
  <2> QED
    BY <2>1, <2>2, Zenon DEF Closing
<1> HIDE DEF IInv
<1> QED
  BY <1>1, <1>2, <1>3, PTL DEF Spec
=============================================================================
