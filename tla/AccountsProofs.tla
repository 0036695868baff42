--------------------------- MODULE AccountsProofs ---------------------------
(***************************************************************************)
(* Proofs about the accounts and the pages that use them, for any people,  *)
(* addresses, admins and number of requests under way: a session ended by  *)
(* a disable or a deletion stays ended, the audit log agrees with the      *)
(* accounts, and whoever signs in to an admin account reads the mail of    *)
(* its address.                                                            *)
(***************************************************************************)
EXTENDS AccountPages, TLAPS, SequenceTheorems

AllKinds == AuthKinds \cup {"session", "register", "login", "confirm", "logout"}
PendingStages == {"auth", "read", "session", "write", "hold", "erase", "delete", "commit"}

Tokens == [id : Nat, version : Nat]

Rows ==
  [email : Emails, owner : People, version : Nat, disabled : BOOLEAN, on : BOOLEAN,
   link : Nat, issued : Nat, verified : BOOLEAN, proven : BOOLEAN]

PublicUsers ==
  [id : Nat, email : Emails \cup {"none"}, role : {"none", "user", "admin"}, disabled : BOOLEAN]

\* What a request has read: a row, the audit rows to mask, or whether it is signed in.
Finds == BOOLEAN \cup Rows \cup {NoUser} \cup SUBSET Nat

Pendings ==
  [stage : PendingStages, kind : AllKinds, by : People, token : Tokens, target : Nat,
   email : Emails \cup {"none"}, link : Nat, found : Finds]

Answers ==
  [kind : AllKinds, by : People, target : Nat, stage : {"done"}, status : Nat,
   cookie : Tokens, clear : BOOLEAN, user : PublicUsers]

Calls == {Free} \cup Pendings \cup Answers

Tabs ==
  [cookie : Tokens, hint : {"none", "in", "out"}, user : PublicUsers, loading : BOOLEAN,
   selected : Nat, detail : PublicUsers, confirming : BOOLEAN, busy : BOOLEAN]

Actions == {"create", "disable", "enable", "delete"}
AuditRows == [action : Actions, target : Nat, label : {"entry", "address", "masked"}]

UsersTyped ==
  /\ created \in Nat
  /\ users \in [DOMAIN users -> Rows]
  /\ DOMAIN users \subseteq 1 .. created

AuditTyped ==
  /\ audit \in Seq(AuditRows)
  /\ \A i \in DOMAIN audit : audit[i].target <= created

CallsTyped == calls \in [Requests -> Calls]
TabsTyped == tab \in [People -> Tabs]
EndedTyped == ended \subseteq Tokens

Typed == UsersTyped /\ AuditTyped /\ CallsTyped /\ TabsTyped /\ EndedTyped

\* The id is not the account of anybody else, now or later.
Owned(p, id) == id <= created /\ (id \in DOMAIN users => users[id].owner = p)

\* What a request knows on its way: the cookie is the sender's, and so is the account it
\* signs in to or confirms as signed in; a link is pressed by the reader of the mailbox.
PendingOK(c) ==
  /\ Owned(c.by, c.token.id)
  /\ c.kind = "register" => c.email \in Emails
  /\ c.stage = "session" => c.kind = "confirm"
  /\ c.kind = "login" /\ c.stage = "write" => Owned(c.by, c.target)
  /\ c.kind = "confirm" =>
       /\ c.target <= created
       /\ c.target \in DOMAIN users => Mailbox[users[c.target].email] = c.by
  /\ c.kind = "confirm" /\ c.stage = "write" =>
       c.found \in BOOLEAN /\ (c.found = TRUE => Owned(c.by, c.target))
  /\ c.kind \in {"emailOn", "emailOff"} /\ c.stage = "write" => c.found \in Rows

CallOK(r) ==
  /\ calls[r].stage \in PendingStages => PendingOK(calls[r])
  /\ calls[r].stage = "done" => Owned(calls[r].by, calls[r].cookie.id)

CallsOK == \A r \in Requests : CallOK(r)
CookiesOK == \A p \in People : Owned(p, tab[p].cookie.id)

\* A transaction that waits for its commit holds a row that exists, and holds it alone.
LocksOK ==
  /\ \A r \in Requests : calls[r].stage = "commit" => calls[r].target \in locked \cap DOMAIN users
  /\ \A r, q \in Requests :
       calls[r].stage = "commit" /\ calls[q].stage = "commit" /\ calls[r].target = calls[q].target
         => r = q

\* An ended session is older than its account, if that exists.
EndedOld ==
  \A s \in ended :
    s.id <= created /\ (s.id \in DOMAIN users => s.version < users[s.id].version)

ProvenOK ==
  \A id \in DOMAIN users :
    users[id].proven = TRUE => users[id].owner = Mailbox[users[id].email]

\* The rows that switch an account off or on, and what the last of them did.
Switches(id) == {i \in AuditRowsOf(id) : audit[i].action \in {"disable", "enable"}}
LastSwitch(id, action) ==
  \E i \in Switches(id) : audit[i].action = action /\ \A j \in Switches(id) : j <= i

SwitchesOK ==
  \A id \in DOMAIN users :
    /\ users[id].disabled = TRUE => LastSwitch(id, "disable")
    /\ users[id].disabled = FALSE => Switches(id) = {} \/ LastSwitch(id, "enable")

DeletesOK ==
  \A i \in DOMAIN audit : audit[i].action = "delete" =>
    /\ audit[i].target \notin DOMAIN users
    /\ \A j \in DOMAIN audit :
         audit[j].action = "delete" /\ audit[j].target = audit[i].target => j = i

IInv ==
  /\ Typed
  /\ CallsOK /\ CookiesOK
  /\ LocksOK
  /\ EndedOld
  /\ ProvenOK
  /\ SwitchesOK /\ DeletesOK

-----------------------------------------------------------------------------
(***************************************************************************)
(* The records the handlers build                                          *)
(***************************************************************************)
\* Max of a set of numbers is its greatest element.
LEMMA MaxIs ==
  ASSUME NEW S \in SUBSET Nat, NEW m \in S, \A n \in S : n <= m
  PROVE  Max(S) = m
<1>1. \A n \in S : m >= n
  OBVIOUS
<1>2. Max(S) \in S /\ \A n \in S : Max(S) >= n
  BY <1>1 DEF Max
<1> DEFINE k == Max(S)
<1>3. k \in Nat /\ m \in Nat /\ k >= m /\ k <= m
  BY <1>2
<1> QED
  BY <1>3

LEMMA Blanks == NoCookie \in Tokens /\ NoUser \in PublicUsers /\ NoUser \in Finds
BY DEF NoCookie, NoUser, Tokens, PublicUsers, Finds

LEMMA NewRowTyped ==
  ASSUME NEW e \in Emails, NEW p \in People
  PROVE  NewRow(e, p) \in Rows
BY DEF NewRow, Rows

\* What is shown of an account.
LEMMA PublicTyped ==
  ASSUME NEW id \in Nat, NEW row \in Rows
  PROVE  PublicOf(id, row) \in PublicUsers
<1>1. RoleOf(row) \in {"none", "user", "admin"}
  BY DEF RoleOf
<1> QED
  BY <1>1 DEF PublicOf, PublicUsers, Rows

LEMMA PublicUserTyped ==
  ASSUME UsersTyped, NEW id \in DOMAIN users
  PROVE  PublicUser(id) \in PublicUsers
<1>1. id \in Nat /\ users[id] \in Rows
  BY DEF UsersTyped
<1> QED
  BY <1>1, PublicTyped DEF PublicUser

LEMMA SessionTyped ==
  ASSUME UsersTyped, NEW id \in DOMAIN users
  PROVE  SessionOf(id) \in Tokens /\ SessionOf(id).id = id
         /\ SessionOf(id).version = users[id].version
<1>1. id \in Nat /\ users[id] \in Rows
  BY DEF UsersTyped
<1> QED
  BY <1>1 DEF SessionOf, Tokens, Rows

\* Who the request is, by its stage.
LEMMA StageSays ==
  ASSUME CallsTyped, NEW r \in Requests
  PROVE  /\ calls[r].stage = "free" => calls[r] = Free
         /\ calls[r].stage \in PendingStages => calls[r] \in Pendings
         /\ calls[r].stage = "done" => calls[r] \in Answers
         /\ calls[r].stage \in PendingStages \cup {"free", "done"}
BY DEF CallsTyped, Calls, Free, Pendings, Answers, PendingStages

-----------------------------------------------------------------------------
(***************************************************************************)
(* What becomes of a request: it goes on, or it is answered.               *)
(***************************************************************************)
\* The other requests stay as they are, and so does what the request is about.
Advances(r, stage) ==
  /\ calls' \in [Requests -> Calls]
  /\ \A q \in Requests : q # r => calls'[q] = calls[q]
  /\ calls'[r] \in Pendings
  /\ calls'[r].stage = stage
  /\ calls'[r].kind = calls[r].kind /\ calls'[r].by = calls[r].by
  /\ calls'[r].token = calls[r].token /\ calls'[r].link = calls[r].link

Answers1(r) ==
  /\ calls' \in [Requests -> Calls]
  /\ \A q \in Requests : q # r => calls'[q] = calls[q]
  /\ calls'[r] \in Answers
  /\ calls'[r].stage = "done"
  /\ calls'[r].by = calls[r].by

LEMMA Replaced ==
  ASSUME CallsTyped, NEW r \in Requests, NEW c \in Calls, calls' = [calls EXCEPT ![r] = c]
  PROVE  /\ calls' \in [Requests -> Calls] /\ calls'[r] = c
         /\ \A q \in Requests : q # r => calls'[q] = calls[q]
BY DEF CallsTyped

LEMMA GoesAdvances ==
  ASSUME CallsTyped, NEW r \in Requests, calls[r] \in Pendings, NEW s \in PendingStages, Goes(r, s)
  PROVE  /\ Advances(r, s)
         /\ calls'[r].target = calls[r].target /\ calls'[r].email = calls[r].email
         /\ calls'[r].found = calls[r].found
<1> DEFINE c == [calls[r] EXCEPT !.stage = s]
<1>1. c \in Pendings /\ c.stage = s /\ c.kind = calls[r].kind /\ c.by = calls[r].by
      /\ c.token = calls[r].token /\ c.link = calls[r].link /\ c.target = calls[r].target
      /\ c.email = calls[r].email /\ c.found = calls[r].found
  BY DEF Pendings
<1>2. calls' = [calls EXCEPT ![r] = c]
  BY DEF Goes, CallsTyped
<1> HIDE DEF c
<1> QED
  BY <1>1, <1>2 DEF Advances, CallsTyped, Calls

LEMMA ChangeAdvances ==
  ASSUME CallsTyped, NEW r \in Requests, calls[r] \in Pendings, NEW c \in Pendings,
         c.kind = calls[r].kind, c.by = calls[r].by, c.token = calls[r].token,
         c.link = calls[r].link, calls' = [calls EXCEPT ![r] = c]
  PROVE  Advances(r, c.stage) /\ calls'[r] = c
<1>1. c \in Calls
  BY DEF Calls
<1>2. calls' \in [Requests -> Calls] /\ calls'[r] = c
      /\ \A q \in Requests : q # r => calls'[q] = calls[q]
  BY <1>1, Replaced
<1> QED
  BY <1>2 DEF Advances

\* What a handler reads is kept in the request.
LEMMA TargetAdvances ==
  ASSUME CallsTyped, NEW r \in Requests, calls[r] \in Pendings, NEW s \in PendingStages,
         NEW t \in Nat,
         calls' = [calls EXCEPT ![r].stage = s, ![r].target = t]
  PROVE  /\ Advances(r, s)
         /\ calls'[r].target = t /\ calls'[r].email = calls[r].email /\ calls'[r].found = calls[r].found
<1>1. PICK c : c = [calls[r] EXCEPT !.stage = s, !.target = t]
  OBVIOUS
<1>2. c \in Pendings /\ c.stage = s /\ c.kind = calls[r].kind /\ c.by = calls[r].by
      /\ c.token = calls[r].token /\ c.link = calls[r].link
  BY <1>1 DEF Pendings
<1>3. c.target = t /\ c.email = calls[r].email /\ c.found = calls[r].found
  BY <1>1 DEF Pendings
<1>4. calls' = [calls EXCEPT ![r] = c]
  BY <1>1 DEF CallsTyped
<1>5. Advances(r, s) /\ calls'[r] = c
  BY <1>2, <1>4, ChangeAdvances
<1> QED
  BY <1>3, <1>5

LEMMA EmailAdvances ==
  ASSUME CallsTyped, NEW r \in Requests, calls[r] \in Pendings, NEW s \in PendingStages,
         NEW e \in Emails,
         calls' = [calls EXCEPT ![r].stage = s, ![r].email = e]
  PROVE  /\ Advances(r, s)
         /\ calls'[r].target = calls[r].target /\ calls'[r].email = e /\ calls'[r].found = calls[r].found
<1>1. PICK c : c = [calls[r] EXCEPT !.stage = s, !.email = e]
  OBVIOUS
<1>2. c \in Pendings /\ c.stage = s /\ c.kind = calls[r].kind /\ c.by = calls[r].by
      /\ c.token = calls[r].token /\ c.link = calls[r].link
  BY <1>1 DEF Pendings
<1>3. c.target = calls[r].target /\ c.email = e /\ c.found = calls[r].found
  BY <1>1 DEF Pendings
<1>4. calls' = [calls EXCEPT ![r] = c]
  BY <1>1 DEF CallsTyped
<1>5. Advances(r, s) /\ calls'[r] = c
  BY <1>2, <1>4, ChangeAdvances
<1> QED
  BY <1>3, <1>5

LEMMA FoundAdvances ==
  ASSUME CallsTyped, NEW r \in Requests, calls[r] \in Pendings, NEW s \in PendingStages,
         NEW f \in Finds,
         calls' = [calls EXCEPT ![r].stage = s, ![r].found = f]
  PROVE  /\ Advances(r, s)
         /\ calls'[r].target = calls[r].target /\ calls'[r].email = calls[r].email /\ calls'[r].found = f
<1>1. PICK c : c = [calls[r] EXCEPT !.stage = s, !.found = f]
  OBVIOUS
<1>2. c \in Pendings /\ c.stage = s /\ c.kind = calls[r].kind /\ c.by = calls[r].by
      /\ c.token = calls[r].token /\ c.link = calls[r].link
  BY <1>1 DEF Pendings
<1>3. c.target = calls[r].target /\ c.email = calls[r].email /\ c.found = f
  BY <1>1 DEF Pendings
<1>4. calls' = [calls EXCEPT ![r] = c]
  BY <1>1 DEF CallsTyped
<1>5. Advances(r, s) /\ calls'[r] = c
  BY <1>2, <1>4, ChangeAdvances
<1> QED
  BY <1>3, <1>5

LEMMA AnswerTyped ==
  ASSUME NEW r, NEW st \in Nat, NEW ck \in Tokens, NEW cl \in BOOLEAN,
         NEW u \in PublicUsers, calls[r].kind \in AllKinds, calls[r].by \in People,
         calls[r].target \in Nat, NEW c, c = Answered(r, st, ck, cl, u)
  PROVE  c \in Answers /\ c.stage = "done" /\ c.by = calls[r].by /\ c.cookie = ck
BY DEF Answered, Answers

LEMMA AnswerAnswers ==
  ASSUME CallsTyped, NEW r \in Requests, calls[r] \in Pendings,
         NEW st \in Nat, NEW ck \in Tokens, NEW cl \in BOOLEAN, NEW u \in PublicUsers,
         calls' = [calls EXCEPT ![r] = Answered(r, st, ck, cl, u)]
  PROVE  Answers1(r) /\ calls'[r].cookie = ck
<1>1. calls[r].kind \in AllKinds /\ calls[r].by \in People /\ calls[r].target \in Nat
  BY DEF Pendings
<1>2. PICK c : c = Answered(r, st, ck, cl, u)
  OBVIOUS
<1>3. c \in Answers /\ c.stage = "done" /\ c.by = calls[r].by /\ c.cookie = ck
  BY <1>1, <1>2, AnswerTyped
<1>4. calls' = [calls EXCEPT ![r] = c]
  BY <1>2
<1> QED
  BY <1>3, <1>4 DEF Answers1, CallsTyped, Calls

LEMMA RespondAnswers ==
  ASSUME CallsTyped, NEW r \in Requests, calls[r] \in Pendings, NEW st \in Nat, Respond(r, st)
  PROVE  Answers1(r) /\ calls'[r].cookie = NoCookie
BY AnswerAnswers, Blanks DEF Respond

LEMMA ClearingAnswers ==
  ASSUME CallsTyped, NEW r \in Requests, calls[r] \in Pendings, NEW st \in Nat,
         RespondClearing(r, st)
  PROVE  Answers1(r) /\ calls'[r].cookie = NoCookie
<1>1. (calls[r].token # NoCookie) \in BOOLEAN
  OBVIOUS
<1> QED
  BY <1>1, AnswerAnswers, Blanks DEF RespondClearing

LEMMA UserAnswers ==
  ASSUME CallsTyped, NEW r \in Requests, calls[r] \in Pendings, NEW u \in PublicUsers,
         RespondUser(r, u)
  PROVE  Answers1(r) /\ calls'[r].cookie = NoCookie
<1>0. PICK no \in BOOLEAN : no = FALSE
  BY Zenon
<1>1. PICK ok \in Nat : ok = 200
  OBVIOUS
<1>2. calls' = [calls EXCEPT ![r] = Answered(r, ok, NoCookie, no, u)]
  BY <1>0, <1>1 DEF RespondUser
<1> QED
  BY <1>2, AnswerAnswers, Blanks

LEMMA SignInAnswers ==
  ASSUME CallsTyped, NEW r \in Requests, calls[r] \in Pendings, NEW u \in PublicUsers,
         NEW ck \in Tokens, SignIn(r, ck, u)
  PROVE  Answers1(r) /\ calls'[r].cookie = ck
<1>0. PICK no \in BOOLEAN : no = FALSE
  BY Zenon
<1>1. PICK ok \in Nat : ok = 200
  OBVIOUS
<1>2. calls' = [calls EXCEPT ![r] = Answered(r, ok, ck, no, u)]
  BY <1>0, <1>1 DEF SignIn
<1> QED
  BY <1>2, AnswerAnswers, Blanks

-----------------------------------------------------------------------------
(***************************************************************************)
(* The tab: only an answer changes its cookie.                             *)
(***************************************************************************)
Keeps(t, c) == c \in Tabs /\ c.cookie = t.cookie

LEMMA Small ==
  /\ \E no \in BOOLEAN : no = FALSE
  /\ \E yes \in BOOLEAN : yes = TRUE
  /\ \E z \in Nat : z = 0
  /\ \E in \in {"none", "in", "out"} : in = "in"
  /\ \E out \in {"none", "in", "out"} : out = "out"
OBVIOUS

LEMMA ClosedKeeps ==
  ASSUME NEW t \in Tabs
  PROVE  Keeps(t, Closed(t))
<1>1. PICK no \in BOOLEAN, z \in Nat : no = FALSE /\ z = 0
  BY Small
<1>2. PICK c : c = [t EXCEPT !.selected = z, !.detail = NoUser, !.confirming = no, !.busy = no]
  OBVIOUS
<1>3. Keeps(t, c)
  BY <1>2, Blanks DEF Keeps, Tabs
<1>4. c = Closed(t)
  BY <1>1, <1>2 DEF Closed
<1> QED
  BY <1>3, <1>4

LEMMA LandedKeeps ==
  ASSUME NEW t \in Tabs
  PROVE  Keeps(t, Landed(t))
BY ClosedKeeps DEF Landed, Keeps

LEMMA HintKeeps ==
  ASSUME NEW t \in Tabs, NEW u \in PublicUsers, NEW h \in {"none", "in", "out"}, NEW l \in BOOLEAN
  PROVE  /\ Keeps(t, [t EXCEPT !.hint = h, !.user = u, !.loading = l])
         /\ Keeps(t, [t EXCEPT !.user = u, !.loading = l])
         /\ Keeps(t, [t EXCEPT !.hint = h, !.user = u])
         /\ Keeps(t, [t EXCEPT !.loading = l])
BY DEF Keeps, Tabs

LEMMA DetailKeeps ==
  ASSUME NEW t \in Tabs, NEW u \in PublicUsers, NEW b \in BOOLEAN, NEW n \in Nat
  PROVE  /\ Keeps(t, [t EXCEPT !.detail = u])
         /\ Keeps(t, [t EXCEPT !.busy = b])
         /\ Keeps(t, [t EXCEPT !.busy = b, !.detail = u])
         /\ Keeps(t, [t EXCEPT !.confirming = b])
         /\ Keeps(t, [t EXCEPT !.selected = n])
         /\ Keeps(t, [t EXCEPT !.selected = n, !.detail = u])
BY DEF Keeps, Tabs

LEMMA FreshKeeps ==
  ASSUME NEW t \in Tabs, NEW l \in BOOLEAN
  PROVE  /\ Keeps(t, [Blank EXCEPT !.cookie = t.cookie, !.hint = t.hint])
         /\ Keeps(t, [[Blank EXCEPT !.cookie = t.cookie, !.hint = t.hint] EXCEPT !.loading = l])
         /\ Keeps(Blank, Blank)
BY Blanks DEF Keeps, Tabs, Blank

\* What the pages do with an answer.
LEMMA OnAnswerKeeps ==
  ASSUME NEW t \in Tabs, NEW k, NEW st, NEW u \in PublicUsers
  PROVE  Keeps(t, OnAnswer(t, k, st, u))
<1>1. PICK no \in BOOLEAN : no = FALSE
  BY Small
<1>2. PICK in \in {"none", "in", "out"} : in = "in"
  BY Small
<1>3. PICK out \in {"none", "in", "out"} : out = "out"
  BY Small
<1>4. PICK h \in {"none", "in", "out"} : h = IF u = NoUser THEN "out" ELSE "in"
  OBVIOUS
<1>5. /\ Keeps(t, [t EXCEPT !.hint = IF u = NoUser THEN "out" ELSE "in", !.user = u,
                            !.loading = FALSE])
      /\ Keeps(t, [t EXCEPT !.user = NoUser, !.loading = FALSE])
      /\ Keeps(t, SignedIn(t, u)) /\ Keeps(t, SignedOut(t))
  BY <1>1, <1>2, <1>3, <1>4, HintKeeps, Blanks DEF SignedIn, SignedOut
<1>6. Keeps(t, [t EXCEPT !.detail = IF st = 200 THEN u ELSE NoUser])
  BY DetailKeeps, Blanks
<1>7. Keeps(t, Closed(t)) /\ Keeps(t, [t EXCEPT !.busy = FALSE]) /\ Keeps(t, t)
  BY <1>1, DetailKeeps, ClosedKeeps DEF Keeps
<1> QED
  BY <1>5, <1>6, <1>7 DEF OnAnswer

LEMMA WithCookieTyped ==
  ASSUME NEW t \in Tabs, NEW a \in Answers
  PROVE  /\ WithCookie(t, a) \in Tabs
         /\ WithCookie(t, a).cookie \in {t.cookie, NoCookie, a.cookie}
<1>1. PICK k \in Tokens : k = IF a.cookie # NoCookie THEN a.cookie
                              ELSE IF a.clear THEN NoCookie ELSE t.cookie
  BY Blanks DEF Tabs, Answers
<1>2. PICK c : c = [t EXCEPT !.cookie = k]
  OBVIOUS
<1>3. c \in Tabs /\ c.cookie = k
  BY <1>2 DEF Tabs
<1>4. c = WithCookie(t, a)
  BY <1>1, <1>2 DEF WithCookie
<1>5. k \in {t.cookie, NoCookie, a.cookie}
  BY <1>1
<1> QED
  BY <1>3, <1>4, <1>5

-----------------------------------------------------------------------------
(***************************************************************************)
(* A step of the pages: nothing on the server changes but the requests.    *)
(***************************************************************************)
\* Where the cookie of a tab comes from.
CookieFrom(p) ==
  \/ tab'[p].cookie \in {tab[p].cookie, NoCookie}
  \/ \E r \in Requests : /\ calls[r].stage = "done" /\ calls[r].by = p
                         /\ tab'[p].cookie = calls[r].cookie

LEMMA PutKeeps ==
  ASSUME TabsTyped, NEW p \in People, NEW t \in Tabs, Put(p, t)
  PROVE  /\ TabsTyped'
         /\ tab'[p].cookie = t.cookie
         /\ \A q \in People : q # p => tab'[q] = tab[q]
<1>1. Landed(t) \in Tabs /\ Landed(t).cookie = t.cookie
  BY LandedKeeps DEF Keeps
<1> QED
  BY <1>1 DEF Put, TabsTyped

\* A page keeps its cookie.
LEMMA PutSame ==
  ASSUME TabsTyped, NEW p \in People, NEW t, Keeps(tab[p], t), Put(p, t)
  PROVE  TabsTyped' /\ \A q \in People : CookieFrom(q)
<1>1. t \in Tabs /\ t.cookie = tab[p].cookie
  BY DEF Keeps
<1> QED
  BY <1>1, PutKeeps DEF CookieFrom

LEMMA SameTab ==
  ASSUME TabsTyped, tab' = tab
  PROVE  TabsTyped' /\ \A q \in People : CookieFrom(q)
BY DEF TabsTyped, CookieFrom

LEMMA TabFacts ==
  ASSUME TabsTyped, NEW p \in People
  PROVE  /\ tab[p] \in Tabs /\ tab[p].detail \in PublicUsers /\ tab[p].detail.id \in Nat
         /\ tab[p].selected \in Nat /\ tab[p].user \in PublicUsers /\ tab[p].cookie \in Tokens
BY DEF TabsTyped, Tabs, PublicUsers

LEMMA ByTyped ==
  ASSUME CallsTyped, NEW r \in Requests, calls[r].stage # "free"
  PROVE  calls[r].by \in People
BY StageSays DEF Pendings, Answers

LEMMA LoadTab ==
  ASSUME Typed, NEW p \in People, Load(p)
  PROVE  TabsTyped' /\ \A q \in People : CookieFrom(q)
<1>1. tab[p] \in Tabs /\ TabsTyped
  BY TabFacts DEF Typed
<1>2. PICK yes \in BOOLEAN : yes = TRUE
  BY Small
<1> DEFINE fresh == [Blank EXCEPT !.cookie = tab[p].cookie, !.hint = tab[p].hint]
<1>3. Keeps(tab[p], fresh) /\ Keeps(tab[p], [fresh EXCEPT !.loading = TRUE])
  BY <1>1, <1>2, FreshKeeps
<1>4. Put(p, fresh) \/ Put(p, [fresh EXCEPT !.loading = TRUE])
  BY DEF Load
<1> HIDE DEF fresh
<1> QED
  BY <1>1, <1>3, <1>4, PutSame

LEMMA UsersTabTab ==
  ASSUME Typed, NEW r \in Requests, NEW p \in People,
         Select(r, p) \/ SetDisabledOf(r, p) \/ DeleteUser(r, p)
  PROVE  TabsTyped' /\ \A q \in People : CookieFrom(q)
<1>1. tab[p] \in Tabs /\ TabsTyped /\ created \in Nat
  BY TabFacts DEF Typed, UsersTyped
<1>2. PICK yes \in BOOLEAN : yes = TRUE
  BY Small
<1>3. CASE Select(r, p)
  <2>1. PICK id \in 1 .. created : Put(p, [tab[p] EXCEPT !.selected = id])
    BY <1>3 DEF Select
  <2>2. id \in Nat
    BY <1>1
  <2>3. Keeps(tab[p], [tab[p] EXCEPT !.selected = id])
    BY <1>1, <2>2, DetailKeeps, Blanks
  <2> QED
    BY <1>1, <2>1, <2>3, PutSame
<1>4. CASE SetDisabledOf(r, p) \/ DeleteUser(r, p)
  <2>1. Keeps(tab[p], [tab[p] EXCEPT !.busy = TRUE])
    BY <1>1, <1>2, DetailKeeps, Blanks
  <2> QED
    BY <1>1, <1>4, <2>1, PutSame DEF SetDisabledOf, DeleteUser
<1> QED
  BY <1>3, <1>4

LEMMA ReceiveTab ==
  ASSUME Typed, NEW r \in Requests, Receive(r) \/ ReceiveRefresh(r)
  PROVE  TabsTyped' /\ \A q \in People : CookieFrom(q)
<1>1. TabsTyped /\ CallsTyped /\ calls[r].stage = "done"
  BY DEF Typed, Receive, ReceiveRefresh
<1>2. calls[r] \in Answers /\ calls[r].by \in People /\ calls[r].user \in PublicUsers
  BY <1>1, StageSays DEF Answers
<1> DEFINE p == calls[r].by
           t == WithCookie(tab[p], calls[r])
<1>3. tab[p] \in Tabs
  BY <1>1, <1>2, TabFacts
<1>4. t \in Tabs /\ t.cookie \in {tab[p].cookie, NoCookie, calls[r].cookie}
  BY <1>2, <1>3, WithCookieTyped
<1>5. \E u : Keeps(t, u) /\ Put(p, u)
  <2> HIDE DEF t
  <2>1. CASE Receive(r)
    <3>1. Put(p, OnAnswer(t, calls[r].kind, calls[r].status, calls[r].user))
      BY <2>1 DEF Receive, t
    <3>2. Keeps(t, OnAnswer(t, calls[r].kind, calls[r].status, calls[r].user))
      BY <1>2, <1>4, OnAnswerKeeps
    <3> QED
      BY <3>1, <3>2
  <2>2. CASE ReceiveRefresh(r)
    <3>1. PICK d \in PublicUsers :
            d = IF calls[r].status = 200 /\ ShowsAdmin(tab[p]) THEN calls[r].user ELSE t.detail
      BY <1>2, <1>4 DEF Tabs
    <3>2. PICK no \in BOOLEAN : no = FALSE
      BY Small
    <3>3. Put(p, [t EXCEPT !.busy = no, !.detail = d])
      BY <2>2, <3>1, <3>2 DEF ReceiveRefresh, t
    <3>4. Keeps(t, [t EXCEPT !.busy = no, !.detail = d])
      BY <1>4, DetailKeeps
    <3> QED
      BY <3>3, <3>4
  <2> QED
    BY <2>1, <2>2
<1>6. PICK u : Keeps(t, u) /\ Put(p, u)
  BY <1>5
<1> HIDE DEF t
<1>7. u \in Tabs /\ u.cookie \in {tab[p].cookie, NoCookie, calls[r].cookie}
  BY <1>4, <1>6 DEF Keeps
<1>8. /\ TabsTyped' /\ tab'[p].cookie = u.cookie
      /\ \A q \in People : q # p => tab'[q] = tab[q]
  BY <1>1, <1>2, <1>6, <1>7, PutKeeps
<1> QED
  BY <1>1, <1>7, <1>8 DEF CookieFrom

LEMMA LostTab ==
  ASSUME Typed, NEW r \in Requests, Lost(r)
  PROVE  TabsTyped' /\ \A q \in People : CookieFrom(q)
<1>1. TabsTyped /\ CallsTyped /\ calls[r].stage # "free"
  BY DEF Typed, Lost
<1> DEFINE p == calls[r].by
<1>2. p \in People /\ tab[p] \in Tabs
  BY <1>1, ByTyped, TabFacts
<1>3. PICK no \in BOOLEAN : no = FALSE
  BY Small
<1>4. /\ Keeps(tab[p], [tab[p] EXCEPT !.busy = FALSE])
      /\ Keeps(tab[p], OnAnswer(tab[p], calls[r].kind, 0, NoUser))
  BY <1>2, <1>3, DetailKeeps, OnAnswerKeeps, Blanks
<1>5. \/ Put(p, [tab[p] EXCEPT !.busy = FALSE])
      \/ Put(p, OnAnswer(tab[p], calls[r].kind, 0, NoUser))
  BY DEF Lost
<1> QED
  BY <1>1, <1>2, <1>4, <1>5, PutSame

\* Every step keeps the tabs' types; a cookie comes from an answer to the same person.
LEMMA TabStep ==
  ASSUME Typed, [Next]_vars
  PROVE  TabsTyped' /\ \A q \in People : CookieFrom(q)
<1>1. TabsTyped
  BY DEF Typed
<1>2. CASE tab' = tab
  BY <1>1, <1>2, SameTab
<1>3. ASSUME NEW r \in Requests, NEW p \in People, Page(r, p)
      PROVE  TabsTyped' /\ \A q \in People : CookieFrom(q)
  <2>1. tab' = tab \/ Select(r, p) \/ SetDisabledOf(r, p) \/ DeleteUser(r, p)
    BY <1>3 DEF Page, SubmitSignIn, SubmitSignUp, SignOut, LoadProfile, DeleteAccount, SwitchEmail,
             PressLink, CreateEntry
  <2> QED
    BY <1>2, <2>1, UsersTabTab
<1>4. ASSUME NEW p \in People, Load(p) \/ Leave(p) \/ Close(p) \/ AskDelete(p)
      PROVE  TabsTyped' /\ \A q \in People : CookieFrom(q)
  <2>1. CASE Load(p)
    BY <2>1, LoadTab
  <2>3. \A t : Keeps(tab[p], t) /\ Put(p, t) => TabsTyped' /\ \A q \in People : CookieFrom(q)
    BY <1>1, PutSame
  <2>4. CASE Leave(p) \/ Close(p) \/ AskDelete(p)
    <3>1. tab[p] \in Tabs
      BY <1>1, TabFacts
    <3>2. PICK yes \in BOOLEAN, z \in Nat : yes = TRUE /\ z = 0
      BY Small
    <3>3. /\ Keeps(tab[p], Closed(tab[p]))
          /\ Keeps(tab[p], [tab[p] EXCEPT !.selected = 0, !.detail = NoUser])
          /\ Keeps(tab[p], [tab[p] EXCEPT !.confirming = TRUE])
      BY <3>1, <3>2, ClosedKeeps, DetailKeeps, Blanks
    <3> QED
      BY <2>3, <2>4, <3>3 DEF Leave, Close, AskDelete
  <2> QED
    BY <1>4, <2>1, <2>4
<1>5. ASSUME NEW r \in Requests,
             Receive(r) \/ ReceiveSetDisabled(r) \/ ReceiveRefresh(r) \/ Lost(r) \/ Discard(r)
      PROVE  TabsTyped' /\ \A q \in People : CookieFrom(q)
  <2>1. CASE ReceiveSetDisabled(r) \/ Discard(r)
    BY <1>2, <2>1 DEF ReceiveSetDisabled, Discard
  <2> QED
    BY <1>5, <2>1, ReceiveTab, LostTab
<1> QED
  BY <1>2, <1>3, <1>4, <1>5 DEF Next, vars

Quiet == UNCHANGED <<users, created, audit, entries, locked, ended>>

\* The request r is over, or has just been sent.
Renewed(r) ==
  /\ calls' \in [Requests -> Calls]
  /\ \A q \in Requests : q # r => calls'[q] = calls[q]
  /\ \/ calls'[r] = Free
     \/ calls'[r] \in Answers /\ calls'[r].cookie = NoCookie
     \/ /\ calls'[r] \in Pendings /\ calls'[r].stage \in {"auth", "read"}
        /\ calls'[r].token = tab[calls'[r].by].cookie
        /\ calls'[r].kind = "register" => calls'[r].email \in Emails
        /\ calls'[r].kind = "confirm" =>
             /\ calls'[r].target \in DOMAIN users
             /\ Mailbox[users[calls'[r].target].email] = calls'[r].by

LEMMA SendsRenews ==
  ASSUME Typed, NEW r \in Requests, NEW k \in AllKinds, NEW p \in People, NEW n \in Nat,
         NEW e \in Emails \cup {"none"}, NEW l \in Nat,
         k = "register" => e \in Emails,
         k = "confirm" => n \in DOMAIN users /\ Mailbox[users[n].email] = p,
         calls' = [calls EXCEPT ![r] = Call(r, k, p, n, e, l)]
  PROVE  Renewed(r)
<1>1. CallsTyped /\ tab[p].cookie \in Tokens
  BY TabFacts DEF Typed
<1>2. PICK s \in {"auth", "read"} : s = FirstStage(k)
  BY DEF FirstStage
<1>3. PICK c : c = [stage |-> s, kind |-> k, by |-> p, token |-> tab[p].cookie,
                    target |-> n, email |-> e, link |-> l, found |-> NoUser]
  OBVIOUS
<1>4. c = Call(r, k, p, n, e, l)
  BY <1>2, <1>3 DEF Call
<1>5. c \in Pendings /\ c.stage \in {"auth", "read"} /\ c.token = tab[p].cookie /\ c.by = p
      /\ c.kind = k /\ c.email = e /\ c.target = n
  BY <1>1, <1>3, Blanks DEF Pendings, PendingStages
<1>6. /\ calls' \in [Requests -> Calls] /\ calls'[r] = c
      /\ \A q \in Requests : q # r => calls'[q] = calls[q]
  BY <1>1, <1>4, <1>5, Replaced DEF Calls
<1> QED
  BY <1>5, <1>6 DEF Renewed

LEMMA AsksRenews ==
  ASSUME Typed, NEW r \in Requests, NEW p \in People,
         NEW k \in {"me", "deleteMe", "emailOn", "emailOff", "entry"}, Asks(r, p, k)
  PROVE  Renewed(r)
<1>1. k \in AllKinds /\ k # "register" /\ k # "confirm" /\ 0 \in Nat
      /\ "none" \in Emails \cup {"none"}
  BY DEF AllKinds, AuthKinds, AdminKinds
<1>2. calls' = [calls EXCEPT ![r] = Call(r, k, p, 0, "none", 0)]
  BY DEF Asks, Sends
<1> QED
  BY <1>1, <1>2, SendsRenews

LEMMA NamedKinds ==
  /\ {"login", "register", "confirm", "detail", "disable", "enable", "remove", "session",
      "logout"} \subseteq AllKinds
  /\ "none" \in Emails \cup {"none"}
BY DEF AllKinds, AuthKinds, AdminKinds

LEMMA PageRenews ==
  ASSUME Typed, NEW r \in Requests, NEW p \in People, Page(r, p)
  PROVE  Renewed(r)
<1>1. CASE SubmitSignIn(r, p)
  <2>1. PICK email \in Emails : calls' = [calls EXCEPT ![r] = Call(r, "login", p, 0, email, 0)]
    BY <1>1 DEF SubmitSignIn, Sends
  <2>2. PICK k \in AllKinds : k = "login"
    BY NamedKinds
  <2> QED
    BY <2>1, <2>2, SendsRenews
<1>2. CASE SubmitSignUp(r, p)
  <2>1. PICK email \in Emails : calls' = [calls EXCEPT ![r] = Call(r, "register", p, 0, email, 0)]
    BY <1>2 DEF SubmitSignUp, Sends
  <2>2. PICK k \in AllKinds : k = "register"
    BY NamedKinds
  <2> QED
    BY <2>1, <2>2, SendsRenews
<1>3. CASE SignOut(r, p)
  <2>1. PICK k \in AllKinds, yes \in BOOLEAN : k = "logout" /\ yes = TRUE
    BY NamedKinds
  <2>2. PICK c : c = [kind |-> k, by |-> p, target |-> 0, stage |-> "done", status |-> 200,
                      cookie |-> NoCookie, clear |-> yes, user |-> NoUser]
    OBVIOUS
  <2>3. c \in Answers /\ c.cookie = NoCookie
    BY <2>2, Blanks DEF Answers
  <2>4. calls' = [calls EXCEPT ![r] = c]
    BY <1>3, <2>1, <2>2 DEF SignOut
  <2>5. CallsTyped /\ c \in Calls
    BY <2>3 DEF Typed, Calls
  <2> QED
    BY <2>3, <2>4, <2>5, Replaced DEF Renewed
<1>4. CASE LoadProfile(r, p) \/ DeleteAccount(r, p) \/ SwitchEmail(r, p) \/ CreateEntry(r, p)
  <2>1. PICK k \in {"me", "deleteMe", "emailOn", "emailOff", "entry"} : Asks(r, p, k)
    BY <1>4 DEF LoadProfile, DeleteAccount, SwitchEmail, CreateEntry
  <2> QED
    BY <2>1, AsksRenews
<1>5. CASE PressLink(r, p)
  <2>1. PICK id \in DOMAIN users :
          /\ Mailbox[users[id].email] = p
          /\ calls' = [calls EXCEPT ![r] = Call(r, "confirm", p, id, "none", users[id].link)]
    BY <1>5 DEF PressLink, Sends
  <2>2. id \in Nat /\ users[id].link \in Nat
    BY DEF Typed, UsersTyped, Rows
  <2>3. PICK k \in AllKinds : k = "confirm"
    BY NamedKinds
  <2> QED
    BY <2>1, <2>2, <2>3, NamedKinds, SendsRenews
<1>6. CASE Select(r, p)
  <2>1. PICK id \in 1 .. created : calls' = [calls EXCEPT ![r] = Call(r, "detail", p, id, "none", 0)]
    BY <1>6 DEF Select, Sends
  <2>2. id \in Nat
    BY DEF Typed, UsersTyped
  <2>3. PICK k \in AllKinds : k = "detail"
    BY NamedKinds
  <2> QED
    BY <2>1, <2>2, <2>3, NamedKinds, SendsRenews
<1>7. CASE SetDisabledOf(r, p) \/ DeleteUser(r, p)
  <2>1. PICK k \in {"disable", "enable", "remove"} :
          calls' = [calls EXCEPT ![r] = Call(r, k, p, tab[p].detail.id, "none", 0)]
    BY <1>7 DEF SetDisabledOf, DeleteUser, Sends
  <2>2. tab[p].detail.id \in Nat
    BY TabFacts DEF Typed
  <2>3. k \in AllKinds /\ k # "register" /\ k # "confirm" /\ 0 \in Nat
    BY NamedKinds
  <2> QED
    BY <2>1, <2>2, <2>3, NamedKinds, SendsRenews
<1> QED
  BY <1>1, <1>2, <1>3, <1>4, <1>5, <1>6, <1>7 DEF Page

LEMMA FreeRenews ==
  ASSUME CallsTyped, NEW r \in Requests, Free1(r)
  PROVE  Renewed(r)
<1>1. Free \in Calls
  BY DEF Calls
<1> QED
  BY <1>1, Replaced DEF Free1, Renewed

LEMMA RefreshRenews ==
  ASSUME Typed, NEW r \in Requests, ReceiveSetDisabled(r)
  PROVE  Renewed(r)
<1>1. calls[r] \in Answers
  BY StageSays DEF Typed, ReceiveSetDisabled
<1>2. calls[r].by \in People /\ calls[r].target \in Nat
  BY <1>1 DEF Answers
<1>3. PICK k \in AllKinds : k = "detail"
  BY NamedKinds
<1>4. calls' = [calls EXCEPT ![r] = Call(r, k, calls[r].by, calls[r].target, "none", 0)]
  BY <1>3 DEF ReceiveSetDisabled
<1>5. k # "register" /\ k # "confirm" /\ 0 \in Nat
  BY <1>3
<1> QED
  BY <1>2, <1>4, <1>5, NamedKinds, SendsRenews

\* The steps of the pages.
PageNext ==
  \/ \E r \in Requests, p \in People : Page(r, p)
  \/ \E p \in People : Load(p) \/ Leave(p) \/ Close(p) \/ AskDelete(p)
  \/ \E r \in Requests :
       Receive(r) \/ ReceiveSetDisabled(r) \/ ReceiveRefresh(r) \/ Lost(r) \/ Discard(r)

LEMMA PageStep ==
  ASSUME Typed, PageNext
  PROVE  Quiet /\ (calls' = calls \/ \E r \in Requests : Renewed(r))
<1>1. ASSUME NEW r \in Requests, NEW p \in People, Page(r, p)
      PROVE  Quiet /\ Renewed(r)
  BY <1>1, PageRenews DEF Quiet, Page, SubmitSignIn, SubmitSignUp, SignOut, LoadProfile,
     DeleteAccount, SwitchEmail, PressLink, CreateEntry, Select, SetDisabledOf, DeleteUser,
     Asks, Sends
<1>2. ASSUME NEW p \in People, Load(p)
      PROVE  Quiet /\ (calls' = calls \/ \E r \in Requests : Renewed(r))
  <2>1. CASE UNCHANGED serverVars
    BY <2>1 DEF serverVars, Quiet
  <2>2. ASSUME NEW r \in Requests, calls' = [calls EXCEPT ![r] = Call(r, "session", p, 0, "none", 0)]
        PROVE  Renewed(r)
    <3>1. PICK k \in AllKinds : k = "session"
      BY NamedKinds
    <3> QED
      BY <2>2, <3>1, NamedKinds, SendsRenews
  <2> QED
    BY <1>2, <2>1, <2>2 DEF Load, Quiet
<1>3. ASSUME NEW p \in People, Leave(p) \/ Close(p) \/ AskDelete(p)
      PROVE  Quiet /\ calls' = calls
  BY <1>3 DEF Leave, Close, AskDelete, Quiet, serverVars
<1>4. ASSUME NEW r \in Requests,
             Receive(r) \/ ReceiveSetDisabled(r) \/ ReceiveRefresh(r) \/ Lost(r) \/ Discard(r)
      PROVE  Quiet /\ (calls' = calls \/ Renewed(r))
  <2>1. CASE Receive(r) \/ ReceiveRefresh(r) \/ Discard(r)
    BY <2>1, FreeRenews DEF Receive, ReceiveRefresh, Discard, Quiet, Typed
  <2>2. CASE ReceiveSetDisabled(r)
    BY <2>2, RefreshRenews DEF ReceiveSetDisabled, Quiet
  <2>3. CASE Lost(r)
    BY <2>3 DEF Lost, Quiet, serverVars
  <2> QED
    BY <1>4, <2>1, <2>2, <2>3
<1> QED
  BY <1>1, <1>2, <1>3, <1>4 DEF PageNext

-----------------------------------------------------------------------------
(***************************************************************************)
(* The statements that read: what a request knows is right.                *)
(***************************************************************************)
\* The call r moves, the others stay; what it carries now is right.
Moves(r) ==
  /\ calls' \in [Requests -> Calls]
  /\ \A q \in Requests : q # r => calls'[q] = calls[q]
  /\ CallOK(r)'

\* The accounts stay as they are.
SameRows == users' = users /\ created' = created

LEMMA NobodysId ==
  ASSUME UsersTyped, NEW p
  PROVE  Owned(p, NoCookie.id)
BY DEF UsersTyped, Owned, NoCookie

\* An answer without a cookie.
LEMMA PlainAnswer ==
  ASSUME NEW r \in Requests, UsersTyped', Answers1(r), calls'[r].cookie = NoCookie
  PROVE  Moves(r) /\ calls'[r].stage = "done"
<1>1. CallOK(r)'
  BY DEF Answers1, CallOK, Owned, UsersTyped, NoCookie, PendingStages
<1> QED
  BY <1>1 DEF Moves, Answers1

LEMMA GoesOK ==
  ASSUME CallsTyped, NEW r \in Requests, calls[r] \in Pendings, CallOK(r), SameRows,
         NEW s \in PendingStages, Goes(r, s), s # "session",
         s = "write" => calls[r].kind \notin {"login", "confirm", "emailOn", "emailOff"}
  PROVE  Moves(r) /\ calls'[r].stage = s /\ calls'[r].target = calls[r].target
<1>1. /\ Advances(r, s)
      /\ calls'[r].target = calls[r].target /\ calls'[r].email = calls[r].email
      /\ calls'[r].found = calls[r].found
  BY GoesAdvances
<1>2. PendingOK(calls[r])
  BY DEF CallOK, Pendings
<1>3. CallOK(r)'
  BY <1>1, <1>2 DEF CallOK, PendingOK, Advances, SameRows, Owned, PendingStages
<1> QED
  BY <1>1, <1>3 DEF Moves, Advances

\* Every handler that only reads.
Reads(r) == Authenticate(r) \/ Read(r) \/ ConfirmSession(r) \/ EraseRecords(r)

LEMMA ReadsAreQuiet ==
  ASSUME NEW r \in Requests, Reads(r)
  PROVE  UNCHANGED <<users, created, audit, entries, locked, ended>>
BY DEF Reads, Authenticate, Read, ConfirmSession, EraseRecords

LEMMA AuthenticateMoves ==
  ASSUME Typed, NEW r \in Requests, CallOK(r), Authenticate(r)
  PROVE  Moves(r) /\ calls'[r].stage # "commit"
<1>1. CallsTyped /\ UsersTyped' /\ SameRows
  BY DEF Typed, Authenticate, UsersTyped, SameRows
<1>2. calls[r] \in Pendings
  BY <1>1, StageSays DEF Authenticate, PendingStages
<1>3. CASE Goes(r, "read")
  BY <1>1, <1>2, <1>3, GoesOK DEF PendingStages
<1>4. CASE \E st \in Nat : RespondClearing(r, st) \/ Respond(r, st)
  BY <1>1, <1>2, <1>4, RespondAnswers, ClearingAnswers, PlainAnswer
<1> DEFINE mail == users[calls[r].token.id].email
<1>5. ASSUME calls[r].kind = "entry", Valid(calls[r].token),
             calls' = [calls EXCEPT ![r].stage = "read", ![r].email = mail]
      PROVE  Moves(r) /\ calls'[r].stage # "commit"
  <2>1. mail \in Emails
    BY <1>5 DEF Typed, UsersTyped, Rows, Valid, Exists
  <2>2. PICK s \in PendingStages : s = "read"
    BY DEF PendingStages
  <2> HIDE DEF mail
  <2>3. Advances(r, s) /\ calls'[r].target = calls[r].target /\ calls'[r].found = calls[r].found
    BY <1>1, <1>2, <1>5, <2>1, <2>2, EmailAdvances
  <2>4. PendingOK(calls[r])
    BY <1>2 DEF CallOK, Pendings
  <2>5. CallOK(r)'
    BY <1>1, <1>5, <2>2, <2>3, <2>4
       DEF CallOK, PendingOK, Advances, SameRows, Owned, PendingStages
  <2> QED
    BY <2>2, <2>3, <2>5 DEF Moves, Advances
<1> QED
  BY <1>3, <1>4, <1>5 DEF Authenticate

LEMMA RegisterReadMoves ==
  ASSUME Typed, NEW r \in Requests, CallOK(r), calls[r] \in Pendings, SameRows,
         calls[r].kind = "register", ReadForRegister(r)
  PROVE  Moves(r) /\ calls'[r].stage # "commit"
<1>1. CallsTyped /\ UsersTyped'
  BY DEF Typed, UsersTyped, SameRows
<1>2. CASE Respond(r, 409)
  BY <1>1, <1>2, RespondAnswers, PlainAnswer
<1>3. CASE Goes(r, "write")
  BY <1>1, <1>3, GoesOK DEF PendingStages
<1> QED
  BY <1>2, <1>3 DEF ReadForRegister

LEMMA LoginReadMoves ==
  ASSUME Typed, NEW r \in Requests, CallOK(r), calls[r] \in Pendings, SameRows,
         calls[r].kind = "login", ReadForLogin(r)
  PROVE  Moves(r) /\ calls'[r].stage # "commit"
<1>1. CallsTyped /\ UsersTyped' /\ UsersTyped
  BY DEF Typed, UsersTyped, SameRows
<1>2. CASE \E st \in Nat : Respond(r, st)
  BY <1>1, <1>2, RespondAnswers, PlainAnswer
<1>3. ASSUME NEW id \in DOMAIN users, users[id].owner = calls[r].by,
             calls' = [calls EXCEPT ![r].stage = "write", ![r].target = id]
      PROVE  Moves(r) /\ calls'[r].stage # "commit"
  <2>1. id \in Nat /\ id <= created
    BY <1>1 DEF UsersTyped
  <2>2. PICK s \in PendingStages : s = "write"
    BY DEF PendingStages
  <2>3. Advances(r, s) /\ calls'[r].target = id
    BY <1>1, <1>3, <2>1, <2>2, TargetAdvances
  <2>4. PendingOK(calls[r])
    BY DEF CallOK, Pendings
  <2>5. CallOK(r)'
    BY <1>3, <2>1, <2>2, <2>3, <2>4
       DEF CallOK, PendingOK, Advances, SameRows, Owned, PendingStages
  <2> QED
    BY <2>2, <2>3, <2>5 DEF Moves, Advances
<1> QED
  BY <1>2, <1>3 DEF ReadForLogin, WithEmail

LEMMA OwnReadMoves ==
  ASSUME Typed, NEW r \in Requests, CallOK(r), calls[r] \in Pendings, SameRows,
         calls[r].kind \in {"me", "session", "deleteMe", "emailOn", "emailOff"}, ReadOwn(r)
  PROVE  Moves(r) /\ calls'[r].stage # "commit"
<1>1. CallsTyped /\ UsersTyped' /\ UsersTyped
  BY DEF Typed, UsersTyped, SameRows
<1> DEFINE id == calls[r].token.id
<1>2. CASE \E st \in Nat : RespondClearing(r, st) \/ Respond(r, st)
  BY <1>1, <1>2, RespondAnswers, ClearingAnswers, PlainAnswer
<1>3. CASE \E u \in PublicUsers : RespondUser(r, u)
  BY <1>1, <1>3, UserAnswers, PlainAnswer
<1>4. PendingOK(calls[r])
  BY DEF CallOK, Pendings
<1>5. ASSUME calls[r].kind = "deleteMe", Exists(id),
             calls' = [calls EXCEPT ![r].stage = "erase", ![r].target = id]
      PROVE  Moves(r) /\ calls'[r].stage # "commit"
  <2>1. id \in Nat
    BY <1>1, <1>5 DEF UsersTyped, Exists
  <2>2. PICK s \in PendingStages : s = "erase"
    BY DEF PendingStages
  <2>3. Advances(r, s)
    BY <1>1, <1>5, <2>1, <2>2, TargetAdvances
  <2>4. CallOK(r)'
    BY <1>4, <1>5, <2>2, <2>3
       DEF CallOK, PendingOK, Advances, SameRows, Owned, PendingStages
  <2> QED
    BY <2>2, <2>3, <2>4 DEF Moves, Advances
<1>6. ASSUME calls[r].kind \in {"emailOn", "emailOff"}, Exists(id)
      PROVE  Moves(r) /\ calls'[r].stage # "commit"
  <2>1. id \in Nat /\ users[id] \in Rows /\ users[id] \in Finds
    BY <1>1, <1>6 DEF UsersTyped, Exists, Finds
  <2>2. PICK s \in PendingStages : s = "write"
    BY DEF PendingStages
  <2>3. PICK c : c = [calls[r] EXCEPT !.stage = s, !.target = id, !.found = users[id]]
    OBVIOUS
  <2>4. /\ c \in Pendings /\ c.stage = s /\ c.kind = calls[r].kind /\ c.by = calls[r].by
        /\ c.token = calls[r].token /\ c.link = calls[r].link /\ c.found = users[id]
    BY <2>1, <2>3 DEF Pendings
  <2>5. calls' = [calls EXCEPT ![r] = c]
    BY <1>1, <1>6, <2>2, <2>3 DEF ReadOwn, CallsTyped
  <2>6. Advances(r, s) /\ calls'[r] = c
    BY <1>1, <2>4, <2>5, ChangeAdvances
  <2>7. CallOK(r)'
    BY <1>4, <1>6, <2>1, <2>2, <2>4, <2>6
       DEF CallOK, PendingOK, Advances, SameRows, Owned, PendingStages
  <2> QED
    BY <2>2, <2>6, <2>7 DEF Moves, Advances
<1>7. Exists(id) => PublicUser(id) \in PublicUsers
  BY <1>1, PublicUserTyped DEF Exists
<1>8. CASE calls[r].kind = "me"
  BY <1>2, <1>3, <1>7, <1>8 DEF ReadOwn
<1>9. CASE calls[r].kind = "session"
  BY <1>3, <1>7, <1>9, Blanks DEF ReadOwn
<1>10. CASE calls[r].kind = "deleteMe"
  BY <1>2, <1>5, <1>10 DEF ReadOwn
<1>11. CASE calls[r].kind \in {"emailOn", "emailOff"}
  <2>1. CASE Exists(id)
    BY <1>6, <1>11, <2>1
  <2>2. CASE ~ Exists(id)
    <3>1. CASE calls[r].kind = "emailOn"
      <4>1. Respond(r, 500)
        BY <2>2, <3>1 DEF ReadOwn
      <4> QED
        BY <1>2, <4>1
    <3>2. CASE calls[r].kind = "emailOff"
      <4>1. Respond(r, 500)
        BY <2>2, <3>2 DEF ReadOwn
      <4> QED
        BY <1>2, <4>1
    <3> QED
      BY <1>11, <3>1, <3>2
  <2> QED
    BY <2>1, <2>2
<1> QED
  BY <1>8, <1>9, <1>10, <1>11

LEMMA TargetReadMoves ==
  ASSUME Typed, NEW r \in Requests, CallOK(r), calls[r] \in Pendings, SameRows,
         calls[r].kind \in {"detail", "disable", "enable", "remove"}, ReadTarget(r)
  PROVE  Moves(r) /\ calls'[r].stage # "commit"
<1>1. CallsTyped /\ UsersTyped' /\ UsersTyped
  BY DEF Typed, UsersTyped, SameRows
<1>2. CASE \E st \in Nat : Respond(r, st)
  BY <1>1, <1>2, RespondAnswers, PlainAnswer
<1>3. CASE \E u \in PublicUsers : RespondUser(r, u)
  BY <1>1, <1>3, UserAnswers, PlainAnswer
<1>4. CASE Goes(r, "erase") \/ Goes(r, "hold")
  BY <1>1, <1>4, GoesOK DEF PendingStages
<1>5. Exists(calls[r].target) => PublicUser(calls[r].target) \in PublicUsers
  BY <1>1, PublicUserTyped DEF Exists
<1> QED
  BY <1>2, <1>3, <1>4, <1>5 DEF ReadTarget

LEMMA LinkReadMoves ==
  ASSUME Typed, NEW r \in Requests, CallOK(r), calls[r] \in Pendings, SameRows,
         calls[r].kind = "confirm", ReadLink(r)
  PROVE  Moves(r) /\ calls'[r].stage # "commit"
<1>1. CallsTyped /\ UsersTyped' /\ UsersTyped
  BY DEF Typed, UsersTyped, SameRows
<1>2. CASE Respond(r, 404)
  BY <1>1, <1>2, RespondAnswers, PlainAnswer
<1>3. ASSUME Exists(calls[r].target),
             calls' = [calls EXCEPT ![r].stage = "session",
                                    ![r].email = users[calls[r].target].email]
      PROVE  Moves(r) /\ calls'[r].stage # "commit"
  <2>1. users[calls[r].target].email \in Emails
    BY <1>1, <1>3 DEF UsersTyped, Exists, Rows
  <2>2. PICK s \in PendingStages : s = "session"
    BY DEF PendingStages
  <2>3. Advances(r, s) /\ calls'[r].target = calls[r].target
    BY <1>1, <1>3, <2>1, <2>2, EmailAdvances
  <2>4. PendingOK(calls[r])
    BY DEF CallOK, Pendings
  <2>5. CallOK(r)'
    BY <2>2, <2>3, <2>4
       DEF CallOK, PendingOK, Advances, SameRows, Owned, PendingStages
  <2> QED
    BY <2>2, <2>3, <2>5 DEF Moves, Advances
<1> QED
  BY <1>2, <1>3 DEF ReadLink

LEMMA ReadMoves ==
  ASSUME Typed, NEW r \in Requests, CallOK(r), Read(r)
  PROVE  Moves(r) /\ calls'[r].stage # "commit"
<1>1. CallsTyped /\ SameRows
  BY DEF Typed, Read, SameRows
<1>2. calls[r] \in Pendings
  BY <1>1, StageSays DEF Read, PendingStages
<1>3. CASE calls[r].kind = "entry" /\ Goes(r, "write")
  BY <1>1, <1>2, <1>3, GoesOK DEF PendingStages
<1> QED
  BY <1>1, <1>2, <1>3, RegisterReadMoves, LoginReadMoves, OwnReadMoves, TargetReadMoves,
     LinkReadMoves DEF Read

LEMMA ConfirmSessionMoves ==
  ASSUME Typed, NEW r \in Requests, CallOK(r), ConfirmSession(r)
  PROVE  Moves(r) /\ calls'[r].stage # "commit"
<1>1. CallsTyped /\ UsersTyped' /\ UsersTyped /\ SameRows
  BY DEF Typed, UsersTyped, SameRows, ConfirmSession
<1>2. calls[r] \in Pendings /\ calls[r].stage = "session"
  BY <1>1, StageSays DEF ConfirmSession, PendingStages
<1>3. CASE Respond(r, 403)
  BY <1>1, <1>2, <1>3, RespondAnswers, PlainAnswer
<1> DEFINE signedIn == Valid(calls[r].token) /\ calls[r].token.id = calls[r].target
<1>4. ASSUME calls' = [calls EXCEPT ![r].stage = "write", ![r].found = signedIn]
      PROVE  Moves(r) /\ calls'[r].stage # "commit"
  <2>1. signedIn \in BOOLEAN
    BY DEF Valid, Exists
  <2>2. PICK f \in BOOLEAN : f = signedIn
    BY <2>1
  <2>3. f \in Finds
    BY DEF Finds
  <2>4. PICK s \in PendingStages : s = "write"
    BY DEF PendingStages
  <2> HIDE DEF signedIn
  <2>5. Advances(r, s) /\ calls'[r].target = calls[r].target /\ calls'[r].found = f
    BY <1>1, <1>2, <1>4, <2>2, <2>3, <2>4, FoundAdvances
  <2>6. PendingOK(calls[r])
    BY <1>2 DEF CallOK, Pendings
  <2>7. f = TRUE => Owned(calls[r].by, calls[r].target)
    BY <2>2, <2>6 DEF signedIn, PendingOK
  <2>8. calls[r].kind = "confirm"
    BY <1>2, <2>6 DEF PendingOK
  <2>9. CallOK(r)'
    BY <1>1, <2>4, <2>5, <2>6, <2>7, <2>8
       DEF CallOK, PendingOK, Advances, SameRows, Owned, PendingStages
  <2> QED
    BY <2>4, <2>5, <2>9 DEF Moves, Advances
<1> HIDE DEF signedIn
<1> QED
  BY <1>3, <1>4 DEF ConfirmSession, signedIn

LEMMA EraseRecordsMoves ==
  ASSUME Typed, NEW r \in Requests, CallOK(r), EraseRecords(r)
  PROVE  Moves(r) /\ calls'[r].stage # "commit"
<1>1. CallsTyped /\ SameRows
  BY DEF Typed, SameRows, EraseRecords
<1>2. calls[r] \in Pendings /\ calls[r].stage = "erase"
  BY <1>1, StageSays DEF EraseRecords, PendingStages
<1> DEFINE rows == AuditRowsOf(calls[r].target) \cup EntryRowsOf(calls[r].target)
<1>3. rows \in Finds
  <2>1. DOMAIN audit \subseteq Nat
    BY DEF Typed, AuditTyped
  <2> QED
    BY <2>1 DEF Finds, AuditRowsOf, EntryRowsOf
<1>4. PICK s \in PendingStages : s = "delete"
  BY DEF PendingStages
<1>5. Advances(r, s) /\ calls'[r].target = calls[r].target /\ calls'[r].email = calls[r].email
  BY <1>1, <1>2, <1>3, <1>4, FoundAdvances DEF EraseRecords
<1>6. PendingOK(calls[r])
  BY <1>2 DEF CallOK, Pendings
<1>7. CallOK(r)'
  BY <1>1, <1>4, <1>5, <1>6
     DEF CallOK, PendingOK, Advances, SameRows, Owned, PendingStages
<1> QED
  BY <1>4, <1>5, <1>7 DEF Moves, Advances

LEMMA ReadsMove ==
  ASSUME Typed, NEW r \in Requests, CallOK(r), Reads(r)
  PROVE  Moves(r) /\ calls'[r].stage # "commit"
BY AuthenticateMoves, ReadMoves, ConfirmSessionMoves, EraseRecordsMoves DEF Reads

-----------------------------------------------------------------------------
(***************************************************************************)
(* The statements that write accounts                                      *)
(***************************************************************************)
\* An id keeps its address and its owner, is never given out twice, and its version only
\* grows.
Grows ==
  /\ created <= created'
  /\ \A id \in DOMAIN users' : id <= created =>
       /\ id \in DOMAIN users
       /\ users'[id].email = users[id].email /\ users'[id].owner = users[id].owner
       /\ users[id].version <= users'[id].version

\* A mailbox is proven for an account only by the account's owner.
ProvenKept ==
  \A id \in DOMAIN users' : users'[id].proven = TRUE =>
    /\ id \in DOMAIN users
    /\ users[id].proven = TRUE \/ users[id].owner = Mailbox[users[id].email]

FlagsKept ==
  \A id \in DOMAIN users' :
    /\ id \in DOMAIN users => users'[id].disabled = users[id].disabled
    /\ id \notin DOMAIN users => users'[id].disabled = FALSE

RowsKept == UsersTyped' /\ Grows /\ ProvenKept /\ FlagsKept /\ DOMAIN users \subseteq DOMAIN users'

LEMMA SameRowsKept ==
  ASSUME UsersTyped, SameRows
  PROVE  RowsKept
<1>1. \A id \in DOMAIN users : users[id].version \in Nat
  BY DEF UsersTyped, Rows
<1> QED
  BY <1>1 DEF UsersTyped, SameRows, RowsKept, Grows, ProvenKept, FlagsKept

\* One row is replaced by one of the same account.
Replaces(id, row) ==
  /\ id \in DOMAIN users /\ row \in Rows
  /\ users' = [users EXCEPT ![id] = row] /\ created' = created
  /\ row.email = users[id].email /\ row.owner = users[id].owner
  /\ users[id].version <= row.version

LEMMA ReplacesGrows ==
  ASSUME UsersTyped, NEW id, NEW row, Replaces(id, row)
  PROVE  /\ UsersTyped' /\ Grows /\ DOMAIN users' = DOMAIN users /\ users'[id] = row
         /\ \A u \in DOMAIN users : u # id => users'[u] = users[u]
<1>1. DOMAIN users' = DOMAIN users /\ users'[id] = row
      /\ \A u \in DOMAIN users : u # id => users'[u] = users[u]
  BY DEF UsersTyped, Replaces
<1>2. UsersTyped'
  BY <1>1 DEF UsersTyped, Replaces
<1>3. \A u \in DOMAIN users : users[u].version \in Nat
  BY DEF UsersTyped, Rows
<1> QED
  BY <1>1, <1>2, <1>3 DEF UsersTyped, Grows, Replaces

LEMMA ReplacesKept ==
  ASSUME UsersTyped, NEW id, NEW row, Replaces(id, row), row.disabled = users[id].disabled,
         row.proven = TRUE =>
           users[id].proven = TRUE \/ users[id].owner = Mailbox[users[id].email]
  PROVE  RowsKept
<1>1. /\ UsersTyped' /\ Grows /\ DOMAIN users' = DOMAIN users /\ users'[id] = row
      /\ \A u \in DOMAIN users : u # id => users'[u] = users[u]
  BY ReplacesGrows
<1>2. ProvenKept /\ FlagsKept
  BY <1>1 DEF ProvenKept, FlagsKept
<1> QED
  BY <1>1, <1>2 DEF RowsKept

LEMMA WriteUserStep ==
  ASSUME Typed, NEW r \in Requests, CallOK(r), calls[r] \in Pendings,
         calls[r].kind = "register", WriteUser(r)
  PROVE  RowsKept /\ Moves(r) /\ calls'[r].stage = "done"
<1>1. CallsTyped /\ UsersTyped /\ calls[r].by \in People
  BY DEF Typed, Pendings
<1>2. CASE Respond(r, 409) /\ UNCHANGED <<users, created>>
  <2>1. SameRows /\ UsersTyped'
    BY <1>1, <1>2 DEF SameRows, UsersTyped
  <2> QED
    BY <1>1, <1>2, <2>1, RespondAnswers, PlainAnswer, SameRowsKept
<1> DEFINE id == created + 1
           row == NewRow(calls[r].email, calls[r].by)
<1>3. ASSUME users' = [u \in DOMAIN users \cup {id} |-> IF u = id THEN row ELSE users[u]],
             created' = id,
             SignIn(r, [id |-> id, version |-> 0], PublicOf(id, row))
      PROVE  RowsKept /\ Moves(r) /\ calls'[r].stage = "done"
  <2>1. calls[r].email \in Emails
    BY DEF CallOK, PendingOK, Pendings
  <2>2. row \in Rows /\ row.owner = calls[r].by /\ row.disabled = FALSE /\ row.proven = FALSE
    BY <1>1, <2>1, NewRowTyped DEF NewRow
  <2>3. id \in Nat /\ id \notin DOMAIN users /\ DOMAIN users \subseteq 1 .. created /\ created \in Nat
    BY <1>1 DEF UsersTyped
  <2> HIDE DEF row
  <2>4. /\ DOMAIN users' = DOMAIN users \cup {id} /\ users'[id] = row
        /\ \A u \in DOMAIN users : users'[u] = users[u]
    BY <1>3, <2>3
  <2>5. UsersTyped'
    BY <1>1, <1>3, <2>2, <2>3, <2>4 DEF UsersTyped
  <2>6. \A u \in DOMAIN users : users[u].version \in Nat
    BY <1>1 DEF UsersTyped, Rows
  <2>7. Grows
    BY <1>3, <2>3, <2>4, <2>6 DEF Grows
  <2>8. ProvenKept /\ FlagsKept
    BY <2>2, <2>4, <2>3 DEF ProvenKept, FlagsKept
  <2>9. PICK ck \in Tokens : ck = [id |-> id, version |-> 0]
    BY <2>3 DEF Tokens
  <2>10. ck.id = id
    BY <2>9
  <2>11. Answers1(r) /\ calls'[r].cookie = ck
    <3>1. PublicOf(id, row) \in PublicUsers
      BY <2>2, <2>3, PublicTyped
    <3>2. SignIn(r, ck, PublicOf(id, row))
      BY <1>3, <2>9
    <3> QED
      BY <1>1, <3>1, <3>2, SignInAnswers
  <2>12. CallOK(r)'
    BY <1>3, <2>2, <2>3, <2>4, <2>10, <2>11 DEF Answers1, CallOK, Owned, PendingStages
  <2> QED
    BY <2>4, <2>5, <2>7, <2>8, <2>11, <2>12 DEF RowsKept, Moves, Answers1
<1> HIDE DEF id, row
<1> QED
  BY <1>2, <1>3 DEF WriteUser, id, row

LEMMA WriteLoginStep ==
  ASSUME Typed, NEW r \in Requests, CallOK(r), calls[r] \in Pendings, calls[r].stage = "write",
         calls[r].kind = "login", WriteLogin(r)
  PROVE  RowsKept /\ Moves(r) /\ calls'[r].stage = "done"
<1>1. CallsTyped /\ UsersTyped /\ SameRows /\ UsersTyped'
  BY DEF Typed, WriteLogin, SameRows, UsersTyped
<1>2. RowsKept
  BY <1>1, SameRowsKept
<1>3. CASE Respond(r, 500)
  BY <1>1, <1>2, <1>3, RespondAnswers, PlainAnswer
<1> DEFINE id == calls[r].target
<1>4. ASSUME Exists(id), SignIn(r, SessionOf(id), PublicUser(id))
      PROVE  Moves(r) /\ calls'[r].stage = "done"
  <2>1. id \in DOMAIN users /\ PublicUser(id) \in PublicUsers
    BY <1>1, <1>4, PublicUserTyped DEF Exists
  <2>2. PICK ck \in Tokens : ck = SessionOf(id) /\ ck.id = id
    BY <1>1, <2>1, SessionTyped
  <2>3. Answers1(r) /\ calls'[r].cookie = ck
    BY <1>1, <1>4, <2>1, <2>2, SignInAnswers
  <2>4. Owned(calls[r].by, id)
    BY DEF CallOK, PendingOK, Pendings
  <2>5. CallOK(r)'
    BY <1>1, <2>2, <2>3, <2>4 DEF Answers1, CallOK, Owned, SameRows, PendingStages
  <2> QED
    BY <2>3, <2>5 DEF Moves, Answers1
<1> QED
  BY <1>2, <1>3, <1>4 DEF WriteLogin

LEMMA WriteConfirmStep ==
  ASSUME Typed, NEW r \in Requests, CallOK(r), calls[r] \in Pendings, calls[r].stage = "write",
         calls[r].kind = "confirm", WriteConfirm(r)
  PROVE  RowsKept /\ Moves(r) /\ calls'[r].stage = "done"
<1>1. CallsTyped /\ UsersTyped /\ created' = created /\ PendingOK(calls[r])
  BY DEF Typed, WriteConfirm, CallOK, PendingStages
<1>2. PICK st \in Nat : Respond(r, st)
  BY DEF WriteConfirm
<1>3. RowsKept
  <2>1. CASE users' = users
    BY <1>1, <2>1, SameRowsKept DEF SameRows
  <2> DEFINE id == calls[r].target
  <2>2. ASSUME Exists(id),
               users' = [users EXCEPT ![id].verified = TRUE, ![id].link = 0,
                                      ![id].proven = @ \/ calls[r].found]
        PROVE  RowsKept
    <3>1. id \in DOMAIN users /\ users[id] \in Rows
      BY <1>1, <2>2 DEF UsersTyped, Exists
    <3>2. calls[r].found \in BOOLEAN /\ (calls[r].found = TRUE => Owned(calls[r].by, id))
          /\ Mailbox[users[id].email] = calls[r].by
      BY <1>1, <3>1 DEF PendingOK
    <3>3. PICK yes \in BOOLEAN, z \in Nat : yes = TRUE /\ z = 0
      BY Small
    <3>4. PICK f \in BOOLEAN : f = calls[r].found
      BY <3>2
    <3>5. PICK pr \in BOOLEAN : pr = (users[id].proven \/ f)
      OBVIOUS
    <3>6. PICK row : row = [users[id] EXCEPT !.verified = yes, !.link = z, !.proven = pr]
      OBVIOUS
    <3>7. users' = [users EXCEPT ![id] = row]
      BY <1>1, <2>2, <3>1, <3>3, <3>4, <3>5, <3>6 DEF UsersTyped
    <3>8. /\ row \in Rows /\ row.email = users[id].email /\ row.owner = users[id].owner
          /\ row.version = users[id].version /\ row.disabled = users[id].disabled
          /\ row.proven = pr
      BY <3>1, <3>6 DEF Rows
    <3>9. users[id].version \in Nat /\ users[id].proven \in BOOLEAN
      BY <3>1 DEF Rows
    <3>10. Replaces(id, row)
      BY <1>1, <3>1, <3>7, <3>8, <3>9 DEF Replaces
    <3>11. pr = TRUE => users[id].proven = TRUE \/ f = TRUE
      BY <3>5, <3>9
    <3>12. row.proven = TRUE =>
             users[id].proven = TRUE \/ users[id].owner = Mailbox[users[id].email]
      BY <3>1, <3>2, <3>4, <3>8, <3>11 DEF Owned
    <3> QED
      BY <1>1, <3>8, <3>10, <3>12, ReplacesKept
  <2> HIDE DEF id
  <2> QED
    BY <2>1, <2>2 DEF WriteConfirm, id
<1>4. UsersTyped'
  BY <1>3 DEF RowsKept
<1> QED
  BY <1>1, <1>2, <1>3, <1>4, RespondAnswers, PlainAnswer

LEMMA WriteEmailStep ==
  ASSUME Typed, NEW r \in Requests, CallOK(r), calls[r] \in Pendings, calls[r].stage = "write",
         calls[r].kind \in {"emailOn", "emailOff"}, WriteEmail(r)
  PROVE  RowsKept /\ Moves(r) /\ calls'[r].stage = "done"
<1>1. CallsTyped /\ UsersTyped /\ created' = created /\ PendingOK(calls[r])
  BY DEF Typed, WriteEmail, CallOK, PendingStages
<1>2. PICK st \in Nat : Respond(r, st)
  <2> DEFINE given == IF /\ calls[r].kind = "emailOn" /\ calls[r].found.on
                         /\ ~ (~ calls[r].found.verified /\ calls[r].found.link = 0)
                      THEN 200 ELSE 500
  <2>1. Respond(r, 200) \/ Respond(r, given)
    BY Zenon DEF WriteEmail
  <2>2. 200 \in Nat /\ given \in Nat
    OBVIOUS
  <2> HIDE DEF given
  <2> QED
    BY <2>1, <2>2, Zenon
<1> DEFINE id == calls[r].target
           was == calls[r].found
           needsLink == ~ was.verified /\ was.link = 0
<1>3. was \in Rows
  BY <1>1 DEF PendingOK
<1>4. RowsKept
  <2>1. CASE users' = users
    BY <1>1, <2>1, SameRowsKept DEF SameRows
  <2>2. ASSUME NEW row, id \in DOMAIN users, users' = [users EXCEPT ![id] = row],
               row \in Rows, row.email = users[id].email, row.owner = users[id].owner,
               row.version = users[id].version, row.disabled = users[id].disabled,
               row.proven = users[id].proven
        PROVE  RowsKept
    <3>1. users[id].version \in Nat
      BY <1>1, <2>2 DEF UsersTyped, Rows
    <3>2. Replaces(id, row)
      BY <1>1, <2>2, <3>1 DEF Replaces
    <3> QED
      BY <1>1, <2>2, <3>2, ReplacesKept
  <2>3. ASSUME id \in DOMAIN users, NEW on \in BOOLEAN, users' = [users EXCEPT ![id].on = on]
        PROVE  RowsKept
    <3>1. PICK row : row = [users[id] EXCEPT !.on = on]
      OBVIOUS
    <3>2. users[id] \in Rows /\ users' = [users EXCEPT ![id] = row]
      BY <1>1, <2>3, <3>1 DEF UsersTyped
    <3>3. /\ row \in Rows /\ row.email = users[id].email /\ row.owner = users[id].owner
          /\ row.version = users[id].version /\ row.disabled = users[id].disabled
          /\ row.proven = users[id].proven
      BY <3>1, <3>2 DEF Rows
    <3> HIDE DEF id
    <3> QED
      BY <2>2, <2>3, <3>2, <3>3
  <2>4. ASSUME id \in DOMAIN users,
               users' = [users EXCEPT ![id].on = @ \/ ~ was.on, ![id].link = users[id].issued + 1,
                                      ![id].issued = @ + 1]
        PROVE  RowsKept
    <3>1. users[id] \in Rows
      BY <1>1, <2>4 DEF UsersTyped
    <3>2. PICK on \in BOOLEAN : on = (users[id].on \/ ~ was.on)
      OBVIOUS
    <3>3. PICK n \in Nat : n = users[id].issued + 1
      BY <3>1 DEF Rows
    <3>4. PICK row : row = [users[id] EXCEPT !.on = on, !.link = n, !.issued = n]
      OBVIOUS
    <3>5. users' = [users EXCEPT ![id] = row]
      BY <1>1, <2>4, <3>1, <3>2, <3>3, <3>4 DEF UsersTyped
    <3>6. /\ row \in Rows /\ row.email = users[id].email /\ row.owner = users[id].owner
          /\ row.version = users[id].version /\ row.disabled = users[id].disabled
          /\ row.proven = users[id].proven
      BY <3>1, <3>4 DEF Rows
    <3> HIDE DEF id
    <3> QED
      BY <2>2, <2>4, <3>5, <3>6
  <2>5. ASSUME id \in DOMAIN users,
               users' = [users EXCEPT ![id].on = TRUE,
                                      ![id].link = IF was.verified THEN @ ELSE was.link]
        PROVE  RowsKept
    <3>1. users[id] \in Rows
      BY <1>1, <2>5 DEF UsersTyped
    <3>2. PICK on \in BOOLEAN : on = TRUE
      OBVIOUS
    <3>3. PICK n \in Nat : n = IF was.verified THEN users[id].link ELSE was.link
      BY <1>3, <3>1 DEF Rows
    <3>4. PICK row : row = [users[id] EXCEPT !.on = on, !.link = n]
      OBVIOUS
    <3>5. users' = [users EXCEPT ![id] = row]
      BY <1>1, <2>5, <3>1, <3>2, <3>3, <3>4 DEF UsersTyped
    <3>6. /\ row \in Rows /\ row.email = users[id].email /\ row.owner = users[id].owner
          /\ row.version = users[id].version /\ row.disabled = users[id].disabled
          /\ row.proven = users[id].proven
      BY <3>1, <3>4 DEF Rows
    <3> HIDE DEF id
    <3> QED
      BY <2>2, <2>5, <3>5, <3>6
  <2>6. PICK off \in BOOLEAN : off = FALSE
    BY Small
  <2>7. \/ users' = users
        \/ /\ id \in DOMAIN users
           /\ \/ users' = [users EXCEPT ![id].on = off]
              \/ users' = [users EXCEPT ![id].on = @ \/ ~ was.on,
                                        ![id].link = users[id].issued + 1,
                                        ![id].issued = @ + 1]
              \/ users' = [users EXCEPT ![id].on = TRUE,
                                        ![id].link = IF was.verified THEN @ ELSE was.link]
    BY <2>6 DEF WriteEmail, Exists
  <2> HIDE DEF id, was
  <2> QED
    BY <2>1, <2>3, <2>4, <2>5, <2>6, <2>7
<1>5. UsersTyped'
  BY <1>4 DEF RowsKept
<1> QED
  BY <1>1, <1>2, <1>4, <1>5, RespondAnswers, PlainAnswer

LEMMA WriteStep ==
  ASSUME Typed, NEW r \in Requests, CallOK(r), Write(r)
  PROVE  RowsKept /\ Moves(r) /\ calls'[r].stage = "done"
<1>1. calls[r] \in Pendings /\ calls[r].stage = "write"
  BY StageSays DEF Typed, Write, PendingStages
<1> QED
  BY <1>1, WriteUserStep, WriteLoginStep, WriteConfirmStep, WriteEmailStep DEF Write

-----------------------------------------------------------------------------
(***************************************************************************)
(* The audit log                                                           *)
(***************************************************************************)
\* One row more, or labels masked.
SameTo(i) == audit'[i].action = audit[i].action /\ audit'[i].target = audit[i].target
Logged(action, target) ==
  /\ audit' \in Seq(AuditRows) /\ Len(audit') = Len(audit) + 1
  /\ \A i \in DOMAIN audit : SameTo(i)
  /\ audit'[Len(audit) + 1].action = action /\ audit'[Len(audit) + 1].target = target
Relabelled ==
  /\ audit' \in Seq(AuditRows) /\ Len(audit') = Len(audit)
  /\ \A i \in DOMAIN audit : SameTo(i)

LEMMA AuditDomains ==
  ASSUME AuditTyped
  PROVE  DOMAIN audit = 1 .. Len(audit) /\ Len(audit) \in Nat
BY DEF AuditTyped

LEMMA LoggedDomain ==
  ASSUME AuditTyped, NEW action, NEW target, Logged(action, target)
  PROVE  DOMAIN audit' = DOMAIN audit \cup {Len(audit) + 1} /\ Len(audit) + 1 \notin DOMAIN audit
<1>1. DOMAIN audit' = 1 .. Len(audit')
  BY DEF Logged
<1> QED
  BY <1>1, AuditDomains DEF Logged

LEMMA RelabelledDomain ==
  ASSUME AuditTyped, Relabelled
  PROVE  DOMAIN audit' = DOMAIN audit
<1>1. DOMAIN audit' = 1 .. Len(audit')
  BY DEF Relabelled
<1> QED
  BY <1>1, AuditDomains DEF Relabelled

LEMMA AppendLogs ==
  ASSUME NEW log \in Seq(AuditRows), NEW row \in AuditRows, AuditTyped, audit' = Append(log, row),
         Len(log) = Len(audit),
         \A i \in DOMAIN audit : log[i].action = audit[i].action /\ log[i].target = audit[i].target
  PROVE  Logged(row.action, row.target)
<1>1. /\ audit' \in Seq(AuditRows) /\ Len(audit') = Len(log) + 1
      /\ audit'[Len(log) + 1] = row
      /\ \A i \in 1 .. Len(log) : audit'[i] = log[i]
  BY AppendProperties
<1> QED
  BY <1>1, AuditDomains DEF Logged, SameTo

LEMMA RowLogs ==
  ASSUME NEW a \in Actions, NEW t \in Nat, NEW l \in {"entry", "address", "masked"},
         NEW log \in Seq(AuditRows), AuditTyped, audit' = Append(log, AuditRow(a, t, l)),
         Len(log) = Len(audit),
         \A i \in DOMAIN audit : log[i].action = audit[i].action /\ log[i].target = audit[i].target
  PROVE  Logged(a, t)
<1>1. PICK row : row = AuditRow(a, t, l)
  OBVIOUS
<1>2. row \in AuditRows /\ row.action = a /\ row.target = t
  BY <1>1 DEF AuditRow, AuditRows
<1> QED
  BY <1>1, <1>2, AppendLogs

\* Rows that do not switch the account leave its last switch what it was.
LEMMA OthersKeepSwitches ==
  ASSUME AuditTyped, NEW id, NEW a, NEW t, Logged(a, t), t # id \/ a \notin {"disable", "enable"}
  PROVE  Switches(id)' = Switches(id) /\ \A k : LastSwitch(id, k)' <=> LastSwitch(id, k)
<1>1. DOMAIN audit' = DOMAIN audit \cup {Len(audit) + 1} /\ Len(audit) + 1 \notin DOMAIN audit
  BY LoggedDomain
<1>2. Switches(id)' = Switches(id)
  BY <1>1 DEF Logged, SameTo, Switches, AuditRowsOf
<1>3. \A i \in Switches(id) : audit'[i].action = audit[i].action
  BY DEF Logged, SameTo, Switches, AuditRowsOf
<1> QED
  BY <1>2, <1>3 DEF LastSwitch

LEMMA MaskingKeepsSwitches ==
  ASSUME AuditTyped, NEW id, Relabelled
  PROVE  Switches(id)' = Switches(id) /\ \A k : LastSwitch(id, k)' <=> LastSwitch(id, k)
<1>1. DOMAIN audit' = DOMAIN audit
  BY RelabelledDomain
<1>2. Switches(id)' = Switches(id)
  BY <1>1 DEF Relabelled, SameTo, Switches, AuditRowsOf
<1>3. \A i \in Switches(id) : audit'[i].action = audit[i].action
  BY DEF Relabelled, SameTo, Switches, AuditRowsOf
<1> QED
  BY <1>2, <1>3 DEF LastSwitch

LEMMA SwitchLogged ==
  ASSUME AuditTyped, NEW id, NEW a \in {"disable", "enable"}, Logged(a, id)
  PROVE  LastSwitch(id, a)'
<1> DEFINE n == Len(audit) + 1
<1>1. DOMAIN audit' = DOMAIN audit \cup {n} /\ DOMAIN audit = 1 .. Len(audit) /\ Len(audit) \in Nat
  BY LoggedDomain, AuditDomains
<1>2. audit'[n].action = a /\ audit'[n].target = id
  BY DEF Logged
<1>3. n \in Switches(id)'
  BY <1>1, <1>2 DEF Switches, AuditRowsOf
<1>4. \A j \in Switches(id)' : j <= n
  BY <1>1 DEF Switches, AuditRowsOf
<1> QED
  BY <1>2, <1>3, <1>4 DEF LastSwitch

LEMMA NewHasNoSwitches ==
  ASSUME AuditTyped, NEW id, created \in Nat, id \in Nat, ~ (id <= created)
  PROVE  Switches(id) = {}
BY DEF AuditTyped, Switches, AuditRowsOf

\* A log as before, or a row about nobody: the accounts' flags are as they were.
LEMMA SwitchesStay ==
  ASSUME Typed, SwitchesOK, RowsKept, audit' = audit \/ Logged("create", 0)
  PROVE  SwitchesOK'
<1>1. \A id : Switches(id)' = Switches(id) /\ \A k : LastSwitch(id, k)' <=> LastSwitch(id, k)
  <2>1. CASE audit' = audit
    BY <2>1 DEF Switches, AuditRowsOf, LastSwitch
  <2>2. CASE Logged("create", 0)
    BY <2>2, OthersKeepSwitches DEF Typed
  <2> QED
    BY <2>1, <2>2
<1>2. ASSUME NEW id \in DOMAIN users', id \notin DOMAIN users
      PROVE  Switches(id) = {}
  BY <1>2, NewHasNoSwitches DEF Typed, RowsKept, Grows, UsersTyped
<1> QED
  BY <1>1, <1>2 DEF SwitchesOK, RowsKept, FlagsKept

LEMMA DeletesStay ==
  ASSUME Typed, DeletesOK, UsersTyped', Grows,
         audit' = audit \/ Relabelled \/ \E a \in Actions \ {"delete"}, t \in Nat : Logged(a, t)
  PROVE  DeletesOK'
<1>1. \A t : t <= created /\ t \notin DOMAIN users => t \notin DOMAIN users'
  BY DEF Grows
<1>2. \A i \in DOMAIN audit : audit[i].target <= created
  BY DEF Typed, AuditTyped
<1>3. \A i \in DOMAIN audit' : audit'[i].action = "delete" => i \in DOMAIN audit /\ SameTo(i)
  <2>1. CASE audit' = audit
    BY <2>1 DEF SameTo
  <2>2. CASE Relabelled
    BY <2>2, RelabelledDomain DEF Relabelled, Typed
  <2>3. ASSUME NEW a \in Actions \ {"delete"}, NEW t \in Nat, Logged(a, t)
        PROVE  \A i \in DOMAIN audit' : audit'[i].action = "delete" => i \in DOMAIN audit /\ SameTo(i)
    BY <2>3, LoggedDomain DEF Logged, Typed
  <2> QED
    BY <2>1, <2>2, <2>3
<1> QED
  BY <1>1, <1>2, <1>3 DEF DeletesOK, SameTo

LEMMA AuditStays ==
  ASSUME Typed, UsersTyped', Grows,
         \/ audit' = audit \/ Relabelled
         \/ \E a, t : t \in Nat /\ t <= created /\ Logged(a, t)
  PROVE  AuditTyped'
<1>1. created \in Nat /\ created' \in Nat /\ created <= created'
  BY DEF Typed, UsersTyped, Grows
<1>2. \A i \in DOMAIN audit : audit[i].target <= created /\ audit[i].target \in Nat
  <2>1. \A i \in DOMAIN audit : audit[i].target <= created
    BY DEF Typed, AuditTyped
  <2>2. \A i \in DOMAIN audit : audit[i] \in AuditRows
    BY AuditDomains, ElementOfSeq DEF Typed, AuditTyped
  <2> QED
    BY <2>1, <2>2 DEF AuditRows
<1>3. CASE audit' = audit
  BY <1>1, <1>2, <1>3 DEF Typed, AuditTyped
<1>4. CASE Relabelled
  BY <1>1, <1>2, <1>4, RelabelledDomain DEF Typed, AuditTyped, Relabelled, SameTo
<1>5. ASSUME NEW a, NEW t \in Nat, t <= created, Logged(a, t)
      PROVE  AuditTyped'
  BY <1>1, <1>2, <1>5, LoggedDomain DEF Typed, AuditTyped, Logged, SameTo
<1> QED
  BY <1>3, <1>4, <1>5


-----------------------------------------------------------------------------
(***************************************************************************)
(* The parts of the invariant, over one step                               *)
(***************************************************************************)
\* What a step of the server keeps.
Kept(r) ==
  /\ UsersTyped' /\ Grows /\ ProvenKept
  /\ Moves(r)
  /\ AuditTyped' /\ SwitchesOK' /\ DeletesOK'
  /\ EndedTyped' /\ EndedOld'
  /\ LocksOK'

LEMMA EndedStays ==
  ASSUME Typed, EndedOld, UsersTyped', Grows, ended' = ended
  PROVE  EndedTyped' /\ EndedOld'
<1>1. \A s \in ended : s.id \in Nat /\ s.version \in Nat
  BY DEF Typed, EndedTyped, Tokens
<1>2. /\ created \in Nat /\ created' \in Nat
      /\ \A u \in DOMAIN users : users[u].version \in Nat
      /\ \A u \in DOMAIN users' : users'[u].version \in Nat
  BY DEF Typed, UsersTyped, Rows
<1>3. ASSUME NEW s \in ended
      PROVE  s.id <= created' /\ (s.id \in DOMAIN users' => s.version < users'[s.id].version)
  BY <1>1, <1>2 DEF EndedOld, Grows
<1>4. EndedTyped'
  BY DEF Typed, EndedTyped
<1> QED
  BY <1>3, <1>4 DEF EndedOld

LEMMA LocksStay ==
  ASSUME LocksOK, NEW r \in Requests, Moves(r), calls'[r].stage # "commit", locked' = locked,
         DOMAIN users \subseteq DOMAIN users'
  PROVE  LocksOK'
BY DEF LocksOK, Moves

LEMMA LocksHeld ==
  ASSUME LocksOK, NEW r \in Requests, Moves(r), calls'[r].target \in DOMAIN users \ locked,
         locked' = locked \cup {calls'[r].target}, users' = users
  PROVE  LocksOK'
BY DEF LocksOK, Moves

LEMMA LocksReleased ==
  ASSUME LocksOK, NEW r \in Requests, Moves(r), calls[r].stage = "commit",
         calls'[r].stage # "commit", locked' = locked \ {calls[r].target},
         DOMAIN users \ {calls[r].target} \subseteq DOMAIN users'
  PROVE  LocksOK'
BY DEF LocksOK, Moves

\* A step that leaves the accounts, the log and the ended sessions alone.
LEMMA QuietKept ==
  ASSUME IInv, NEW r \in Requests, Moves(r), LocksOK', SameRows, audit' = audit, ended' = ended
  PROVE  Kept(r)
<1>1. Typed /\ SwitchesOK /\ DeletesOK /\ EndedOld /\ UsersTyped
  BY DEF IInv, Typed
<1>2. RowsKept
  BY <1>1, SameRowsKept
<1>3. UsersTyped' /\ Grows /\ ProvenKept
  BY <1>2 DEF RowsKept
<1>4. SwitchesOK'
  BY <1>1, <1>2, SwitchesStay
<1>5. DeletesOK'
  BY <1>1, <1>3, DeletesStay
<1>6. AuditTyped'
  BY <1>1, <1>3, AuditStays
<1>7. EndedTyped' /\ EndedOld'
  BY <1>1, <1>3, EndedStays
<1> QED
  BY <1>3, <1>4, <1>5, <1>6, <1>7 DEF Kept

LEMMA ReadsKept ==
  ASSUME IInv, NEW r \in Requests, Reads(r)
  PROVE  Kept(r)
<1>1. Typed /\ CallOK(r) /\ LocksOK
  BY DEF IInv, CallsOK
<1>2. UNCHANGED <<users, created, audit, entries, locked, ended>>
  BY ReadsAreQuiet
<1>3. Moves(r) /\ calls'[r].stage # "commit"
  BY <1>1, ReadsMove
<1>4. LocksOK'
  BY <1>1, <1>2, <1>3, LocksStay
<1> QED
  BY <1>2, <1>3, <1>4, QuietKept DEF SameRows

LEMMA WriteKept ==
  ASSUME IInv, NEW r \in Requests, Write(r)
  PROVE  Kept(r)
<1>1. Typed /\ CallOK(r) /\ LocksOK /\ SwitchesOK /\ DeletesOK /\ EndedOld
  BY DEF IInv, CallsOK
<1>2. audit' = audit /\ locked' = locked /\ ended' = ended
  BY DEF Write
<1>3. RowsKept /\ Moves(r) /\ calls'[r].stage = "done"
  BY <1>1, WriteStep
<1>4. UsersTyped' /\ Grows /\ ProvenKept /\ DOMAIN users \subseteq DOMAIN users'
  BY <1>3 DEF RowsKept
<1>5. LocksOK'
  BY <1>1, <1>2, <1>3, <1>4, LocksStay
<1>6. SwitchesOK' /\ DeletesOK' /\ AuditTyped'
  BY <1>1, <1>2, <1>3, <1>4, SwitchesStay, DeletesStay, AuditStays
<1>7. EndedTyped' /\ EndedOld'
  BY <1>1, <1>2, <1>4, EndedStays
<1> QED
  BY <1>3, <1>4, <1>5, <1>6, <1>7 DEF Kept

LEMMA WriteEntryKept ==
  ASSUME IInv, NEW r \in Requests, WriteEntry(r)
  PROVE  Kept(r)
<1>1. /\ Typed /\ UsersTyped /\ AuditTyped /\ CallsTyped
      /\ LocksOK /\ SwitchesOK /\ DeletesOK /\ EndedOld
  BY DEF IInv, Typed
<1>2. SameRows /\ locked' = locked /\ ended' = ended /\ calls[r].stage = "write"
  BY DEF WriteEntry, SameRows
<1>3. RowsKept
  BY <1>1, <1>2, SameRowsKept
<1>4. UsersTyped' /\ Grows /\ ProvenKept /\ DOMAIN users \subseteq DOMAIN users'
  BY <1>3 DEF RowsKept
<1>5. Moves(r) /\ calls'[r].stage = "done"
  <2>1. calls[r] \in Pendings /\ Respond(r, 201)
    BY <1>1, <1>2, StageSays DEF PendingStages, WriteEntry
  <2> QED
    BY <1>1, <1>4, <2>1, RespondAnswers, PlainAnswer
<1>6. Logged("create", 0) /\ 0 <= created
  <2>1. PICK a \in Actions, t \in Nat, l \in {"entry", "address", "masked"} :
          a = "create" /\ t = 0 /\ l = "entry"
    BY DEF Actions
  <2>2. audit' = Append(audit, AuditRow(a, t, l)) /\ audit \in Seq(AuditRows)
    BY <1>1, <2>1 DEF WriteEntry, AuditTyped
  <2>3. Logged(a, t)
    BY <1>1, <2>2, RowLogs
  <2> QED
    BY <1>1, <2>1, <2>3 DEF UsersTyped
<1>7. SwitchesOK'
  BY <1>1, <1>3, <1>6, SwitchesStay
<1>8. DeletesOK' /\ AuditTyped'
  <2>1. "create" \in Actions \ {"delete"} /\ 0 \in Nat
    BY DEF Actions
  <2> QED
    BY <1>1, <1>4, <1>6, <2>1, DeletesStay, AuditStays
<1>9. LocksOK'
  BY <1>1, <1>2, <1>4, <1>5, LocksStay
<1>10. EndedTyped' /\ EndedOld'
  BY <1>1, <1>2, <1>4, EndedStays
<1> QED
  BY <1>4, <1>5, <1>7, <1>8, <1>9, <1>10 DEF Kept

LEMMA HoldKept ==
  ASSUME IInv, NEW r \in Requests, SetDisabled(r) \/ EraseUser(r)
  PROVE  Kept(r)
<1>1. /\ Typed /\ CallsTyped /\ UsersTyped /\ CallOK(r) /\ LocksOK
  BY DEF IInv, Typed, CallsOK
<1>2. SameRows /\ audit' = audit /\ ended' = ended /\ UsersTyped'
  BY <1>1 DEF SetDisabled, EraseUser, SameRows, UsersTyped
<1>3. calls[r] \in Pendings
  BY <1>1, StageSays DEF PendingStages, SetDisabled, EraseUser
<1>4. CASE Exists(calls[r].target) /\ Hold(r, calls[r].target, "commit")
  <2>1. Moves(r) /\ calls'[r].stage = "commit" /\ calls'[r].target = calls[r].target
    BY <1>1, <1>2, <1>3, <1>4, GoesOK DEF Hold, PendingStages
  <2>2. LocksOK'
    BY <1>1, <1>2, <1>4, <2>1, LocksHeld DEF Hold, Exists, SameRows
  <2> QED
    BY <1>2, <2>1, <2>2, QuietKept
<1>5. CASE (\E st \in Nat : Respond(r, st) \/ RespondClearing(r, st)) /\ locked' = locked
  <2>1. Moves(r) /\ calls'[r].stage = "done"
    BY <1>1, <1>2, <1>3, <1>5, RespondAnswers, ClearingAnswers, PlainAnswer
  <2>2. LocksOK'
    BY <1>1, <1>2, <1>5, <2>1, LocksStay DEF SameRows
  <2> QED
    BY <1>2, <2>1, <2>2, QuietKept
<1> QED
  BY <1>4, <1>5 DEF SetDisabled, EraseUser

LEMMA FailsKept ==
  ASSUME IInv, NEW r \in Requests, Fails(r)
  PROVE  Kept(r)
<1>1. /\ Typed /\ CallsTyped /\ UsersTyped /\ CallOK(r) /\ LocksOK
  BY DEF IInv, Typed, CallsOK
<1>2. SameRows /\ audit' = audit /\ ended' = ended /\ UsersTyped'
  BY <1>1 DEF Fails, SameRows, UsersTyped
<1>3. calls[r] \in Pendings /\ Respond(r, 500)
  BY <1>1, StageSays DEF PendingStages, Fails
<1>4. Moves(r) /\ calls'[r].stage = "done"
  BY <1>1, <1>2, <1>3, RespondAnswers, PlainAnswer
<1>5. LocksOK'
  BY <1>1, <1>2, <1>4, LocksStay, LocksReleased DEF Fails, SameRows
<1> QED
  BY <1>2, <1>4, <1>5, QuietKept

-----------------------------------------------------------------------------
(***************************************************************************)
(* The commits                                                             *)
(***************************************************************************)
\* The accounts after the commit of setDisabled: one flag, and a version that never falls.
LEMMA SwitchedRows ==
  ASSUME UsersTyped, NEW id \in DOMAIN users, NEW off \in BOOLEAN, NEW v \in Nat,
         users[id].version <= v, created' = created,
         users' = [users EXCEPT ![id] = [users[id] EXCEPT !.disabled = off, !.version = v]]
  PROVE  /\ UsersTyped' /\ Grows /\ ProvenKept /\ DOMAIN users' = DOMAIN users
         /\ users'[id].disabled = off /\ users'[id].version = v
         /\ \A u \in DOMAIN users : u # id => users'[u] = users[u]
<1>1. PICK row : row = [users[id] EXCEPT !.disabled = off, !.version = v]
  OBVIOUS
<1>2. users[id] \in Rows
  BY DEF UsersTyped
<1>3. /\ row \in Rows /\ row.email = users[id].email /\ row.owner = users[id].owner
      /\ row.version = v /\ row.disabled = off /\ row.proven = users[id].proven
  BY <1>1, <1>2 DEF Rows
<1>4. Replaces(id, row)
  BY <1>1, <1>3 DEF Replaces
<1>5. /\ UsersTyped' /\ Grows /\ DOMAIN users' = DOMAIN users /\ users'[id] = row
      /\ \A u \in DOMAIN users : u # id => users'[u] = users[u]
  BY <1>4, ReplacesGrows
<1>6. ProvenKept
  BY <1>3, <1>5 DEF ProvenKept
<1> QED
  BY <1>3, <1>5, <1>6

LEMMA SwitchSwitches ==
  ASSUME Typed, SwitchesOK, NEW id \in DOMAIN users, NEW a \in {"disable", "enable"},
         Logged(a, id), DOMAIN users' = DOMAIN users, NEW off \in BOOLEAN,
         off = TRUE <=> a = "disable", users'[id].disabled = off,
         \A u \in DOMAIN users : u # id => users'[u] = users[u]
  PROVE  SwitchesOK'
<1>1. LastSwitch(id, a)'
  BY SwitchLogged DEF Typed
<1>2. \A u : u # id => Switches(u)' = Switches(u) /\ \A k : LastSwitch(u, k)' <=> LastSwitch(u, k)
  BY OthersKeepSwitches DEF Typed
<1> QED
  BY <1>1, <1>2 DEF SwitchesOK

LEMMA SwitchEnded ==
  ASSUME Typed, EndedOld, UsersTyped', Grows, NEW id \in DOMAIN users,
         ended' = ended \cup {SessionOf(id)},
         id \in DOMAIN users' => users[id].version < users'[id].version
  PROVE  EndedTyped' /\ EndedOld'
<1>1. \A s \in ended : s.id \in Nat /\ s.version \in Nat
  BY DEF Typed, EndedTyped, Tokens
<1>2. /\ created \in Nat /\ created' \in Nat
      /\ \A u \in DOMAIN users : users[u].version \in Nat
      /\ \A u \in DOMAIN users' : users'[u].version \in Nat
  BY DEF Typed, UsersTyped, Rows
<1>3. ASSUME NEW s \in ended
      PROVE  s.id <= created' /\ (s.id \in DOMAIN users' => s.version < users'[s.id].version)
  BY <1>1, <1>2 DEF EndedOld, Grows
<1>4. PICK s \in Tokens : s = SessionOf(id) /\ s.id = id
  BY SessionTyped DEF Typed
<1>5. s.version = users[id].version
  BY <1>4 DEF SessionOf
<1>6. id \in Nat /\ id <= created
  BY DEF Typed, UsersTyped
<1>7. EndedTyped'
  BY <1>4 DEF Typed, EndedTyped
<1> QED
  BY <1>2, <1>3, <1>4, <1>5, <1>6, <1>7 DEF EndedOld, Grows

\* What is known when a transaction commits.
LEMMA CommitFacts ==
  ASSUME IInv, NEW r \in Requests, Commit(r)
  PROVE  /\ Typed /\ UsersTyped /\ AuditTyped /\ CallsTyped
         /\ LocksOK /\ SwitchesOK /\ DeletesOK /\ EndedOld
         /\ calls[r].stage = "commit" /\ calls[r] \in Pendings
         /\ calls[r].target \in DOMAIN users
         /\ created' = created /\ locked' = locked \ {calls[r].target}
<1>1. /\ Typed /\ UsersTyped /\ AuditTyped /\ CallsTyped
      /\ LocksOK /\ SwitchesOK /\ DeletesOK /\ EndedOld
      /\ calls[r].stage = "commit"
  BY DEF IInv, Typed, Commit
<1>2. calls[r] \in Pendings
  BY <1>1, StageSays DEF PendingStages
<1>3. calls[r].target \in DOMAIN users
  BY <1>1 DEF LocksOK
<1> QED
  BY <1>1, <1>2, <1>3 DEF Commit

LEMMA CommitAnswers ==
  ASSUME CallsTyped, LocksOK, NEW r \in Requests, calls[r] \in Pendings,
         calls[r].stage = "commit", UsersTyped', locked' = locked \ {calls[r].target},
         Respond(r, 200) \/ RespondClearing(r, 200),
         DOMAIN users \ {calls[r].target} \subseteq DOMAIN users'
  PROVE  Moves(r) /\ LocksOK'
<1>1. Moves(r) /\ calls'[r].stage = "done"
  BY RespondAnswers, ClearingAnswers, PlainAnswer
<1> QED
  BY <1>1, LocksReleased

LEMMA CommitSwitchKept ==
  ASSUME IInv, NEW r \in Requests, Commit(r),
         CommitDisable(r, calls[r].target) \/ CommitEnable(r, calls[r].target)
  PROVE  Kept(r)
<1> DEFINE id == calls[r].target
<1>1. /\ Typed /\ UsersTyped /\ AuditTyped /\ CallsTyped
      /\ LocksOK /\ SwitchesOK /\ DeletesOK /\ EndedOld
      /\ calls[r].stage = "commit" /\ calls[r] \in Pendings
      /\ id \in DOMAIN users
      /\ created' = created /\ locked' = locked \ {id}
  BY CommitFacts
<1>2. /\ users[id] \in Rows /\ users[id].version \in Nat /\ id \in Nat /\ id <= created
      /\ created \in Nat
  BY <1>1 DEF UsersTyped, Rows
<1>3. PICK off \in BOOLEAN, v \in Nat, a \in {"disable", "enable"} :
        /\ off = TRUE <=> a = "disable"
        /\ users[id].version <= v
        /\ users' = [users EXCEPT ![id] = [users[id] EXCEPT !.disabled = off, !.version = v]]
        /\ audit' = Append(audit, AuditRow(a, id, "address"))
        /\ \/ ended' = ended
           \/ ended' = ended \cup {SessionOf(id)} /\ users[id].version < v
  <2> HIDE DEF id
  <2>1. CASE CommitDisable(r, id)
    <3>0. users[id].version + 1 \in Nat
      BY <1>2
    <3>1. PICK off \in BOOLEAN, v \in Nat, a \in {"disable", "enable"} :
            off = TRUE /\ v = users[id].version + 1 /\ a = "disable"
      BY <3>0, Small, Zenon
    <3>2. users' = [users EXCEPT ![id].disabled = off, ![id].version = v]
      BY <1>1, <1>2, <2>1, <3>1 DEF CommitDisable, UsersTyped
    <3>3. [users EXCEPT ![id].disabled = off, ![id].version = v]
            = [users EXCEPT ![id] = [users[id] EXCEPT !.disabled = off, !.version = v]]
      BY <1>1 DEF UsersTyped
    <3>4. users[id].version <= v /\ users[id].version < v
      BY <1>2, <3>1
    <3> QED
      BY <2>1, <3>1, <3>2, <3>3, <3>4 DEF CommitDisable
  <2>2. CASE CommitEnable(r, id)
    <3>0. users[id].version \in Nat
      BY <1>2
    <3>1. PICK off \in BOOLEAN, v \in Nat, a \in {"disable", "enable"} :
            off = FALSE /\ v = users[id].version /\ a = "enable"
      BY <3>0, Small, Zenon
    <3>2. users' = [users EXCEPT ![id].disabled = off]
      BY <1>1, <1>2, <2>2, <3>1 DEF CommitEnable, UsersTyped
    <3>3. [users EXCEPT ![id].disabled = off]
            = [users EXCEPT ![id] = [users[id] EXCEPT !.disabled = off, !.version = v]]
      <4>1. [users[id] EXCEPT !.disabled = off]
              = [users[id] EXCEPT !.disabled = off, !.version = v]
        BY <1>2, <3>1 DEF Rows
      <4> QED
        BY <1>1, <4>1 DEF UsersTyped
    <3>4. users[id].version <= v /\ ended' = ended
      BY <1>2, <2>2, <3>1 DEF CommitEnable
    <3> QED
      BY <2>2, <3>1, <3>2, <3>3, <3>4 DEF CommitEnable
  <2> QED
    BY <2>1, <2>2 DEF id
<1> HIDE DEF id
<1>4. /\ UsersTyped' /\ Grows /\ ProvenKept /\ DOMAIN users' = DOMAIN users
      /\ users'[id].disabled = off /\ users'[id].version = v
      /\ \A u \in DOMAIN users : u # id => users'[u] = users[u]
  BY <1>1, <1>3, SwitchedRows
<1>5. Logged(a, id) /\ a \in Actions \ {"delete"}
  <2>1. PICK l \in {"entry", "address", "masked"}, b \in Actions : l = "address" /\ b = a
    BY DEF Actions
  <2>2. audit' = Append(audit, AuditRow(b, id, l)) /\ audit \in Seq(AuditRows)
    BY <1>1, <1>3, <2>1 DEF AuditTyped
  <2>3. Logged(b, id)
    BY <1>1, <1>2, <2>2, RowLogs
  <2> QED
    BY <2>1, <2>3
<1>6. SwitchesOK'
  BY <1>1, <1>3, <1>4, <1>5, SwitchSwitches
<1>7. DeletesOK' /\ AuditTyped'
  BY <1>1, <1>2, <1>4, <1>5, DeletesStay, AuditStays
<1>8. EndedTyped' /\ EndedOld'
  BY <1>1, <1>3, <1>4, EndedStays, SwitchEnded
<1>9. Moves(r) /\ LocksOK'
  BY <1>1, <1>4, CommitAnswers DEF CommitDisable, CommitEnable, id
<1> QED
  BY <1>4, <1>6, <1>7, <1>8, <1>9 DEF Kept

\* The accounts after a deletion.
LEMMA ErasedRows ==
  ASSUME UsersTyped, NEW id, created' = created, users' = [u \in DOMAIN users \ {id} |-> users[u]]
  PROVE  /\ UsersTyped' /\ Grows /\ ProvenKept /\ DOMAIN users' = DOMAIN users \ {id}
         /\ \A u \in DOMAIN users' : users'[u] = users[u]
<1>1. DOMAIN users' = DOMAIN users \ {id} /\ \A u \in DOMAIN users' : users'[u] = users[u]
  OBVIOUS
<1>2. UsersTyped'
  BY <1>1 DEF UsersTyped
<1>3. created \in Nat /\ \A u \in DOMAIN users : users[u].version \in Nat
  BY DEF UsersTyped, Rows
<1>4. Grows
  BY <1>1, <1>3 DEF Grows
<1>5. ProvenKept
  BY <1>1 DEF ProvenKept
<1> QED
  BY <1>1, <1>2, <1>4, <1>5

Masked(found) ==
  [i \in DOMAIN audit |-> IF i \in found THEN [audit[i] EXCEPT !.label = "masked"] ELSE audit[i]]

LEMMA MaskedTyped ==
  ASSUME AuditTyped, NEW found
  PROVE  /\ Masked(found) \in Seq(AuditRows) /\ Len(Masked(found)) = Len(audit)
         /\ \A i \in DOMAIN audit : /\ Masked(found)[i].action = audit[i].action
                                    /\ Masked(found)[i].target = audit[i].target
<1>1. DOMAIN audit = 1 .. Len(audit) /\ Len(audit) \in Nat
  BY AuditDomains
<1>2. ASSUME NEW i \in DOMAIN audit
      PROVE  /\ Masked(found)[i] \in AuditRows
             /\ Masked(found)[i].action = audit[i].action
             /\ Masked(found)[i].target = audit[i].target
  <2>1. audit[i] \in AuditRows
    BY AuditDomains, ElementOfSeq DEF AuditTyped
  <2>2. PICK m \in {"entry", "address", "masked"} : m = "masked"
    OBVIOUS
  <2>3. PICK row : row = [audit[i] EXCEPT !.label = m]
    OBVIOUS
  <2>4. row \in AuditRows /\ row.action = audit[i].action /\ row.target = audit[i].target
    BY <2>1, <2>2, <2>3 DEF AuditRows
  <2>5. Masked(found)[i] = IF i \in found THEN row ELSE audit[i]
    BY <2>2, <2>3 DEF Masked
  <2> QED
    BY <2>1, <2>4, <2>5
<1>3. Masked(found) \in [1 .. Len(audit) -> AuditRows]
  BY <1>1, <1>2 DEF Masked
<1>4. Masked(found) \in Seq(AuditRows) /\ Len(Masked(found)) = Len(audit)
  <2>1. Masked(found) \in Seq(AuditRows)
    BY <1>1, <1>3, SeqDef
  <2> QED
    BY <1>1, <1>3, <2>1, LenProperties
<1> QED
  BY <1>2, <1>4

LEMMA EraseLogs ==
  ASSUME AuditTyped, NEW id \in Nat, NEW found,
         \/ audit' = Masked(found)
         \/ audit' = Append(Masked(found), AuditRow("delete", id, "masked"))
  PROVE  Relabelled \/ Logged("delete", id)
<1>1. PICK m : m = Masked(found)
  OBVIOUS
<1>2. /\ m \in Seq(AuditRows) /\ Len(m) = Len(audit)
      /\ \A i \in DOMAIN audit : m[i].action = audit[i].action /\ m[i].target = audit[i].target
  BY <1>1, MaskedTyped
<1>3. CASE audit' = m
  BY <1>2, <1>3 DEF Relabelled, SameTo
<1>4. CASE audit' = Append(m, AuditRow("delete", id, "masked"))
  <2>1. PICK a \in Actions, l \in {"entry", "address", "masked"} : a = "delete" /\ l = "masked"
    BY DEF Actions
  <2>2. audit' = Append(m, AuditRow(a, id, l))
    BY <1>4, <2>1
  <2>3. Logged(a, id)
    BY <1>2, <2>2, RowLogs
  <2> QED
    BY <2>1, <2>3
<1> QED
  BY <1>1, <1>3, <1>4

LEMMA EraseSwitches ==
  ASSUME Typed, SwitchesOK, NEW id, Relabelled \/ Logged("delete", id),
         DOMAIN users' \subseteq DOMAIN users, \A u \in DOMAIN users' : users'[u] = users[u]
  PROVE  SwitchesOK'
<1>1. \A u : Switches(u)' = Switches(u) /\ \A k : LastSwitch(u, k)' <=> LastSwitch(u, k)
  BY OthersKeepSwitches, MaskingKeepsSwitches DEF Typed
<1> QED
  BY <1>1 DEF SwitchesOK

LEMMA EraseDeletes ==
  ASSUME Typed, DeletesOK, UsersTyped', Grows, NEW id \in DOMAIN users,
         Relabelled \/ Logged("delete", id), DOMAIN users' = DOMAIN users \ {id}
  PROVE  DeletesOK'
<1>1. CASE Relabelled
  BY <1>1, DeletesStay
<1>2. CASE Logged("delete", id)
  <2>1. DOMAIN audit' = DOMAIN audit \cup {Len(audit) + 1}
    BY <1>2, LoggedDomain DEF Typed
  <2>2. audit'[Len(audit) + 1].target = id /\ \A i \in DOMAIN audit : SameTo(i)
    BY <1>2 DEF Logged
  <2>3. \A i \in DOMAIN audit : audit[i].action = "delete" => audit[i].target # id
    BY DEF DeletesOK
  <2> QED
    BY <2>1, <2>2, <2>3 DEF DeletesOK, SameTo
<1> QED
  BY <1>1, <1>2

LEMMA CommitEraseKept ==
  ASSUME IInv, NEW r \in Requests, Commit(r), CommitErase(r, calls[r].target)
  PROVE  Kept(r)
<1> DEFINE id == calls[r].target
<1>1. /\ Typed /\ UsersTyped /\ AuditTyped /\ CallsTyped
      /\ LocksOK /\ SwitchesOK /\ DeletesOK /\ EndedOld
      /\ calls[r].stage = "commit" /\ calls[r] \in Pendings
      /\ id \in DOMAIN users
      /\ created' = created /\ locked' = locked \ {id}
  BY CommitFacts
<1>2. id \in Nat /\ id <= created /\ created \in Nat
  BY <1>1 DEF UsersTyped
<1>3. users' = [u \in DOMAIN users \ {id} |-> users[u]] /\ ended' = ended \cup {SessionOf(id)}
  BY DEF CommitErase
<1>4. \/ audit' = Masked(calls[r].found \cap AuditRowsOf(id))
      \/ audit' = Append(Masked(calls[r].found \cap AuditRowsOf(id)), AuditRow("delete", id, "masked"))
  BY DEF CommitErase, Masked
<1>5. Respond(r, 200) \/ RespondClearing(r, 200)
  BY DEF CommitErase
<1> HIDE DEF id
<1>6. Relabelled \/ Logged("delete", id)
  BY <1>1, <1>2, <1>4, EraseLogs
<1>7. /\ UsersTyped' /\ Grows /\ ProvenKept /\ DOMAIN users' = DOMAIN users \ {id}
      /\ \A u \in DOMAIN users' : users'[u] = users[u]
  BY <1>1, <1>3, ErasedRows
<1>8. SwitchesOK'
  BY <1>1, <1>6, <1>7, EraseSwitches
<1>9. DeletesOK' /\ AuditTyped'
  BY <1>1, <1>2, <1>6, <1>7, EraseDeletes, AuditStays
<1>10. EndedTyped' /\ EndedOld'
  BY <1>1, <1>3, <1>7, SwitchEnded
<1>11. Moves(r) /\ LocksOK'
  BY <1>1, <1>5, <1>7, CommitAnswers DEF id
<1> QED
  BY <1>7, <1>8, <1>9, <1>10, <1>11 DEF Kept

LEMMA ServerKept ==
  ASSUME IInv, NEW r \in Requests, ServerStep(r)
  PROVE  Kept(r)
<1>1. CASE Reads(r)
  BY <1>1, ReadsKept
<1>2. CASE Commit(r)
  BY <1>2, CommitSwitchKept, CommitEraseKept DEF Commit
<1> QED
  BY <1>1, <1>2, WriteKept, WriteEntryKept, HoldKept, FailsKept DEF ServerStep, Reads

-----------------------------------------------------------------------------
(***************************************************************************)
(* The inductive invariant                                                 *)
(***************************************************************************)
\* What is known of an account stays true while the accounts grow.
LEMMA OwnedStays ==
  ASSUME UsersTyped, UsersTyped', Grows, NEW p, NEW id \in Nat, Owned(p, id)
  PROVE  Owned(p, id)'
BY DEF UsersTyped, Grows, Owned

LEMMA PendingStays ==
  ASSUME UsersTyped, UsersTyped', Grows, NEW c \in Pendings, PendingOK(c)
  PROVE  PendingOK(c)'
<1>1. c.token.id \in Nat /\ c.target \in Nat
  BY DEF Pendings, Tokens
<1>2. \A p, id : id \in Nat /\ Owned(p, id) => Owned(p, id)'
  BY OwnedStays
<1>3. c.target <= created => /\ c.target <= created'
                             /\ c.target \in DOMAIN users' =>
                                  /\ c.target \in DOMAIN users
                                  /\ users'[c.target].email = users[c.target].email
  BY <1>1 DEF UsersTyped, Grows
<1> QED
  BY <1>1, <1>2, <1>3 DEF PendingOK

LEMMA OthersStay ==
  ASSUME UsersTyped, UsersTyped', Grows, CallsTyped, NEW q \in Requests, CallOK(q),
         calls'[q] = calls[q]
  PROVE  CallOK(q)'
<1>1. CASE calls[q].stage \in PendingStages
  <2>1. calls[q] \in Pendings /\ PendingOK(calls[q])
    BY <1>1, StageSays DEF CallOK, PendingStages
  <2>2. \A c \in Pendings : PendingOK(c) => PendingOK(c)'
    BY PendingStays
  <2>3. calls'[q] \in Pendings /\ calls'[q].stage # "done"
    BY <1>1, <2>1 DEF PendingStages
  <2>4. PendingOK(calls[q])'
    BY <2>1, <2>2, <2>3
  <2> QED
    BY <2>3, <2>4 DEF CallOK
<1>2. CASE calls[q].stage = "done"
  <2>1. calls[q].cookie.id \in Nat
    BY <1>2, StageSays DEF Answers, Tokens
  <2>2. Owned(calls[q].by, calls[q].cookie.id)
    BY <1>2 DEF CallOK
  <2>3. \A p, id : id \in Nat /\ Owned(p, id) => Owned(p, id)'
    BY OwnedStays
  <2> QED
    BY <1>2, <2>1, <2>2, <2>3 DEF CallOK, PendingStages
<1>3. CASE calls[q].stage \notin PendingStages \cup {"done"}
  BY <1>3 DEF CallOK
<1> QED
  BY <1>1, <1>2, <1>3

\* A request that is over, or has just been sent by a page of the reader of the cookie.
LEMMA RenewedOK ==
  ASSUME Typed, UsersTyped', SameRows, CookiesOK, NEW r \in Requests, Renewed(r)
  PROVE  CallOK(r)'
<1>1. CASE calls'[r] = Free
  BY <1>1 DEF Free, CallOK, PendingStages
<1>2. CASE calls'[r] \in Answers /\ calls'[r].cookie = NoCookie
  BY <1>2 DEF Answers, CallOK, Owned, NoCookie, UsersTyped, PendingStages
<1>3. CASE /\ calls'[r] \in Pendings /\ calls'[r].stage \in {"auth", "read"}
           /\ calls'[r].token = tab[calls'[r].by].cookie
           /\ calls'[r].kind = "register" => calls'[r].email \in Emails
           /\ calls'[r].kind = "confirm" =>
                /\ calls'[r].target \in DOMAIN users
                /\ Mailbox[users[calls'[r].target].email] = calls'[r].by
  <2>1. calls'[r].by \in People
    BY <1>3 DEF Pendings
  <2>2. Owned(calls'[r].by, calls'[r].token.id)
    BY <1>3, <2>1 DEF CookiesOK
  <2>3. \A id \in DOMAIN users : id <= created
    BY DEF Typed, UsersTyped
  <2> QED
    BY <1>3, <2>2, <2>3 DEF CallOK, PendingOK, Owned, SameRows, PendingStages
<1> QED
  BY <1>1, <1>2, <1>3 DEF Renewed

LEMMA CallsStay ==
  ASSUME Typed, CallsOK, UsersTyped', Grows, NEW r \in Requests,
         calls' \in [Requests -> Calls], CallOK(r)',
         \A q \in Requests : q # r => calls'[q] = calls[q]
  PROVE  CallsTyped' /\ CallsOK'
<1>1. \A q \in Requests : CallOK(q)'
  BY OthersStay DEF Typed, CallsOK
<1> QED
  BY <1>1 DEF CallsTyped, CallsOK

LEMMA CookiesStay ==
  ASSUME Typed, CallsOK, CookiesOK, UsersTyped', Grows, \A q \in People : CookieFrom(q)
  PROVE  CookiesOK'
<1>1. \A p, id : id \in Nat /\ Owned(p, id) => Owned(p, id)'
  BY OwnedStays DEF Typed
<1>2. ASSUME NEW q \in People
      PROVE  \E id \in Nat : Owned(q, id) /\ tab'[q].cookie.id = id
  <2>1. CASE tab'[q].cookie = tab[q].cookie
    <3>1. tab[q].cookie.id \in Nat
      BY TabFacts DEF Typed, Tokens
    <3> QED
      BY <2>1, <3>1 DEF CookiesOK
  <2>2. CASE tab'[q].cookie = NoCookie
    <3>1. NoCookie.id = 0 /\ Owned(q, NoCookie.id)
      BY NobodysId DEF Typed, NoCookie
    <3> QED
      BY <2>2, <3>1
  <2>3. ASSUME NEW r \in Requests, calls[r].stage = "done", calls[r].by = q,
               tab'[q].cookie = calls[r].cookie
        PROVE  \E id \in Nat : Owned(q, id) /\ tab'[q].cookie.id = id
    <3>1. calls[r].cookie.id \in Nat
      BY <2>3, StageSays DEF Typed, Answers, Tokens
    <3>2. Owned(q, calls[r].cookie.id)
      BY <2>3 DEF CallsOK, CallOK
    <3> QED
      BY <2>3, <3>1, <3>2
  <2> QED
    BY <2>1, <2>2, <2>3 DEF CookieFrom
<1>3. ASSUME NEW q \in People
      PROVE  Owned(q, tab[q].cookie.id)'
  <2>1. PICK id \in Nat : Owned(q, id) /\ tab'[q].cookie.id = id
    BY <1>2
  <2>2. Owned(q, id)'
    BY <1>1, <2>1
  <2> QED
    BY <2>1, <2>2 DEF Owned
<1> QED
  BY <1>3 DEF CookiesOK

LEMMA ProvenStays ==
  ASSUME UsersTyped, UsersTyped', Grows, ProvenKept, ProvenOK
  PROVE  ProvenOK'
<1>1. \A id \in DOMAIN users : id <= created
  BY DEF UsersTyped
<1> QED
  BY <1>1 DEF Grows, ProvenKept, ProvenOK

LEMMA PageKept ==
  ASSUME IInv, Quiet, calls' = calls \/ \E r \in Requests : Renewed(r)
  PROVE  /\ UsersTyped' /\ Grows /\ ProvenKept /\ CallsTyped' /\ CallsOK'
         /\ AuditTyped' /\ SwitchesOK' /\ DeletesOK' /\ EndedTyped' /\ EndedOld' /\ LocksOK'
<1>1. Typed /\ UsersTyped /\ CallsTyped /\ CallsOK /\ CookiesOK /\ LocksOK
      /\ SwitchesOK /\ DeletesOK /\ EndedOld
  BY DEF IInv, Typed
<1>2. /\ SameRows /\ locked' = locked /\ audit' = audit /\ ended' = ended
      /\ DOMAIN users \subseteq DOMAIN users'
  BY DEF Quiet, SameRows
<1>3. RowsKept
  BY <1>1, <1>2, SameRowsKept
<1>4. UsersTyped' /\ Grows /\ ProvenKept
  BY <1>3 DEF RowsKept
<1>5. CallsTyped' /\ CallsOK' /\ LocksOK'
  <2>1. CASE calls' = calls
    <3>1. \A q \in Requests : CallOK(q)'
      BY <1>1, <1>4, <2>1, OthersStay DEF CallsOK
    <3>2. LocksOK'
      BY <1>1, <1>2, <2>1 DEF LocksOK
    <3> QED
      BY <1>1, <2>1, <3>1, <3>2 DEF CallsTyped, CallsOK
  <2>2. ASSUME NEW r \in Requests, Renewed(r)
        PROVE  CallsTyped' /\ CallsOK' /\ LocksOK'
    <3>1. CallOK(r)'
      BY <1>1, <1>2, <1>4, <2>2, RenewedOK
    <3>2. /\ calls' \in [Requests -> Calls]
          /\ \A q \in Requests : q # r => calls'[q] = calls[q]
      BY <2>2 DEF Renewed
    <3>3. calls'[r].stage # "commit"
      BY <2>2 DEF Renewed, Free, Answers
    <3>4. Moves(r)
      BY <3>1, <3>2 DEF Moves
    <3> QED
      BY <1>1, <1>2, <1>4, <3>1, <3>2, <3>3, <3>4, CallsStay, LocksStay
  <2> QED
    BY <2>1, <2>2
<1>6. SwitchesOK' /\ DeletesOK' /\ AuditTyped'
  BY <1>1, <1>2, <1>3, <1>4, SwitchesStay, DeletesStay, AuditStays
<1>7. EndedTyped' /\ EndedOld'
  BY <1>1, <1>2, <1>4, EndedStays
<1> QED
  BY <1>4, <1>5, <1>6, <1>7

LEMMA IInvInit == PagesInit => IInv
<1> SUFFICES ASSUME PagesInit
             PROVE  IInv
  OBVIOUS
<1>1. /\ users = <<>> /\ created = 0 /\ audit = <<>> /\ locked = {} /\ ended = {}
      /\ calls = [r \in Requests |-> Free]
      /\ tab = [p \in People |-> Blank]
  BY DEF PagesInit, Init
<1>2. DOMAIN users = {} /\ DOMAIN audit = {}
  BY <1>1
<1>3. UsersTyped
  BY <1>1, <1>2 DEF UsersTyped
<1>4. AuditTyped
  BY <1>1, <1>2 DEF AuditTyped
<1>5. CallsTyped
  BY <1>1 DEF CallsTyped, Calls
<1>6. TabsTyped
  <2>1. Blank \in Tabs
    BY Blanks, Small DEF Blank, Tabs
  <2> QED
    BY <1>1, <2>1 DEF TabsTyped
<1>7. CallsOK /\ LocksOK
  BY <1>1 DEF CallsOK, CallOK, LocksOK, Free, PendingStages
<1>8. CookiesOK
  <2>1. Blank.cookie.id = 0
    BY DEF Blank, NoCookie
  <2> QED
    BY <1>1, <1>2, <2>1 DEF CookiesOK, Owned
<1>9. EndedTyped /\ EndedOld
  BY <1>1 DEF EndedTyped, EndedOld
<1>10. ProvenOK /\ SwitchesOK /\ DeletesOK
  BY <1>2 DEF ProvenOK, SwitchesOK, DeletesOK
<1> QED
  BY <1>3, <1>4, <1>5, <1>6, <1>7, <1>8, <1>9, <1>10 DEF IInv, Typed

LEMMA IInvStep == IInv /\ [Next]_vars => IInv'
<1> SUFFICES ASSUME IInv, [Next]_vars
             PROVE  IInv'
  OBVIOUS
<1>1. /\ Typed /\ UsersTyped /\ CallsOK /\ CookiesOK /\ ProvenOK
  BY DEF IInv, Typed
<1>2. TabsTyped' /\ \A q \in People : CookieFrom(q)
  BY <1>1, TabStep
<1>3. /\ UsersTyped' /\ Grows /\ ProvenKept /\ CallsTyped' /\ CallsOK'
      /\ AuditTyped' /\ SwitchesOK' /\ DeletesOK' /\ EndedTyped' /\ EndedOld' /\ LocksOK'
  <2>1. ASSUME NEW r \in Requests, ServerStep(r)
        PROVE  /\ UsersTyped' /\ Grows /\ ProvenKept /\ CallsTyped' /\ CallsOK'
               /\ AuditTyped' /\ SwitchesOK' /\ DeletesOK' /\ EndedTyped' /\ EndedOld'
               /\ LocksOK'
    <3>1. Kept(r)
      BY <2>1, ServerKept
    <3>2. CallsTyped' /\ CallsOK'
      BY <1>1, <3>1, CallsStay DEF Kept, Moves
    <3> QED
      BY <3>1, <3>2 DEF Kept
  <2>2. CASE PageNext
    BY <1>1, <2>2, PageStep, PageKept
  <2>3. CASE UNCHANGED vars
    BY <2>3, PageKept DEF vars, serverVars, Quiet
  <2> QED
    BY <2>1, <2>2, <2>3 DEF Next, PageNext
<1>4. CookiesOK' /\ ProvenOK'
  BY <1>1, <1>2, <1>3, CookiesStay, ProvenStays
<1> QED
  BY <1>2, <1>3, <1>4 DEF IInv, Typed

-----------------------------------------------------------------------------
\* The parts a reader asks for hold in every state: requests know only accounts of their
\* sender (requireAuth reads the row of the cookie), a transaction holds its row alone, and
\* the version of an ended session is older than its account's (admin.routes.js:148).
THEOREM InvariantHolds == Spec => []IInv
<1>1. PagesInit => IInv
  BY IInvInit
<1>2. IInv /\ [Next]_vars => IInv'
  BY IInvStep
<1> HIDE DEF IInv
<1> QED
  BY <1>1, <1>2, PTL DEF Spec

\* An ended session stays ended, whatever is signed in to, enabled or deleted afterwards:
\* its version is behind the account's for ever, and ids are never given out twice.
THEOREM EndedSessionsStayEnded == Spec => []EndedStaysEnded
<1>1. IInv => EndedStaysEnded
  <2> SUFFICES ASSUME IInv, NEW s \in ended, Valid(s)
               PROVE  FALSE
    BY DEF EndedStaysEnded
  <2>1. s.id \in DOMAIN users /\ users[s.id].version = s.version
    BY DEF Valid, Exists
  <2>2. s.version < users[s.id].version
    BY <2>1 DEF IInv, EndedOld
  <2>3. users[s.id].version \in Nat
    BY <2>1 DEF IInv, Typed, UsersTyped, Rows
  <2> QED
    BY <2>1, <2>2, <2>3
<1>2. Spec => []IInv
  BY InvariantHolds
<1> QED
  BY <1>1, <1>2, PTL

\* The log and the accounts agree: what switches an account writes its row in the same
\* transaction, and the row lock orders the transactions of an account (audit.js:3).
THEOREM TheAuditLogIsTrue == Spec => []AuditIsTrue
<1>1. IInv => AuditIsTrue
  <2> SUFFICES ASSUME IInv
               PROVE  AuditIsTrue
    OBVIOUS
  <2>1. ASSUME NEW id \in DOMAIN users
        PROVE  users[id].disabled <=>
                 (Switches(id) # {} /\ audit[Max(Switches(id))].action = "disable")
    <3>1. Switches(id) \subseteq Nat
      BY AuditDomains DEF IInv, Typed, Switches, AuditRowsOf
    <3>2. \A a : LastSwitch(id, a) =>
            Switches(id) # {} /\ audit[Max(Switches(id))].action = a
      BY <3>1, MaxIs DEF LastSwitch
    <3>3. users[id].disabled \in BOOLEAN
      BY DEF IInv, Typed, UsersTyped, Rows
    <3>4. CASE users[id].disabled = TRUE
      BY <3>2, <3>4 DEF IInv, SwitchesOK
    <3>5. CASE users[id].disabled = FALSE
      BY <3>2, <3>5 DEF IInv, SwitchesOK
    <3> QED
      BY <3>3, <3>4, <3>5
  <2>2. DeletesOK
    BY DEF IInv
  <2> QED
    BY <2>1, <2>2 DEF AuditIsTrue, Switches, DeletesOK, Exists, AuditRowsOf
<1>2. Spec => []IInv
  BY InvariantHolds
<1> QED
  BY <1>1, <1>2, PTL

\* The owner of an admin account reads the mail of its address, for any addresses listed
\* and any people who share mailboxes: the link counts as proof only with the account's own
\* session (email.routes.js:9).
THEOREM AdminsHaveProvenBoth == Spec => []AdminHasProvenBoth
<1>1. IInv => AdminHasProvenBoth
  <2> SUFFICES ASSUME IInv, NEW id \in DOMAIN users, RoleOf(users[id]) = "admin"
               PROVE  users[id].owner = Mailbox[users[id].email]
    BY DEF AdminHasProvenBoth
  <2>1. users[id].proven \in BOOLEAN /\ users[id].proven
    BY DEF RoleOf, IInv, Typed, UsersTyped, Rows
  <2> QED
    BY <2>1 DEF IInv, ProvenOK
<1>2. Spec => []IInv
  BY InvariantHolds
<1> QED
  BY <1>1, <1>2, PTL
=============================================================================
