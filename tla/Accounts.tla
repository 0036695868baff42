------------------------------ MODULE Accounts ------------------------------
(***************************************************************************)
(* Accounts on the backend: sign-up, sign-in, the session check, deleting  *)
(* one's account, the confirmation link, the e-mail switch, and the        *)
(* admin's disable, enable and delete with their audit log                 *)
(* (backend/src/routes: users, alerts, email, admin, disaster;             *)
(* middleware/auth.middleware.js, utils: session, adminEmails, audit,      *)
(* accountDeletion).                                                       *)
(*                                                                         *)
(* A request is a program of database statements; other requests run in    *)
(* between.  The transactions of the admin routes and of a deletion hold   *)
(* the row of the user from the statement that writes it; what they wrote  *)
(* is seen at the commit (PostgreSQL, READ COMMITTED).  A statement of a   *)
(* transaction sees what was committed when it ran.                        *)
(*                                                                         *)
(* Left out: rate limits, the format of inputs, lastLoginAt and the stored *)
(* role (only roleFor is read), pages of lists, and the expiry of tokens.  *)
(***************************************************************************)
EXTENDS Naturals, Sequences, FiniteSets, FiniteSetsExt

CONSTANTS
  People, Emails,
  Mailbox,       \* who reads the mail of an address
  Listed,        \* ADMIN_EMAILS
  Requests,      \* requests under way at once
  MaxAccounts,   \* bound on registrations
  MaxAudit       \* bound on the audit log

ASSUME AccountsAssumption ==
  /\ Mailbox \in [Emails -> People] /\ Listed \subseteq Emails
  /\ MaxAccounts \in Nat /\ MaxAudit \in Nat

VARIABLES
  users,     \* the rows of User, by id
  created,   \* ids given out
  audit,     \* the rows of AdminAuditLog
  entries,   \* the manual disasters: the audit row of each, and its createdBy
  locked,    \* rows held by a transaction
  calls,     \* the requests
  ended      \* sessions that a disable or a deletion ended (history)

serverVars == <<users, created, audit, entries, locked, calls, ended>>

NoCookie == [id |-> 0, version |-> 0]
NoUser == [id |-> 0, email |-> "none", role |-> "none", disabled |-> FALSE]
Free == [stage |-> "free"]

NewRow(email, owner) ==
  [email |-> email, owner |-> owner, version |-> 0, disabled |-> FALSE,
   on |-> FALSE, link |-> 0, issued |-> 0, verified |-> FALSE, proven |-> FALSE]

Init ==
  /\ users = <<>> /\ created = 0
  /\ audit = <<>> /\ entries = {}
  /\ locked = {}
  /\ calls = [r \in Requests |-> Free]
  /\ ended = {}

-----------------------------------------------------------------------------
Exists(id) == id \in DOMAIN users
WithEmail(email) == {id \in DOMAIN users : users[id].email = email}

\* roleFor: listed, and the link was opened while signed in.
RoleOf(row) == IF row.proven /\ row.email \in Listed THEN "admin" ELSE "user"

\* requireAuth, sessionUserId: what makes a cookie a session.
Valid(token) ==
  /\ Exists(token.id)
  /\ ~ users[token.id].disabled
  /\ users[token.id].version = token.version

PublicOf(id, row) ==
  [id |-> id, email |-> row.email, role |-> RoleOf(row), disabled |-> row.disabled]
PublicUser(id) == PublicOf(id, users[id])
SessionOf(id) == [id |-> id, version |-> users[id].version]

\* The actor and the admins are protected.
Protected(actor, id) == id = actor \/ RoleOf(users[id]) = "admin"

-----------------------------------------------------------------------------
(***************************************************************************)
(* Answers                                                                 *)
(***************************************************************************)
Answered(r, status, cookie, clear, user) ==
  [kind |-> calls[r].kind, by |-> calls[r].by, target |-> calls[r].target, stage |-> "done",
   status |-> status, cookie |-> cookie, clear |-> clear, user |-> user]

Respond(r, status) == calls' = [calls EXCEPT ![r] = Answered(r, status, NoCookie, FALSE, NoUser)]
RespondClearing(r, status) ==
  calls' = [calls EXCEPT ![r] = Answered(r, status, NoCookie, calls[r].token # NoCookie, NoUser)]
RespondUser(r, user) == calls' = [calls EXCEPT ![r] = Answered(r, 200, NoCookie, FALSE, user)]
SignIn(r, session, user) == calls' = [calls EXCEPT ![r] = Answered(r, 200, session, FALSE, user)]
Goes(r, stage) == calls' = [calls EXCEPT ![r].stage = stage]

AdminKinds == {"detail", "disable", "enable", "remove", "entry"}
AuthKinds == AdminKinds \cup {"me", "deleteMe", "emailOn", "emailOff"}

\* The first statement a request of this kind runs.
FirstStage(kind) == IF kind \in AuthKinds \cup {"session"} THEN "auth" ELSE "read"

(***************************************************************************)
(* requireAuth, requireAdmin, and the session check, which answers "no     *)
(* user" instead of 401.                                                   *)
(***************************************************************************)
Authenticate(r) ==
  /\ calls[r].stage = "auth"
  /\ LET token == calls[r].token
         kind == calls[r].kind
     IN  \/ ~ Valid(token) /\ RespondClearing(r, IF kind = "session" THEN 200 ELSE 401)
         \/ /\ Valid(token) /\ kind \in AdminKinds /\ RoleOf(users[token.id]) # "admin"
            /\ Respond(r, 403)
         \/ /\ Valid(token) /\ (kind \in AdminKinds => RoleOf(users[token.id]) = "admin")
            /\ IF kind = "entry"   \* createdBy is the address of req.user
               THEN calls' = [calls EXCEPT ![r].stage = "read", ![r].email = users[token.id].email]
               ELSE Goes(r, "read")
  /\ UNCHANGED <<users, created, audit, entries, locked, ended>>

-----------------------------------------------------------------------------
(***************************************************************************)
(* What the handlers read, and decide on it.                               *)
(***************************************************************************)
ReadForRegister(r) ==
  IF WithEmail(calls[r].email) # {} THEN Respond(r, 409) ELSE Goes(r, "write")

\* The password is compared and the suspension checked on the row read here.
ReadForLogin(r) ==
  LET found == {id \in WithEmail(calls[r].email) : users[id].owner = calls[r].by}
  IN  \/ found = {} /\ Respond(r, 401)
      \/ \E id \in found :
           IF users[id].disabled THEN Respond(r, 403)
           ELSE calls' = [calls EXCEPT ![r].stage = "write", ![r].target = id]

ReadOwn(r) ==
  LET id == calls[r].token.id
  IN  CASE calls[r].kind = "me" ->
             IF Exists(id) THEN RespondUser(r, PublicUser(id)) ELSE RespondClearing(r, 401)
        [] calls[r].kind = "session" -> RespondUser(r, IF Exists(id) THEN PublicUser(id) ELSE NoUser)
        [] calls[r].kind = "deleteMe" ->
             CASE ~ Exists(id) -> RespondClearing(r, 200)
               [] Exists(id) /\ users[id].owner # calls[r].by -> Respond(r, 403)
               [] OTHER -> calls' = [calls EXCEPT ![r].stage = "erase", ![r].target = id]
        [] calls[r].kind \in {"emailOn", "emailOff"} ->
             IF ~ Exists(id) THEN Respond(r, 500)
             ELSE calls' = [calls EXCEPT ![r].stage = "write", ![r].target = id,
                                         ![r].found = users[id]]

ReadTarget(r) ==
  LET id == calls[r].target
  IN  CASE ~ Exists(id) -> Respond(r, 404)
        [] Exists(id) /\ calls[r].kind = "detail" -> RespondUser(r, PublicUser(id))
        [] Exists(id) /\ calls[r].kind \in {"disable", "remove"}
             /\ Protected(calls[r].token.id, id) -> Respond(r, 403)
        [] OTHER -> Goes(r, IF calls[r].kind = "remove" THEN "erase" ELSE "hold")

ReadLink(r) ==
  LET id == calls[r].target
  IN  IF ~ Exists(id) \/ users[id].link # calls[r].link THEN Respond(r, 404)
      ELSE calls' = [calls EXCEPT ![r].stage = "session", ![r].email = users[id].email]

Read(r) ==
  /\ calls[r].stage = "read"
  /\ LET kind == calls[r].kind
     IN  \/ kind = "register" /\ ReadForRegister(r)
         \/ kind = "login" /\ ReadForLogin(r)
         \/ kind \in {"me", "session", "deleteMe", "emailOn", "emailOff"} /\ ReadOwn(r)
         \/ kind \in {"detail", "disable", "enable", "remove"} /\ ReadTarget(r)
         \/ kind = "confirm" /\ ReadLink(r)
         \/ kind = "entry" /\ Goes(r, "write")
  /\ UNCHANGED <<users, created, audit, entries, locked, ended>>

\* A bug to look for: whoever opens the link confirms it as signed in.
ConfirmSessionAny(r) ==
  /\ calls[r].stage = "session"
  /\ calls' = [calls EXCEPT ![r].stage = "write", ![r].found = TRUE]
  /\ UNCHANGED <<users, created, audit, entries, locked, ended>>

\* A listed address is confirmed only with the account's own session.
ConfirmSession(r) ==
  /\ calls[r].stage = "session"
  /\ LET signedIn == Valid(calls[r].token) /\ calls[r].token.id = calls[r].target
     IN  IF calls[r].email \in Listed /\ ~ signedIn THEN Respond(r, 403)
         ELSE calls' = [calls EXCEPT ![r].stage = "write", ![r].found = signedIn]
  /\ UNCHANGED <<users, created, audit, entries, locked, ended>>

-----------------------------------------------------------------------------
(***************************************************************************)
(* Statements that write outside a transaction of their own making.  Those *)
(* that update a row wait for the transaction that holds it.               *)
(***************************************************************************)
\* user.create; the address is unique.
WriteUser(r) ==
  LET email == calls[r].email
      id == created + 1
      row == NewRow(email, calls[r].by)
  IN  \/ /\ WithEmail(email) # {}
         /\ Respond(r, 409) /\ UNCHANGED <<users, created>>
      \/ /\ WithEmail(email) = {}
         /\ users' = [u \in DOMAIN users \cup {id} |-> IF u = id THEN row ELSE users[u]]
         /\ created' = id
         /\ SignIn(r, [id |-> id, version |-> 0], PublicOf(id, row))

\* The cookie carries the version of the row after the update.
WriteLogin(r) ==
  LET id == calls[r].target
  IN  /\ IF Exists(id) THEN SignIn(r, SessionOf(id), PublicUser(id)) ELSE Respond(r, 500)
      /\ UNCHANGED <<users, created>>

\* The link in the condition: one issued meanwhile, or a second press, changes nothing.
WriteConfirm(r) ==
  LET id == calls[r].target
  IN  /\ IF Exists(id) /\ users[id].link = calls[r].link
         THEN /\ users' = [users EXCEPT ![id].verified = TRUE, ![id].link = 0,
                                        ![id].proven = @ \/ calls[r].found]
              /\ Respond(r, 200)
         ELSE Respond(r, 404) /\ UNCHANGED users
      /\ UNCHANGED created

\* PUT /alerts/email: what is written follows from the row read before.
WriteEmail(r) ==
  LET id == calls[r].target
      was == calls[r].found
      needsLink == ~ was.verified /\ was.link = 0
      fresh == [users EXCEPT ![id].on = @ \/ ~ was.on, ![id].link = users[id].issued + 1,
                             ![id].issued = @ + 1]
      kept == [users EXCEPT ![id].on = TRUE,
                            ![id].link = IF was.verified THEN @ ELSE was.link]
  IN  /\ IF Exists(id)
         THEN /\ users' = IF calls[r].kind = "emailOff" THEN [users EXCEPT ![id].on = FALSE]
                          ELSE IF was.on /\ ~ needsLink THEN users
                          ELSE IF needsLink THEN fresh ELSE kept
              /\ Respond(r, 200)
         ELSE /\ UNCHANGED users
              /\ Respond(r, IF calls[r].kind = "emailOn" /\ was.on /\ ~ needsLink THEN 200 ELSE 500)
      /\ UNCHANGED created

Write(r) ==
  /\ calls[r].stage = "write" /\ calls[r].target \notin locked
  /\ LET kind == calls[r].kind
     IN  \/ kind = "register" /\ WriteUser(r)
         \/ kind = "login" /\ WriteLogin(r)
         \/ kind = "confirm" /\ WriteConfirm(r)
         \/ kind \in {"emailOn", "emailOff"} /\ WriteEmail(r)
  /\ UNCHANGED <<audit, entries, locked, ended>>

AuditRow(action, target, label) == [action |-> action, target |-> target, label |-> label]

\* POST /disasters: the entry and its audit row in one transaction.
WriteEntry(r) ==
  /\ calls[r].stage = "write" /\ calls[r].kind = "entry"
  /\ Len(audit) < MaxAudit
  /\ entries' = entries \cup {[row |-> Len(audit) + 1, createdBy |-> calls[r].email]}
  /\ audit' = Append(audit, AuditRow("create", 0, "entry"))
  /\ Respond(r, 201)
  /\ UNCHANGED <<users, created, locked, ended>>

-----------------------------------------------------------------------------
(***************************************************************************)
(* Transactions                                                            *)
(***************************************************************************)
Hold(r, id, stage) ==
  /\ id \notin locked
  /\ locked' = locked \cup {id}
  /\ Goes(r, stage)

\* setDisabled: the update takes the row; no such row is an error.
SetDisabled(r) ==
  /\ calls[r].stage = "hold" /\ Len(audit) < MaxAudit
  /\ LET id == calls[r].target
     IN  IF Exists(id) THEN Hold(r, id, "commit")
         ELSE Respond(r, 500) /\ UNCHANGED locked
  /\ UNCHANGED <<users, created, audit, entries, ended>>

AuditRowsOf(id) == {i \in DOMAIN audit : audit[i].target = id}

\* The manual disasters of the account: those that carry its address.
EntryRowsOf(id) ==
  {i \in DOMAIN audit :
     Exists(id) /\ \E e \in entries : e.row = i /\ e.createdBy = users[id].email}

\* eraseAccount, the updates: the rows they see are masked at the commit.
EraseRecords(r) ==
  /\ calls[r].stage = "erase"
  /\ LET id == calls[r].target
     IN  calls' = [calls EXCEPT ![r].stage = "delete",
                                ![r].found = AuditRowsOf(id) \cup EntryRowsOf(id)]
  /\ UNCHANGED <<users, created, audit, entries, locked, ended>>

\* eraseAccount, the delete: gone meanwhile is a success for the account's own request.
EraseUser(r) ==
  /\ calls[r].stage = "delete" /\ Len(audit) < MaxAudit
  /\ LET id == calls[r].target
     IN  IF Exists(id) THEN Hold(r, id, "commit")
         ELSE /\ IF calls[r].kind = "deleteMe" THEN RespondClearing(r, 200) ELSE Respond(r, 500)
              /\ UNCHANGED locked
  /\ UNCHANGED <<users, created, audit, entries, ended>>

\* A bug to look for: disabling leaves the sessions to the flag alone.
CommitDisableOnly(r, id) ==
  /\ users' = [users EXCEPT ![id].disabled = TRUE]
  /\ audit' = Append(audit, AuditRow("disable", id, "address"))
  /\ ended' = ended \cup {SessionOf(id)}
  /\ UNCHANGED entries
  /\ Respond(r, 200)

CommitDisable(r, id) ==
  /\ users' = [users EXCEPT ![id].disabled = TRUE, ![id].version = @ + 1]
  /\ audit' = Append(audit, AuditRow("disable", id, "address"))
  /\ ended' = ended \cup {SessionOf(id)}
  /\ UNCHANGED entries
  /\ Respond(r, 200)

\* A bug to look for: enabling is not logged.
CommitEnableUnlogged(r, id) ==
  /\ users' = [users EXCEPT ![id].disabled = FALSE]
  /\ UNCHANGED <<audit, entries, ended>>
  /\ Respond(r, 200)

CommitEnable(r, id) ==
  /\ users' = [users EXCEPT ![id].disabled = FALSE]
  /\ audit' = Append(audit, AuditRow("enable", id, "address"))
  /\ UNCHANGED <<entries, ended>>
  /\ Respond(r, 200)

CommitErase(r, id) ==
  LET masked == [i \in DOMAIN audit |-> IF i \in calls[r].found \cap AuditRowsOf(id)
                                        THEN [audit[i] EXCEPT !.label = "masked"] ELSE audit[i]]
      own == calls[r].kind = "deleteMe"
  IN  /\ users' = [u \in DOMAIN users \ {id} |-> users[u]]
      /\ audit' = IF own THEN masked ELSE Append(masked, AuditRow("delete", id, "masked"))
      /\ entries' = {IF e.row \in calls[r].found THEN [e EXCEPT !.createdBy = "masked"] ELSE e :
                      e \in entries}
      /\ ended' = ended \cup {SessionOf(id)}
      /\ IF own THEN RespondClearing(r, 200) ELSE Respond(r, 200)

Commit(r) ==
  /\ calls[r].stage = "commit"
  /\ LET id == calls[r].target
     IN  /\ \/ calls[r].kind = "disable" /\ CommitDisable(r, id)
            \/ calls[r].kind = "enable" /\ CommitEnable(r, id)
            \/ calls[r].kind \in {"deleteMe", "remove"} /\ CommitErase(r, id)
         /\ locked' = locked \ {id}
  /\ UNCHANGED created

\* The database fails: a transaction is rolled back, the answer is 500.  Before the first
\* write it does not matter which statement fails.
Fails(r) ==
  /\ calls[r].stage \in {"auth", "commit"}
  /\ locked' = IF calls[r].stage = "commit" THEN locked \ {calls[r].target} ELSE locked
  /\ Respond(r, 500)
  /\ UNCHANGED <<users, created, audit, entries, ended>>

ServerStep(r) ==
  \/ Authenticate(r) \/ Read(r) \/ ConfirmSession(r) \/ Write(r) \/ WriteEntry(r)
  \/ SetDisabled(r) \/ EraseRecords(r) \/ EraseUser(r) \/ Commit(r) \/ Fails(r)

-----------------------------------------------------------------------------
\* A session ended by a disable or a deletion never becomes valid again, not even when the
\* account is enabled: disabling bumps tokenVersion (admin.routes.js:148).
EndedStaysEnded == \A session \in ended : ~ Valid(session)

\* The audit log agrees with the accounts: an account is disabled exactly when its last
\* disable or enable row says so, and a deletion is logged once and only of an account that
\* is gone ("the log can never show an action that did not happen or miss one", audit.js:3).
AuditIsTrue ==
  /\ \A id \in DOMAIN users :
       LET rows == {i \in AuditRowsOf(id) : audit[i].action \in {"disable", "enable"}}
       IN  users[id].disabled <=> (rows # {} /\ audit[Max(rows)].action = "disable")
  /\ \A i \in DOMAIN audit : audit[i].action = "delete" =>
       /\ ~ Exists(audit[i].target)
       /\ \A j \in AuditRowsOf(audit[i].target) : audit[j].action = "delete" => j = i

\* Whoever signs in to an admin account reads the mail of its listed address: the password
\* and the mailbox were proven together (adminEmails.js:6, email.routes.js:9).
AdminHasProvenBoth ==
  \A id \in DOMAIN users : RoleOf(users[id]) = "admin" => users[id].owner = Mailbox[users[id].email]

\* "audit rows about the account keep only the masked address" (accountDeletion.js:11).
MaskedAfterDeletion ==
  \A i \in DOMAIN audit :
    audit[i].target # 0 /\ ~ Exists(audit[i].target) => audit[i].label = "masked"
=============================================================================
