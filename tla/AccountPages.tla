---------------------------- MODULE AccountPages ----------------------------
(***************************************************************************)
(* The browsers of the people: the session the app believes in (App.tsx,   *)
(* utils/sessionHint.ts), the sign-in, sign-up, account, alerts and link   *)
(* pages, and the admin's users tab, against the server of Accounts.       *)
(*                                                                         *)
(* A browser has one tab and one cookie.  Answers come back in any order;  *)
(* one may be lost after the server did its work, and a reload drops the   *)
(* answers still on their way.                                             *)
(*                                                                         *)
(* Left out: the texts, the address of the page that shows (a person may   *)
(* open any page the guards let through), the lists (any account may be    *)
(* selected), and the tabs of the admin page.                              *)
(***************************************************************************)
EXTENDS Accounts

CONSTANTS
  Kinds,       \* the requests people send in this instance
  MaxSent      \* bound on the requests the pages send

VARIABLES
  tab,     \* each person's browser
  waits,   \* who waits for the answer: "page", "refresh" (users tab, after an action), "no"
  sent     \* requests sent by the pages

vars == <<serverVars, tab, waits, sent>>

Blank == [cookie |-> NoCookie, hint |-> "none", user |-> NoUser, loading |-> FALSE,
          selected |-> 0, detail |-> NoUser,
          confirming |-> FALSE, busy |-> FALSE]

PagesInit ==
  /\ Init
  /\ tab = [p \in People |-> Blank]
  /\ waits = [r \in Requests |-> "no"]
  /\ sent = 0

-----------------------------------------------------------------------------
\* ProtectedRoute and AdminRoute: nothing shows while the session is checked.
ShowsAccount(t) == ~ t.loading /\ t.user # NoUser
ShowsAdmin(t) == ShowsAccount(t) /\ t.user.role = "admin"

\* What leaving the users tab drops.
Closed(t) == [t EXCEPT !.selected = 0, !.detail = NoUser, !.confirming = FALSE, !.busy = FALSE]

\* The redirect away from a page its guard no longer shows.
Landed(t) == IF ShowsAdmin(t) THEN t ELSE Closed(t)

Put(p, t) == tab' = [tab EXCEPT ![p] = Landed(t)]

Call(r, kind, by, target, email, link) ==
  [stage |-> FirstStage(kind), kind |-> kind, by |-> by, token |-> tab[by].cookie,
   target |-> target, email |-> email, link |-> link, found |-> NoUser]

Uses(r, kind) ==
  /\ calls[r].stage = "free" /\ kind \in Kinds
  /\ sent < MaxSent /\ sent' = sent + 1

\* A request leaves the page that shows; nothing else moves on the server.
Sends(r, p, kind, target, email, link) ==
  /\ Uses(r, kind)
  /\ calls' = [calls EXCEPT ![r] = Call(r, kind, p, target, email, link)]
  /\ waits' = [waits EXCEPT ![r] = "page"]
  /\ UNCHANGED <<users, created, audit, entries, locked, ended>>

Asks(r, p, kind) == Sends(r, p, kind, 0, "none", 0)

\* The pages that were open no longer wait.
Orphaned(p) ==
  [r \in Requests |-> IF calls[r].stage # "free" /\ calls[r].by = p THEN "no" ELSE waits[r]]

-----------------------------------------------------------------------------
\* The app starts: it asks for the session unless the hint says signed out.
Load(p) ==
  LET fresh == [Blank EXCEPT !.cookie = tab[p].cookie, !.hint = tab[p].hint]
  IN  /\ "session" \in Kinds
      /\ \/ /\ tab[p].hint = "out"
            /\ Put(p, fresh)
            /\ waits' = Orphaned(p)
            /\ UNCHANGED <<serverVars, sent>>
         \/ \E r \in Requests :
              /\ tab[p].hint # "out" /\ Uses(r, "session")
              /\ calls' = [calls EXCEPT ![r] = Call(r, "session", p, 0, "none", 0)]
              /\ waits' = [Orphaned(p) EXCEPT ![r] = "page"]
              /\ Put(p, [fresh EXCEPT !.loading = TRUE])
              /\ UNCHANGED <<users, created, audit, entries, locked, ended>>

Leave(p) ==
  /\ tab[p] # Closed(tab[p])
  /\ Put(p, Closed(tab[p]))
  /\ waits' = Orphaned(p)
  /\ UNCHANGED <<serverVars, sent>>

SubmitSignIn(r, p) ==
  /\ \E email \in Emails : Sends(r, p, "login", 0, email, 0)
  /\ UNCHANGED tab

SubmitSignUp(r, p) ==
  /\ created < MaxAccounts
  /\ \E email \in Emails : Sends(r, p, "register", 0, email, 0)
  /\ UNCHANGED tab

\* logout only clears the cookie: it is answered at once.
SignOut(r, p) ==
  /\ tab[p].user # NoUser
  /\ Uses(r, "logout")
  /\ calls' = [calls EXCEPT ![r] = [kind |-> "logout", by |-> p, target |-> 0, stage |-> "done",
                 status |-> 200, cookie |-> NoCookie, clear |-> TRUE, user |-> NoUser]]
  /\ waits' = [waits EXCEPT ![r] = "page"]
  /\ UNCHANGED <<users, created, audit, entries, locked, ended, tab>>

LoadProfile(r, p) == ShowsAccount(tab[p]) /\ Asks(r, p, "me") /\ UNCHANGED tab
DeleteAccount(r, p) == ShowsAccount(tab[p]) /\ Asks(r, p, "deleteMe") /\ UNCHANGED tab

SwitchEmail(r, p) ==
  /\ tab[p].user # NoUser
  /\ Asks(r, p, "emailOn") \/ Asks(r, p, "emailOff")
  /\ UNCHANGED tab

\* The link of the mail, pressed by whoever reads the mailbox.
PressLink(r, p) ==
  /\ \E id \in DOMAIN users :
       /\ Mailbox[users[id].email] = p /\ users[id].link # 0
       /\ Sends(r, p, "confirm", id, "none", users[id].link)
  /\ UNCHANGED tab

CreateEntry(r, p) == ShowsAdmin(tab[p]) /\ Asks(r, p, "entry") /\ UNCHANGED tab

-----------------------------------------------------------------------------
(***************************************************************************)
(* The users tab of the admin page                                         *)
(***************************************************************************)
\* The details of the row selected before stay until the new ones arrive.
Select(r, p) ==
  /\ ShowsAdmin(tab[p])
  /\ \E id \in 1 .. created :
       /\ id # tab[p].selected
       /\ Sends(r, p, "detail", id, "none", 0)
       /\ Put(p, [tab[p] EXCEPT !.selected = id])

Close(p) ==
  /\ ShowsAdmin(tab[p]) /\ tab[p].selected # 0
  /\ Put(p, [tab[p] EXCEPT !.selected = 0, !.detail = NoUser])
  /\ UNCHANGED <<serverVars, waits, sent>>

CanAct(t) ==
  /\ t.detail # NoUser /\ t.detail.role # "admin"
  /\ t.detail.email # t.user.email
  /\ ~ t.busy

SetDisabledOf(r, p) ==
  LET t == tab[p]
  IN  /\ ShowsAdmin(tab[p]) /\ CanAct(t) /\ t.selected # 0
      /\ Sends(r, p, IF t.detail.disabled THEN "enable" ELSE "disable", t.detail.id, "none", 0)
      /\ Put(p, [t EXCEPT !.busy = TRUE])

AskDelete(p) ==
  /\ ShowsAdmin(tab[p]) /\ CanAct(tab[p]) /\ tab[p].selected # 0 /\ ~ tab[p].confirming
  /\ "remove" \in Kinds
  /\ Put(p, [tab[p] EXCEPT !.confirming = TRUE])
  /\ UNCHANGED <<serverVars, waits, sent>>

\* The dialog deletes the account whose details show when the address is typed.
DeleteUser(r, p) ==
  LET t == tab[p]
  IN  /\ ShowsAdmin(tab[p]) /\ t.confirming /\ t.detail # NoUser /\ ~ t.busy
      /\ Sends(r, p, "remove", t.detail.id, "none", 0)
      /\ Put(p, [t EXCEPT !.busy = TRUE])

-----------------------------------------------------------------------------
(***************************************************************************)
(* Answers                                                                 *)
(***************************************************************************)
\* What the browser does with any answer.
WithCookie(t, answer) ==
  [t EXCEPT !.cookie = IF answer.cookie # NoCookie THEN answer.cookie
                       ELSE IF answer.clear THEN NoCookie ELSE @]

SignedIn(t, user) == [t EXCEPT !.hint = "in", !.user = user, !.loading = FALSE]
SignedOut(t) == [t EXCEPT !.hint = "out", !.user = NoUser]

\* The page's next state on an answer (status 0: the request failed on the way).
OnAnswer(t, kind, status, user) ==
  CASE kind = "session" /\ status = 200 ->
         [t EXCEPT !.hint = IF user = NoUser THEN "out" ELSE "in", !.user = user, !.loading = FALSE]
    [] kind = "session" /\ status # 200 -> [t EXCEPT !.user = NoUser, !.loading = FALSE]
    [] kind = "login" /\ status = 200 -> SignedIn(t, user)
    [] kind = "register" /\ status = 200 -> SignedIn(t, user)
    [] kind = "logout" -> SignedOut(t)
    [] kind = "deleteMe" /\ status = 200 -> SignedOut(t)
    [] kind = "detail" -> [t EXCEPT !.detail = IF status = 200 THEN user ELSE NoUser]
    [] kind = "remove" /\ status = 200 -> Closed(t)
    [] kind \in {"remove", "disable", "enable"} /\ status # 200 -> [t EXCEPT !.busy = FALSE]
    [] OTHER -> t

Free1(r) == calls' = [calls EXCEPT ![r] = Free]

Receive(r) ==
  LET answer == calls[r]
      p == answer.by
      t == WithCookie(tab[p], answer)
  IN  /\ answer.stage = "done" /\ waits[r] = "page"
      /\ ~ (answer.kind \in {"disable", "enable"} /\ answer.status = 200)
      /\ Put(p, OnAnswer(t, answer.kind, answer.status, answer.user))
      /\ Free1(r)
      /\ waits' = [waits EXCEPT ![r] = "no"]
      /\ UNCHANGED <<users, created, audit, entries, locked, ended, sent>>

\* runAction: after a disable or an enable the details are read again.
ReceiveSetDisabled(r) ==
  /\ calls[r].stage = "done" /\ waits[r] = "page"
  /\ calls[r].kind \in {"disable", "enable"} /\ calls[r].status = 200
  /\ calls' = [calls EXCEPT ![r] = Call(r, "detail", calls[r].by, calls[r].target, "none", 0)]
  /\ waits' = [waits EXCEPT ![r] = "refresh"]
  /\ UNCHANGED <<users, created, audit, entries, locked, ended, tab, sent>>

ReceiveRefresh(r) ==
  LET answer == calls[r]
      p == answer.by
      t == WithCookie(tab[p], answer)
  IN  /\ answer.stage = "done" /\ waits[r] = "refresh"
      /\ Put(p, [t EXCEPT !.busy = FALSE,
                          !.detail = IF answer.status = 200 /\ ShowsAdmin(tab[p]) THEN answer.user ELSE @])
      /\ Free1(r)
      /\ waits' = [waits EXCEPT ![r] = "no"]
      /\ UNCHANGED <<users, created, audit, entries, locked, ended, sent>>

Changes == {"login", "register", "deleteMe", "emailOn", "emailOff", "confirm", "entry",
            "disable", "enable", "remove"}

\* The connection breaks: the page sees an error, the server goes on (with a read, unseen).
Lost(r) ==
  LET p == calls[r].by
  IN  /\ calls[r].stage # "free" /\ waits[r] # "no"
      /\ calls[r].kind \in Changes \/ calls[r].stage = "done"
      /\ Put(p, IF waits[r] = "refresh" THEN [tab[p] EXCEPT !.busy = FALSE]
                ELSE OnAnswer(tab[p], calls[r].kind, 0, NoUser))
      /\ waits' = [waits EXCEPT ![r] = "no"]
      /\ UNCHANGED <<serverVars, sent>>

\* An answer nobody waits for goes nowhere.
Discard(r) ==
  /\ calls[r].stage = "done" /\ waits[r] = "no"
  /\ Free1(r)
  /\ UNCHANGED <<users, created, audit, entries, locked, ended, tab, waits, sent>>

-----------------------------------------------------------------------------
Page(r, p) ==
  \/ SubmitSignIn(r, p) \/ SubmitSignUp(r, p) \/ SignOut(r, p) \/ LoadProfile(r, p)
  \/ DeleteAccount(r, p) \/ SwitchEmail(r, p) \/ PressLink(r, p) \/ CreateEntry(r, p)
  \/ Select(r, p) \/ SetDisabledOf(r, p) \/ DeleteUser(r, p)

Next ==
  \/ \E r \in Requests : ServerStep(r) /\ UNCHANGED <<tab, waits, sent>>
  \/ \E r \in Requests, p \in People : Page(r, p)
  \/ \E p \in People : Load(p) \/ Leave(p) \/ Close(p) \/ AskDelete(p)
  \/ \E r \in Requests : Receive(r) \/ ReceiveSetDisabled(r) \/ ReceiveRefresh(r) \/ Lost(r) \/ Discard(r)

Spec == PagesInit /\ [][Next]_vars
=============================================================================
