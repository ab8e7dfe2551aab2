------------------------------ MODULE Sessions ------------------------------
(***************************************************************************)
(* Sessions: lib/auth/auth-context.tsx with the login and register pages,  *)
(* the dashboard's layout, sidebar and profile menu, before the accounts   *)
(* of module Accounts.                                                     *)
(*                                                                         *)
(* A browser has one httpOnly cookie; each of its tabs has an AuthProvider *)
(* that asks /auth/me once, when it mounts, and from then on believes its  *)
(* own answers.  A call is sent with the cookie of that moment, served by  *)
(* the API, and taken by the tab when the answer arrives: in any order.    *)
(***************************************************************************)
EXTENDS Accounts

CONSTANTS
    Tabs,
    Browsers,
    Placements,   \* which browser each tab may be in: functions Tabs -> Browsers
    MaxLoads,     \* bound: page loads
    MaxCalls,     \* bound: calls sent other than /auth/me
    MaxEdits,     \* bound: invitations, removals and permission changes
    MaxLosses     \* bound: answers lost, cookies expired

ASSUME PlacementsAreFunctions == Placements \subseteq [Tabs -> Browsers]
ASSUME SessionBounds == {MaxLoads, MaxCalls, MaxEdits, MaxLosses} \subseteq Nat

VARIABLES
    browserOf,    \* the browser of each tab: never changes
    cookie,       \* access_token of each browser: a token or Nil
    status,       \* of each tab: "closed" before its first load
    shown,        \* its `user': the record it was last given
    calls,        \* calls under way
    muddled,      \* history: tabs whose cookie changed behind their back
    loads, sent, edits, losses

bounds == <<loads, sent, edits, losses>>
vars == <<accounts, browserOf, cookie, status, shown, calls, muddled, bounds>>

Failed == [ok |-> FALSE, user |-> Nil]
Ok(u) == [ok |-> TRUE, user |-> u]
TokenOf(u) == [sub |-> u.id, tenantId |-> u.tenantId, role |-> u.role]

Init ==
    /\ AccountsInit
    /\ browserOf \in Placements
    /\ cookie = [b \in Browsers |-> Nil]
    /\ status = [t \in Tabs |-> "closed"]
    /\ shown = [t \in Tabs |-> Nil]
    /\ calls = {}
    /\ muddled = {}
    /\ loads = 0 /\ sent = 0 /\ edits = 0 /\ losses = 0

Call(t, op, arg) == [tab |-> t, op |-> op, arg |-> arg, tok |-> cookie[browserOf[t]],
                     got |-> Nil,
                     no |-> CHOOSE n \in 0 .. MaxCalls :
                                \A c \in calls : c.tab = t /\ c.op = op => c.no # n]
Siblings(t) == {u \in Tabs \ {t} : browserOf[u] = browserOf[t] /\ status[u] # "closed"}

(***************************************************************************)
(* What a tab sends                                                        *)
(***************************************************************************)

\* A page load mounts AuthProvider: the answers to the last page are not heard.
Load(t) ==
    /\ loads < MaxLoads
    /\ loads' = loads + 1
    /\ status' = [status EXCEPT ![t] = "loading"]
    /\ shown' = [shown EXCEPT ![t] = Nil]
    /\ calls' = {c \in calls : c.tab # t} \union {Call(t, "me", Nil)}
    /\ muddled' = muddled \ {t}
    /\ UNCHANGED <<accounts, browserOf, cookie, sent, edits, losses>>

Send(t, op, arg) ==
    /\ sent < MaxCalls
    /\ sent' = sent + 1
    /\ calls' = calls \union {Call(t, op, arg)}
    /\ UNCHANGED <<accounts, browserOf, cookie, status, shown, muddled, loads, edits, losses>>

\* The forms do not wait for the answer to /auth/me.  `submitting' belongs to the
\* form on screen: the other form is open while a call is under way, and so is
\* this one after a visit to the other.
FormIsOpen(t) == status[t] \in {"loading", "unauthenticated"}

SignIn(t, e) == FormIsOpen(t) /\ Send(t, "login", e)
SignUp(t, e, s) == FormIsOpen(t) /\ Send(t, "register", <<e, s>>)
\* ProfileMenu is in the dashboard; nothing disables its button.
SignOut(t) == status[t] = "authenticated" /\ Send(t, "logout", Nil)

\* The sidebar offers what the record of the last answer allows.
IsVisible(u, a) == u.role = "OWNER" \/ a \in u.may
OpenArea(t, a) ==
    /\ status[t] = "authenticated" /\ IsVisible(shown[t], a)
    /\ Send(t, "area", a)

(***************************************************************************)
(* Plausible slips; none is part of Next.                                  *)
(***************************************************************************)

Hear(c) == c \in calls /\ c.got # Nil /\ calls' = calls \ {c}

\* logout forgets the user in a `finally'.
TakeLogoutFinally(c) ==
    /\ c.op = "logout" /\ Hear(c)
    /\ status' = [status EXCEPT ![c.tab] = "unauthenticated"]
    /\ shown' = [shown EXCEPT ![c.tab] = Nil]
    /\ cookie' = IF c.got.ok THEN [cookie EXCEPT ![browserOf[c.tab]] = Nil] ELSE cookie
    /\ muddled' = IF c.got.ok THEN (muddled \ {c.tab}) \union Siblings(c.tab) ELSE muddled
    /\ UNCHANGED <<accounts, browserOf, bounds>>

\* A token whose account is gone is answered from the token.
ServeMeUnchecked(c) ==
    /\ c.op = "me" /\ c \in calls /\ c.got = Nil
    /\ calls' = (calls \ {c}) \union {[c EXCEPT !.got =
           IF c.tok # Nil THEN [ok |-> TRUE, user |-> c.tok] ELSE Failed]}
    /\ UNCHANGED <<accounts, browserOf, cookie, status, shown, muddled, bounds>>

(***************************************************************************)
(* What the API answers                                                    *)
(***************************************************************************)

Answer(c, result) ==
    /\ c \in calls /\ c.got = Nil
    /\ calls' = (calls \ {c}) \union {[c EXCEPT !.got = result]}
    /\ UNCHANGED <<browserOf, cookie, status, shown, muddled, bounds>>

\* findUniqueOrThrow: a removed account has no `me'.
ServeMe(c) ==
    /\ c.op = "me"
    /\ Answer(c, IF c.tok # Nil /\ c.tok.sub \in Accounts THEN Ok(Sanitize(c.tok.sub)) ELSE Failed)
    /\ UNCHANGED accounts

\* The one account of the e-mail, or 401: also for a wrong password.
ServeLogin(c) ==
    /\ c.op = "login"
    /\ \/ Answer(c, Failed)
       \/ \E i \in Accounts : users[i].email = c.arg /\ Answer(c, Ok(Sanitize(i)))
    /\ UNCHANGED accounts

ServeRegister(c) ==
    /\ c.op = "register"
    /\ \/ /\ Register(c.arg[1], c.arg[2])
          /\ Answer(c, Ok([id |-> Len(users) + 1, tenantId |-> c.arg[2],
                           role |-> "OWNER", may |-> Areas]))
       \/ /\ ~RegisterAllowed(c.arg[1], c.arg[2])
          /\ Answer(c, Failed)
          /\ UNCHANGED accounts

ServeLogout(c) == c.op = "logout" /\ Answer(c, Ok(Nil)) /\ UNCHANGED accounts

\* Any handler behind JwtAuthGuard and PermissionGuard.
ServeArea(c) ==
    /\ c.op = "area"
    /\ Answer(c, IF c.tok # Nil /\ Admits(c.tok, c.arg) THEN Ok(Nil) ELSE Failed)
    /\ UNCHANGED accounts

\* The API was not reached, or its answer is lost after it was served; an area
\* call that is lost sets nothing here.
Lose(c) ==
    /\ losses < MaxLosses /\ c \in calls /\ c.op # "area"
    /\ losses' = losses + 1
    /\ calls' = (calls \ {c}) \union {[c EXCEPT !.got = Failed]}
    /\ UNCHANGED <<accounts, browserOf, cookie, status, shown, muddled, loads, sent, edits>>

\* maxAge has passed.
Expire(b) ==
    /\ losses < MaxLosses /\ cookie[b] # Nil
    /\ losses' = losses + 1
    /\ cookie' = [cookie EXCEPT ![b] = Nil]
    /\ muddled' = muddled \union {t \in Tabs : browserOf[t] = b /\ status[t] # "closed"}
    /\ UNCHANGED <<accounts, browserOf, status, shown, calls, loads, sent, edits>>

(***************************************************************************)
(* What a tab makes of an answer                                           *)
(***************************************************************************)

Become(t, u) ==
    /\ status' = [status EXCEPT ![t] = IF u = Nil THEN "unauthenticated" ELSE "authenticated"]
    /\ shown' = [shown EXCEPT ![t] = u]

\* The browser stores or clears the cookie with the answer.
SetCookie(t, tok) ==
    /\ cookie' = [cookie EXCEPT ![browserOf[t]] = tok]
    /\ muddled' = (muddled \ {t}) \union Siblings(t)

\* then and catch set the state whatever has happened since the call was sent.
TakeMe(c) ==
    /\ c.op = "me" /\ Hear(c)
    /\ Become(c.tab, c.got.user)
    /\ muddled' = IF status[c.tab] # "loading" \/ (~c.got.ok /\ cookie[browserOf[c.tab]] # Nil)
                  THEN muddled \union {c.tab} ELSE muddled
    /\ UNCHANGED <<accounts, browserOf, cookie, bounds>>

TakeEntry(c) ==
    /\ c.op \in {"login", "register"} /\ Hear(c)
    /\ IF c.got.ok
       THEN Become(c.tab, c.got.user) /\ SetCookie(c.tab, TokenOf(c.got.user))
       ELSE UNCHANGED <<cookie, status, shown, muddled>>
    /\ UNCHANGED <<accounts, browserOf, bounds>>

\* A logout that fails throws before anything is set.
TakeLogout(c) ==
    /\ c.op = "logout" /\ Hear(c)
    /\ IF c.got.ok
       THEN Become(c.tab, Nil) /\ SetCookie(c.tab, Nil)
       ELSE UNCHANGED <<cookie, status, shown, muddled>>
    /\ UNCHANGED <<accounts, browserOf, bounds>>

TakeArea(c) ==
    /\ c.op = "area" /\ Hear(c)
    /\ UNCHANGED <<accounts, browserOf, cookie, status, shown, muddled, bounds>>

(***************************************************************************)
(* What an owner does meanwhile, served under RolesGuard                   *)
(***************************************************************************)

Edit(t) ==
    /\ edits < MaxEdits
    /\ edits' = edits + 1
    /\ status[t] = "authenticated" /\ shown[t].role = "OWNER"
    /\ HasRole(cookie[browserOf[t]], "OWNER")
    /\ UNCHANGED <<browserOf, cookie, status, shown, calls, muddled, loads, sent, losses>>

TenantOf(t) == cookie[browserOf[t]].tenantId

InviteMember(t, e) == Edit(t) /\ Invite(TenantOf(t), e)
RemoveMember(t, i) == Edit(t) /\ Remove(TenantOf(t), i)
SetPermission(t, i, a, value) == Edit(t) /\ UpdatePermissions(TenantOf(t), i, a, value)

Next ==
    \/ \E t \in Tabs :
        \/ Load(t)
        \/ SignOut(t)
        \/ \E e \in Emails : SignIn(t, e) \/ InviteMember(t, e)
        \/ \E e \in Emails, s \in Subdomains : SignUp(t, e, s)
        \/ \E a \in Areas : OpenArea(t, a)
        \/ \E i \in DOMAIN users : RemoveMember(t, i)
        \/ \E i \in DOMAIN users, a \in Areas, value \in BOOLEAN : SetPermission(t, i, a, value)
    \/ \E c \in calls :
        \/ ServeMe(c) \/ ServeLogin(c) \/ ServeRegister(c) \/ ServeLogout(c) \/ ServeArea(c)
        \/ TakeMe(c) \/ TakeEntry(c) \/ TakeLogout(c) \/ TakeArea(c)
        \/ Lose(c)
    \/ \E b \in Browsers : Expire(b)

Spec == Init /\ [][Next]_vars

----------------------------------------------------------------------------
Tokens == TokenType \union {Nil}
UserRecords == [id : 1 .. MaxAccounts, tenantId : Subdomains, role : Roles, may : SUBSET Areas]
Records == UserRecords \union {Nil}

ASSUME NilIsNoAnswer == Nil \notin UserRecords \union TokenType \union {Failed, Ok(Nil)}

\* Every variable has its type; a tab shows a user exactly when it is signed in.
TypeOK ==
    /\ users \in Seq(UserType) /\ Len(users) <= MaxAccounts
    /\ removed \subseteq DOMAIN users /\ tenants \subseteq Subdomains
    /\ \A b \in Browsers : cookie[b] \in Tokens
    /\ \A t \in Tabs :
        /\ status[t] \in {"closed", "loading", "authenticated", "unauthenticated"}
        /\ shown[t] \in Records
        /\ (shown[t] # Nil) = (status[t] = "authenticated")
    /\ \A c \in calls : c.tok \in Tokens /\ (c.got = Nil \/ c.got.user \in Records)
    /\ muddled \subseteq Tabs

\* Tokens live seven days and RolesGuard reads the role from them
\* (roles.guard.ts:19-20): in no cookie and in no call may it be older than the row.
TokensAreTrue ==
    /\ \A b \in Browsers : cookie[b] # Nil => TokenIsTrue(cookie[b])
    /\ \A c \in calls : c.tok # Nil => TokenIsTrue(c.tok)

\* permission.guard.ts:13-15: whatever the tab still shows, a call is let through
\* only for an account that exists, in its own tenant, as its owner or with the
\* permission granted at that moment.
Entitled(tok, a) ==
    /\ tok.sub \in Accounts /\ users[tok.sub].tenantId = tok.tenantId
    /\ users[tok.sub].role = "OWNER" \/ a \in users[tok.sub].may
LetsThrough(c) == c.op = "area" /\ c.got = Nil /\ [c EXCEPT !.got = Ok(Nil)] \in calls'
AdmittedIsEntitled == [][\A c \in calls : LetsThrough(c) => Entitled(c.tok, c.arg)]_vars

\* auth-context.tsx:35-36: a tab that says signed in shows the account of the
\* cookie its calls are sent with, and one that says signed out has none; except
\* where another tab or the clock changed the cookie, or /auth/me answered late.
ShownIsHeld ==
    \A t \in Tabs \ muddled :
        LET tok == cookie[browserOf[t]] IN
        /\ status[t] = "authenticated" => tok # Nil /\ tok.sub = shown[t].id
        /\ status[t] = "unauthenticated" => tok = Nil
=============================================================================
