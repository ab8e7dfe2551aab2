--------------------------- MODULE SessionsProofs ---------------------------
(* Theorems about Sessions and the accounts behind it, for any number of    *)
(* tabs, browsers, accounts and calls.                                      *)
EXTENDS Sessions, FiniteSetTheorems, SequenceTheorems, TLAPS

USE DEF accounts, bounds

----------------------------------------------------------------------------
(***************************************************************************)
(* The operations of Accounts                                              *)
(***************************************************************************)
AccountsType ==
    /\ users \in Seq(UserType) /\ Len(users) <= MaxAccounts
    /\ removed \subseteq DOMAIN users /\ tenants \subseteq Subdomains

\* Owners are never removed, everybody is of a tenant, and each has one owner.
Owned ==
    /\ \A i \in removed : users[i].role = "STAFF"
    /\ \A i \in DOMAIN users : users[i].tenantId \in tenants
    /\ \A s \in tenants : \E i \in DOMAIN users : Owners(s) = {i}

AccountsInv == AccountsType /\ Owned

\* What no operation changes of a row, once it is there.
RowsStay ==
    /\ DOMAIN users \subseteq DOMAIN users'
    /\ \A i \in DOMAIN users :
        users'[i].tenantId = users[i].tenantId /\ users'[i].role = users[i].role

AccountsKept == AccountsInv' /\ RowsStay

LEMMA CreatedUser ==
    ASSUME AccountsType, NEW e \in Emails, NEW s \in Subdomains, NEW role \in Roles,
           CreateUser(e, s, role)
    PROVE  /\ users' \in Seq(UserType) /\ Len(users') <= MaxAccounts
           /\ Len(users) + 1 \in 1 .. MaxAccounts
           /\ DOMAIN users' = DOMAIN users \union {Len(users) + 1}
           /\ Len(users) + 1 \notin DOMAIN users
           /\ users'[Len(users) + 1].tenantId = s /\ users'[Len(users) + 1].role = role
           /\ \A i \in DOMAIN users : users'[i] = users[i]
           /\ removed' = removed
<1> DEFINE row == [email |-> e, tenantId |-> s, role |-> role, may |-> Areas]
<1>1. row \in UserType
  BY DEF UserType
<1>2. users' = Append(users, row) /\ Len(users) \in Nat /\ Len(users) < MaxAccounts /\ MaxAccounts \in Nat
  BY AccountsBound DEF CreateUser, AccountsType
<1>3. /\ users' \in Seq(UserType) /\ Len(users') = Len(users) + 1
      /\ \A i \in 1 .. Len(users) : users'[i] = users[i]
      /\ users'[Len(users) + 1] = row
  <2> HIDE DEF row
  <2> QED
    BY <1>1, <1>2 DEF AccountsType
<1>4. DOMAIN users = 1 .. Len(users) /\ DOMAIN users' = 1 .. Len(users')
  BY <1>3 DEF AccountsType
<1> QED
  BY <1>2, <1>3, <1>4 DEF CreateUser

LEMMA RegisterKeeps ==
    ASSUME AccountsInv, NEW e \in Emails, NEW s \in Subdomains, Register(e, s)
    PROVE  AccountsKept
<1> DEFINE n == Len(users) + 1
<1>1. CreateUser(e, s, "OWNER") /\ tenants' = tenants \union {s} /\ s \notin tenants
  BY DEF Register, RegisterAllowed
<1>2. /\ users' \in Seq(UserType) /\ Len(users') <= MaxAccounts
      /\ DOMAIN users' = DOMAIN users \union {n} /\ n \notin DOMAIN users
      /\ users'[n].tenantId = s /\ users'[n].role = "OWNER"
      /\ \A i \in DOMAIN users : users'[i] = users[i]
      /\ removed' = removed
  BY <1>1, CreatedUser DEF AccountsInv, Roles
<1> HIDE DEF n
<1>3. AccountsType'
  BY <1>1, <1>2 DEF AccountsInv, AccountsType
<1>4. Owners(s)' = {n}
  BY <1>1, <1>2 DEF Owners, Accounts, AccountsInv, AccountsType, Owned
<1>5. \A r \in tenants : Owners(r)' = Owners(r)
  BY <1>1, <1>2 DEF Owners, Accounts, AccountsInv, AccountsType
<1>6. Owned'
  BY <1>1, <1>2, <1>4, <1>5 DEF AccountsInv, AccountsType, Owned
<1> QED
  BY <1>2, <1>3, <1>6 DEF AccountsKept, AccountsInv, RowsStay

LEMMA InviteKeeps ==
    ASSUME AccountsInv, NEW e \in Emails, NEW s \in tenants, Invite(s, e)
    PROVE  AccountsKept
<1> DEFINE n == Len(users) + 1
<1>1. CreateUser(e, s, "STAFF") /\ tenants' = tenants /\ s \in Subdomains
  BY DEF Invite, AccountsInv, AccountsType
<1>2. /\ users' \in Seq(UserType) /\ Len(users') <= MaxAccounts
      /\ DOMAIN users' = DOMAIN users \union {n} /\ n \notin DOMAIN users
      /\ users'[n].tenantId = s /\ users'[n].role = "STAFF"
      /\ \A i \in DOMAIN users : users'[i] = users[i]
      /\ removed' = removed
  BY <1>1, CreatedUser DEF AccountsInv, Roles
<1> HIDE DEF n
<1>3. AccountsType'
  BY <1>1, <1>2 DEF AccountsInv, AccountsType
<1>4. \A r \in tenants : Owners(r)' = Owners(r)
  BY <1>1, <1>2 DEF Owners, Accounts, AccountsInv, AccountsType
<1>5. Owned'
  BY <1>1, <1>2, <1>4 DEF AccountsInv, AccountsType, Owned
<1> QED
  BY <1>2, <1>3, <1>5 DEF AccountsKept, AccountsInv, RowsStay

\* Only STAFF rows go.
LEMMA RemoveKeeps ==
    ASSUME AccountsInv, NEW s, NEW i, Remove(s, i)
    PROVE  AccountsKept
<1>1. /\ i \in DOMAIN users /\ users[i].role = "STAFF"
      /\ removed' = removed \union {i} /\ UNCHANGED <<users, tenants>>
  BY DEF Remove, Staff, Accounts
<1>2. \A r : Owners(r)' = Owners(r)
  BY <1>1 DEF Owners, Accounts
<1> QED
  BY <1>1, <1>2 DEF AccountsKept, AccountsInv, AccountsType, Owned, RowsStay

LEMMA UpdatePermissionsKeeps ==
    ASSUME AccountsInv, NEW s, NEW i, NEW a \in Areas, NEW value, UpdatePermissions(s, i, a, value)
    PROVE  AccountsKept
<1> DEFINE may == IF value THEN users[i].may \union {a} ELSE users[i].may \ {a}
<1>1. /\ i \in DOMAIN users /\ UNCHANGED <<removed, tenants>>
      /\ users' = [users EXCEPT ![i].may = may]
  BY DEF UpdatePermissions, Staff, Accounts
<1>2. users[i] \in UserType /\ may \in SUBSET Areas
  <2>1. users[i] \in UserType
    BY <1>1 DEF AccountsInv, AccountsType
  <2>2. users[i].may \in SUBSET Areas
    BY <2>1 DEF UserType
  <2> QED
    BY <2>1, <2>2
<1> HIDE DEF may
<1>3. [users[i] EXCEPT !.may = may] \in UserType
  BY <1>2 DEF UserType
<1>4. users' \in Seq(UserType) /\ Len(users') = Len(users) /\ DOMAIN users' = DOMAIN users
  BY <1>1, <1>3 DEF AccountsInv, AccountsType
<1>5. \A j \in DOMAIN users :
          users'[j].tenantId = users[j].tenantId /\ users'[j].role = users[j].role
  BY <1>1, <1>2, <1>3 DEF UserType, AccountsInv, AccountsType
<1>6. \A r : Owners(r)' = Owners(r)
  BY <1>1, <1>4, <1>5 DEF Owners, Accounts
<1> QED
  BY <1>1, <1>4, <1>5, <1>6 DEF AccountsKept, AccountsInv, AccountsType, Owned, RowsStay
LEMMA AccountsUntouched ==
    ASSUME AccountsInv, UNCHANGED accounts
    PROVE  AccountsKept
  BY DEF AccountsKept, AccountsInv, AccountsType, Owned, Owners, Accounts, RowsStay

----------------------------------------------------------------------------
(***************************************************************************)
(* The shape and the truth of what is under way                            *)
(***************************************************************************)

\* A token says of its account what the row says, and has said since it exists.
RowOf(tok) ==
    /\ tok.sub \in DOMAIN users
    /\ tok.tenantId = users[tok.sub].tenantId /\ tok.role = users[tok.sub].role

Ops == {"me", "login", "register", "logout", "area"}

ArgFits(op, arg) ==
    /\ op = "login" => arg \in Emails
    /\ op = "register" => arg[1] \in Emails /\ arg[2] \in Subdomains
    /\ op = "area" => arg \in Areas

\* What the API may answer to a call that carried tok, or what a loss leaves.
IsAnswer(op, tok, r) ==
    /\ r = [ok |-> r.ok, user |-> r.user] /\ r.ok \in BOOLEAN /\ r.user \in Records
    /\ ~r.ok => r.user = Nil
    /\ op \in {"logout", "area"} => r.user = Nil
    /\ op \in {"login", "register"} /\ r.ok => r.user \in UserRecords /\ RowOf(TokenOf(r.user))
    /\ op = "me" /\ r.ok => r.user \in UserRecords /\ tok # Nil /\ r.user.id = tok.sub

IsCall(c) ==
    /\ c = [tab |-> c.tab, op |-> c.op, arg |-> c.arg, tok |-> c.tok, got |-> c.got, no |-> c.no]
    /\ c.tab \in Tabs /\ c.op \in Ops /\ ArgFits(c.op, c.arg)
    /\ c.tok \in Tokens /\ (c.tok # Nil => RowOf(c.tok))
    /\ c.got = Nil \/ IsAnswer(c.op, c.tok, c.got)

CallsInv == \A c \in calls : IsCall(c)

TabsInv ==
    /\ browserOf \in [Tabs -> Browsers] /\ cookie \in [Browsers -> Tokens]
    /\ status \in [Tabs -> {"closed", "loading", "authenticated", "unauthenticated"}]
    /\ shown \in [Tabs -> Records]
    /\ \A t \in Tabs : (shown[t] # Nil) = (status[t] = "authenticated")
    /\ muddled \subseteq Tabs
    /\ \A b \in Browsers : cookie[b] # Nil => RowOf(cookie[b])

SessionInv == AccountsInv /\ CallsInv /\ TabsInv

LEMMA RowOfStays ==
    ASSUME RowsStay, NEW tok, RowOf(tok)
    PROVE  RowOf(tok)'
  BY DEF RowsStay, RowOf

LEMMA CallStays ==
    ASSUME RowsStay, NEW c, IsCall(c)
    PROVE  IsCall(c)'
<1>1. c.tok # Nil => RowOf(c.tok)'
  BY RowOfStays DEF IsCall
<1>2. ASSUME IsAnswer(c.op, c.tok, c.got) PROVE IsAnswer(c.op, c.tok, c.got)'
  <2>1. ASSUME RowOf(TokenOf(c.got.user)) PROVE RowOf(TokenOf(c.got.user))'
    BY <2>1, RowOfStays
  <2> QED
    BY <1>2, <2>1 DEF IsAnswer
<1> QED
  BY <1>1, <1>2 DEF IsCall

LEMMA CookiesStay ==
    ASSUME RowsStay, TabsInv, UNCHANGED <<browserOf, cookie, status, shown>>, muddled' \subseteq Tabs
    PROVE  TabsInv'
<1>1. ASSUME NEW b \in Browsers, cookie[b] # Nil PROVE RowOf(cookie[b])'
  <2>1. RowOf(cookie[b])
    BY <1>1 DEF TabsInv
  <2> DEFINE tok == cookie[b]
  <2>2. cookie'[b] = tok
    OBVIOUS
  <2> QED
    BY <2>1, <2>2 DEF RowOf, RowsStay
<1> QED
  BY <1>1 DEF TabsInv

LEMMA NewCall ==
    ASSUME TabsInv, NEW t \in Tabs, NEW op \in Ops, NEW arg, ArgFits(op, arg)
    PROVE  IsCall(Call(t, op, arg))
<1> DEFINE n == CHOOSE n \in 0 .. MaxCalls : \A c \in calls : c.tab = t /\ c.op = op => c.no # n
<1>1. Call(t, op, arg) = [tab |-> t, op |-> op, arg |-> arg, tok |-> cookie[browserOf[t]],
                          got |-> Nil, no |-> n]
  BY DEF Call
<1> HIDE DEF n
<1> QED
  BY <1>1 DEF IsCall, TabsInv

LEMMA SendKeeps ==
    ASSUME SessionInv, NEW t \in Tabs, NEW op \in Ops, NEW arg, ArgFits(op, arg), Send(t, op, arg)
    PROVE  SessionInv'
<1>1. AccountsKept /\ UNCHANGED <<browserOf, cookie, status, shown, muddled>>
  BY AccountsUntouched DEF Send, SessionInv
<1>2. calls' = calls \union {Call(t, op, arg)} /\ IsCall(Call(t, op, arg))
  BY NewCall DEF Send, SessionInv
<1>3. CallsInv'
  BY <1>1, <1>2, CallStays DEF SessionInv, CallsInv, AccountsKept
<1>4. TabsInv'
  BY <1>1, CookiesStay DEF SessionInv, TabsInv, AccountsKept
<1> QED
  BY <1>1, <1>3, <1>4 DEF SessionInv, AccountsKept

LEMMA LoadKeeps ==
    ASSUME SessionInv, NEW t \in Tabs, Load(t)
    PROVE  SessionInv'
<1>1. AccountsKept /\ UNCHANGED <<browserOf, cookie>>
  BY AccountsUntouched DEF Load, SessionInv
<1>2. IsCall(Call(t, "me", Nil))
  BY NewCall DEF SessionInv, Ops, ArgFits
<1>3. calls' \subseteq calls \union {Call(t, "me", Nil)}
  BY DEF Load
<1>4. CallsInv'
  BY <1>1, <1>2, <1>3, CallStays DEF SessionInv, CallsInv, AccountsKept
<1>5. TabsInv'
  <2>1. \A b \in Browsers : cookie[b] # Nil => RowOf(cookie[b])'
    BY <1>1, RowOfStays DEF SessionInv, TabsInv, AccountsKept
  <2>2. status' = [status EXCEPT ![t] = "loading"] /\ shown' = [shown EXCEPT ![t] = Nil]
        /\ muddled' = muddled \ {t}
    BY DEF Load
  <2> QED
    BY <1>1, <2>1, <2>2 DEF SessionInv, TabsInv, Records
<1> QED
  BY <1>1, <1>4, <1>5 DEF SessionInv, AccountsKept

LEMMA AnswerKeeps ==
    ASSUME SessionInv, AccountsKept, NEW c, NEW r, Answer(c, r), IsAnswer(c.op, c.tok, r)'
    PROVE  SessionInv'
<1> DEFINE d == [c EXCEPT !.got = r]
<1>1. c \in calls /\ IsCall(c) /\ calls' = (calls \ {c}) \union {d}
  BY DEF Answer, SessionInv, CallsInv
<1>2. /\ d = [tab |-> c.tab, op |-> c.op, arg |-> c.arg, tok |-> c.tok, got |-> r, no |-> c.no]
      /\ IsCall(c)'
  BY <1>1, CallStays DEF IsCall, AccountsKept
<1>3. IsCall(d)'
  BY <1>2 DEF IsCall
<1> HIDE DEF d
<1>4. CallsInv'
  BY <1>1, <1>3, CallStays DEF SessionInv, CallsInv, AccountsKept
<1>5. TabsInv'
  BY CookiesStay DEF Answer, SessionInv, TabsInv, AccountsKept
<1> QED
  BY <1>4, <1>5 DEF SessionInv, AccountsKept
LEMMA ServeKeeps ==
    ASSUME SessionInv, NEW c \in calls,
           ServeMe(c) \/ ServeLogin(c) \/ ServeRegister(c) \/ ServeLogout(c) \/ ServeArea(c)
    PROVE  SessionInv'
<1> USE DEF IsAnswer, Failed, Ok
<1>1. IsCall(c) /\ Nil \in Records
  BY DEF SessionInv, CallsInv, Records
<1>2. ASSUME NEW i \in Accounts
      PROVE  Sanitize(i) \in UserRecords /\ Sanitize(i).id = i /\ RowOf(TokenOf(Sanitize(i)))
  <2>1. i \in DOMAIN users /\ i \in 1 .. MaxAccounts /\ users[i] \in UserType
    BY AccountsBound DEF Accounts, SessionInv, AccountsInv, AccountsType
  <2> QED
    BY <2>1 DEF Sanitize, UserRecords, UserType, TokenOf, RowOf
<1>3. CASE ServeMe(c)
  <2>1. AccountsKept
    BY <1>3, AccountsUntouched DEF ServeMe, SessionInv
  <2>2. CASE c.tok # Nil /\ c.tok.sub \in Accounts
    <3>1. PICK u : u = Sanitize(c.tok.sub)
      OBVIOUS
    <3>2. Answer(c, Ok(u)) /\ c.op = "me"
      BY <1>3, <2>2, <3>1 DEF ServeMe
    <3>3. u \in UserRecords /\ u.id = c.tok.sub
      BY <1>2, <2>2, <3>1
    <3>4. IsAnswer(c.op, c.tok, Ok(u))'
      BY <2>2, <3>2, <3>3 DEF Records
    <3> QED
      BY <2>1, <3>2, <3>4, AnswerKeeps
  <2>3. CASE ~(c.tok # Nil /\ c.tok.sub \in Accounts)
    <3>1. Answer(c, Failed) /\ c.op = "me"
      BY <1>3, <2>3 DEF ServeMe
    <3> QED
      BY <1>1, <2>1, <3>1, AnswerKeeps
  <2> QED
    BY <2>2, <2>3
<1>4. CASE ServeLogin(c)
  <2>1. AccountsKept /\ c.op = "login" /\ UNCHANGED users
    BY <1>4, AccountsUntouched DEF ServeLogin, SessionInv
  <2>2. CASE Answer(c, Failed)
    BY <1>1, <2>1, <2>2, AnswerKeeps
  <2>3. ASSUME NEW i \in Accounts, Answer(c, Ok(Sanitize(i))) PROVE SessionInv'
    <3>1. PICK u : u = Sanitize(i)
      OBVIOUS
    <3>2. u \in UserRecords /\ RowOf(TokenOf(u))'
      BY <1>2, <2>1, <3>1 DEF RowOf
    <3>3. IsAnswer(c.op, c.tok, Ok(u))'
      BY <2>1, <3>2 DEF Records
    <3> QED
      BY <2>1, <2>3, <3>1, <3>3, AnswerKeeps
  <2> QED
    BY <1>4, <2>2, <2>3 DEF ServeLogin
<1>5. CASE ServeRegister(c)
  <2>1. c.op = "register" /\ c.arg[1] \in Emails /\ c.arg[2] \in Subdomains
    BY <1>1, <1>5 DEF ServeRegister, IsCall, ArgFits
  <2>2. CASE Answer(c, Failed) /\ UNCHANGED accounts
    BY <1>1, <2>1, <2>2, AccountsUntouched, AnswerKeeps DEF SessionInv
  <2>3. ASSUME Register(c.arg[1], c.arg[2]),
               Answer(c, Ok([id |-> Len(users) + 1, tenantId |-> c.arg[2], role |-> "OWNER", may |-> Areas]))
        PROVE  SessionInv'
    <3>1. AccountsKept
      BY <2>1, <2>3, RegisterKeeps DEF SessionInv
    <3>2. PICK u : u = [id |-> Len(users) + 1, tenantId |-> c.arg[2], role |-> "OWNER", may |-> Areas]
      OBVIOUS
    <3>3. /\ Len(users) + 1 \in 1 .. MaxAccounts /\ Len(users) + 1 \in DOMAIN users'
          /\ users'[Len(users) + 1].tenantId = c.arg[2] /\ users'[Len(users) + 1].role = "OWNER"
      BY <2>1, <2>3, CreatedUser DEF Register, SessionInv, AccountsInv, Roles
    <3>4. u \in UserRecords /\ RowOf(TokenOf(u))'
      BY <2>1, <3>2, <3>3 DEF UserRecords, Roles, RowOf, TokenOf
    <3>5. IsAnswer(c.op, c.tok, Ok(u))'
      BY <2>1, <3>4 DEF Records
    <3> QED
      BY <2>3, <3>1, <3>2, <3>5, AnswerKeeps
  <2> QED
    BY <1>5, <2>2, <2>3 DEF ServeRegister
<1>6. CASE ServeLogout(c)
  <2>1. AccountsKept /\ c.op = "logout" /\ Answer(c, Ok(Nil))
    BY <1>6, AccountsUntouched DEF ServeLogout, SessionInv
  <2> QED
    BY <1>1, <2>1, AnswerKeeps
<1>7. CASE ServeArea(c)
  <2>1. AccountsKept /\ c.op = "area" /\ (Answer(c, Ok(Nil)) \/ Answer(c, Failed))
    BY <1>7, AccountsUntouched DEF ServeArea, SessionInv
  <2> QED
    BY <1>1, <2>1, AnswerKeeps
<1> QED
  BY <1>3, <1>4, <1>5, <1>6, <1>7

LEMMA LoseKeeps ==
    ASSUME SessionInv, NEW c, Lose(c)
    PROVE  SessionInv'
<1> DEFINE d == [c EXCEPT !.got = Failed]
<1>1. c \in calls /\ IsCall(c) /\ calls' = (calls \ {c}) \union {d}
  BY DEF Lose, SessionInv, CallsInv
<1>2. AccountsKept /\ UNCHANGED <<browserOf, cookie, status, shown, muddled>>
  BY AccountsUntouched DEF Lose, SessionInv
<1>3. /\ d = [tab |-> c.tab, op |-> c.op, arg |-> c.arg, tok |-> c.tok, got |-> Failed, no |-> c.no]
      /\ IsCall(c)'
  BY <1>1, <1>2, CallStays DEF IsCall, AccountsKept
<1>4. IsCall(d)'
  BY <1>3 DEF IsCall, IsAnswer, Failed, Records
<1> HIDE DEF d
<1>5. CallsInv'
  BY <1>1, <1>2, <1>4, CallStays DEF SessionInv, CallsInv, AccountsKept
<1>6. TabsInv'
  BY <1>2, CookiesStay DEF SessionInv, TabsInv, AccountsKept
<1> QED
  BY <1>2, <1>5, <1>6 DEF SessionInv, AccountsKept

\* What a tab makes of an answer: its record is the one answered, its cookie
\* that of the record or none.
LEMMA TakeKeeps ==
    ASSUME SessionInv, NEW c \in calls, TakeMe(c) \/ TakeEntry(c) \/ TakeLogout(c) \/ TakeArea(c)
    PROVE  SessionInv'
<1>1. /\ c.got # Nil /\ calls' = calls \ {c} /\ UNCHANGED <<accounts, browserOf>>
      /\ IsCall(c) /\ IsAnswer(c.op, c.tok, c.got) /\ c.tab \in Tabs
  BY DEF TakeMe, TakeEntry, TakeLogout, TakeArea, Hear, SessionInv, CallsInv, IsCall
<1>2. AccountsKept /\ CallsInv'
  BY <1>1, AccountsUntouched, CallStays DEF SessionInv, CallsInv, AccountsKept
<1>3. \A tok : RowOf(tok)' = RowOf(tok)
  BY <1>1 DEF RowOf
<1>4. ASSUME NEW u \in Records, Become(c.tab, u) PROVE
          /\ status' \in [Tabs -> {"closed", "loading", "authenticated", "unauthenticated"}]
          /\ shown' \in [Tabs -> Records]
          /\ \A t \in Tabs : (shown'[t] # Nil) = (status'[t] = "authenticated")
  BY <1>1, <1>4 DEF Become, SessionInv, TabsInv
<1>5. ASSUME NEW tok \in Tokens, tok # Nil => RowOf(tok), SetCookie(c.tab, tok) PROVE
          /\ cookie' \in [Browsers -> Tokens] /\ muddled' \subseteq Tabs
          /\ \A b \in Browsers : cookie'[b] # Nil => RowOf(cookie'[b])
  <2>1. cookie' = [cookie EXCEPT ![browserOf[c.tab]] = tok] /\ browserOf[c.tab] \in Browsers
    BY <1>1, <1>5 DEF SetCookie, SessionInv, TabsInv
  <2>2. muddled' \subseteq Tabs
    BY <1>5 DEF SetCookie, Siblings, SessionInv, TabsInv
  <2>3. ASSUME NEW b \in Browsers, cookie'[b] # Nil PROVE RowOf(cookie'[b])
    <3>1. cookie'[b] = tok \/ cookie'[b] = cookie[b]
      BY <2>1 DEF SessionInv, TabsInv
    <3> QED
      BY <1>5, <2>3, <3>1 DEF SessionInv, TabsInv
  <2> QED
    BY <1>5, <2>1, <2>2, <2>3 DEF SessionInv, TabsInv
<1>6. ASSUME UNCHANGED cookie, muddled' \subseteq Tabs PROVE
          /\ cookie' \in [Browsers -> Tokens] /\ muddled' \subseteq Tabs
          /\ \A b \in Browsers : cookie'[b] # Nil => RowOf(cookie'[b])
  BY <1>6 DEF SessionInv, TabsInv
<1>7. TabsInv'
  <2> DEFINE StatusOK == /\ status' \in [Tabs -> {"closed", "loading", "authenticated", "unauthenticated"}]
                         /\ shown' \in [Tabs -> Records]
                         /\ \A t \in Tabs : (shown'[t] # Nil) = (status'[t] = "authenticated")
             CookieOK == /\ cookie' \in [Browsers -> Tokens] /\ muddled' \subseteq Tabs
                         /\ \A b \in Browsers : cookie'[b] # Nil => RowOf(cookie'[b])
  <2>1. CASE TakeMe(c)
    <3>1. c.got.user \in Records /\ Become(c.tab, c.got.user) /\ UNCHANGED cookie /\ muddled' \subseteq Tabs
      BY <1>1, <2>1 DEF TakeMe, IsAnswer, SessionInv, TabsInv
    <3> QED
      BY <1>1, <1>3, <1>4, <1>6, <3>1 DEF TabsInv, SessionInv, RowOf
  <2>2. ASSUME UNCHANGED <<cookie, status, shown, muddled>> PROVE TabsInv'
    BY <1>1, <2>2 DEF TabsInv, SessionInv, RowOf
  <2>3. ASSUME TakeEntry(c), c.got.ok PROVE TabsInv'
    <3>1. c.got.user \in UserRecords /\ RowOf(TokenOf(c.got.user))
      BY <1>1, <2>3 DEF TakeEntry, IsAnswer
    <3>2. TokenOf(c.got.user) \in Tokens /\ c.got.user \in Records
      BY <3>1 DEF TokenOf, Tokens, TokenType, UserRecords, Records
    <3>3. Become(c.tab, c.got.user) /\ SetCookie(c.tab, TokenOf(c.got.user))
      BY <2>3 DEF TakeEntry
    <3>4. StatusOK /\ CookieOK
      BY <1>4, <1>5, <3>1, <3>2, <3>3
    <3> QED
      BY <1>1, <3>4 DEF TabsInv, SessionInv, RowOf
  <2>4. ASSUME TakeLogout(c), c.got.ok PROVE TabsInv'
    <3>1. Become(c.tab, Nil) /\ SetCookie(c.tab, Nil) /\ Nil \in Tokens /\ Nil \in Records
      BY <2>4 DEF TakeLogout, Tokens, Records
    <3>2. StatusOK /\ CookieOK
      BY <1>4, <1>5, <3>1
    <3> QED
      BY <1>1, <3>2 DEF TabsInv, SessionInv, RowOf
  <2> QED
    BY <2>1, <2>2, <2>3, <2>4 DEF TakeEntry, TakeLogout, TakeArea
<1> QED
  BY <1>2, <1>7 DEF SessionInv, AccountsKept
LEMMA ExpireKeeps ==
    ASSUME SessionInv, NEW b \in Browsers, Expire(b)
    PROVE  SessionInv'
<1>1. AccountsKept /\ UNCHANGED <<calls, browserOf, status, shown>>
  BY AccountsUntouched DEF Expire, SessionInv
<1>2. CallsInv'
  BY <1>1, CallStays DEF SessionInv, CallsInv, AccountsKept
<1>3. TabsInv'
  BY <1>1 DEF Expire, SessionInv, TabsInv, Tokens, RowOf
<1> QED
  BY <1>1, <1>2, <1>3 DEF SessionInv, AccountsKept

LEMMA EditKeeps ==
    ASSUME SessionInv, NEW t \in Tabs,
           \/ \E e \in Emails : InviteMember(t, e)
           \/ \E i \in DOMAIN users : RemoveMember(t, i)
           \/ \E i \in DOMAIN users, a \in Areas, value \in BOOLEAN : SetPermission(t, i, a, value)
    PROVE  SessionInv'
<1>1. Edit(t)
  BY DEF InviteMember, RemoveMember, SetPermission
<1>2. TenantOf(t) \in tenants
  BY <1>1 DEF Edit, HasRole, TenantOf, SessionInv, TabsInv, RowOf, AccountsInv, Owned
<1>3. AccountsKept
  <2>1. ASSUME NEW e \in Emails, InviteMember(t, e) PROVE AccountsKept
    BY <1>2, <2>1, InviteKeeps DEF InviteMember, SessionInv
  <2>2. ASSUME NEW i \in DOMAIN users, RemoveMember(t, i) PROVE AccountsKept
    BY <2>2, RemoveKeeps DEF RemoveMember, SessionInv
  <2>3. ASSUME NEW i \in DOMAIN users, NEW a \in Areas, NEW value \in BOOLEAN, SetPermission(t, i, a, value)
        PROVE  AccountsKept
    BY <2>3, UpdatePermissionsKeeps DEF SetPermission, SessionInv
  <2> QED
    BY <2>1, <2>2, <2>3
<1>4. UNCHANGED <<browserOf, cookie, status, shown, calls, muddled>>
  BY <1>1 DEF Edit
<1>5. CallsInv'
  BY <1>3, <1>4, CallStays DEF SessionInv, CallsInv, AccountsKept
<1>6. TabsInv'
  BY <1>3, <1>4, CookiesStay DEF SessionInv, TabsInv, AccountsKept
<1> QED
  BY <1>3, <1>5, <1>6 DEF SessionInv, AccountsKept

\* What a tab sends besides /auth/me.
SendsOf(t) ==
    \/ SignOut(t)
    \/ \E e \in Emails : SignIn(t, e)
    \/ \E e \in Emails, s \in Subdomains : SignUp(t, e, s)
    \/ \E a \in Areas : OpenArea(t, a)

EditsOf(t) ==
    \/ \E e \in Emails : InviteMember(t, e)
    \/ \E i \in DOMAIN users : RemoveMember(t, i)
    \/ \E i \in DOMAIN users, a \in Areas, value \in BOOLEAN : SetPermission(t, i, a, value)

Serve(c) == ServeMe(c) \/ ServeLogin(c) \/ ServeRegister(c) \/ ServeLogout(c) \/ ServeArea(c)
TakeAnswer(c) == TakeMe(c) \/ TakeEntry(c) \/ TakeLogout(c) \/ TakeArea(c)

LEMMA NextByKind ==
    Next <=> \/ \E t \in Tabs : Load(t) \/ SendsOf(t) \/ EditsOf(t)
             \/ \E c \in calls : Serve(c) \/ TakeAnswer(c) \/ Lose(c)
             \/ \E b \in Browsers : Expire(b)
  BY Zenon DEF Next, SendsOf, EditsOf, Serve, TakeAnswer

LEMMA SendsAreSends ==
    ASSUME NEW t \in Tabs, SendsOf(t)
    PROVE  \E op \in Ops \ {"me"} : \E arg : ArgFits(op, arg) /\ Send(t, op, arg)
<1>1. CASE SignOut(t)
  BY <1>1 DEF SignOut, Ops, ArgFits
<1>2. ASSUME NEW e \in Emails, SignIn(t, e) PROVE "login" \in Ops \ {"me"} /\ ArgFits("login", e) /\ Send(t, "login", e)
  BY <1>2 DEF SignIn, Ops, ArgFits
<1>3. ASSUME NEW e \in Emails, NEW s \in Subdomains, SignUp(t, e, s)
      PROVE  "register" \in Ops \ {"me"} /\ ArgFits("register", <<e, s>>) /\ Send(t, "register", <<e, s>>)
  BY <1>3 DEF SignUp, Ops, ArgFits
<1>4. ASSUME NEW a \in Areas, OpenArea(t, a) PROVE "area" \in Ops \ {"me"} /\ ArgFits("area", a) /\ Send(t, "area", a)
  BY <1>4 DEF OpenArea, Ops, ArgFits
<1> QED
  BY <1>1, <1>2, <1>3, <1>4 DEF SendsOf

LEMMA SessionInit == Init => SessionInv
<1> SUFFICES ASSUME Init PROVE SessionInv
  OBVIOUS
<1>1. AccountsInv
  BY AccountsBound DEF Init, AccountsInit, AccountsInv, AccountsType, Owned
<1>2. CallsInv
  BY DEF Init, CallsInv
<1>3. TabsInv
  BY PlacementsAreFunctions DEF Init, TabsInv, Tokens, Records
<1> QED
  BY <1>1, <1>2, <1>3 DEF SessionInv

LEMMA SessionStep == SessionInv /\ [Next]_vars => SessionInv'
<1> SUFFICES ASSUME SessionInv, [Next]_vars PROVE SessionInv'
  OBVIOUS
<1>1. ASSUME NEW t \in Tabs, Load(t) \/ SendsOf(t) \/ EditsOf(t) PROVE SessionInv'
  <2>1. CASE SendsOf(t)
    BY <2>1, SendsAreSends, SendKeeps
  <2> QED
    BY <1>1, <2>1, LoadKeeps, EditKeeps DEF EditsOf
<1>2. ASSUME NEW c \in calls, Serve(c) \/ TakeAnswer(c) \/ Lose(c) PROVE SessionInv'
  BY <1>2, ServeKeeps, TakeKeeps, LoseKeeps DEF Serve, TakeAnswer
<1>3. ASSUME NEW b \in Browsers, Expire(b) PROVE SessionInv'
  BY <1>3, ExpireKeeps
<1>4. CASE UNCHANGED vars
  <2>1. AccountsKept /\ UNCHANGED <<browserOf, cookie, status, shown, calls, muddled>>
    BY <1>4, AccountsUntouched DEF vars, SessionInv
  <2>2. CallsInv'
    BY <2>1, CallStays DEF SessionInv, CallsInv, AccountsKept
  <2>3. TabsInv'
    BY <2>1, CookiesStay DEF SessionInv, TabsInv, AccountsKept
  <2> QED
    BY <2>1, <2>2, <2>3 DEF SessionInv, AccountsKept
<1> QED
  BY <1>1, <1>2, <1>3, <1>4, NextByKind

LEMMA SessionHolds == Spec => []SessionInv
  BY SessionInit, SessionStep, PTL DEF Spec

\* Sessions' states are well shaped, and a tab shows a user exactly when it is
\* signed in (auth-context.tsx).
THEOREM TypeCorrect == Spec => []TypeOK
<1>1. SessionInv => TypeOK
  BY DEF SessionInv, AccountsInv, AccountsType, CallsInv, IsCall, IsAnswer, TabsInv, TypeOK
<1> QED
  BY <1>1, SessionHolds, PTL

\* No cookie and no call under way carries a role or a tenant its account does
\* not have: RolesGuard may read the role from a token of seven days, because no
\* operation of auth.service.ts and team.service.ts changes either of a row.
THEOREM TokensStayTrue == Spec => []TokensAreTrue
<1>1. ASSUME NEW tok \in TokenType, RowOf(tok) PROVE TokenIsTrue(tok)
  BY <1>1 DEF RowOf, TokenIsTrue, SignToken, TokenType
<1>2. SessionInv => TokensAreTrue
  BY <1>1 DEF SessionInv, CallsInv, IsCall, TabsInv, TokensAreTrue, Tokens
<1> QED
  BY <1>2, SessionHolds, PTL

\* Whatever invitations, removals and registrations interleave, an organization
\* has its one owner (auth.service.ts register, team.service.ts).
THEOREM OneOwnerEach == Spec => []EveryTenantHasOneOwner
<1>1. SessionInv => EveryTenantHasOneOwner
  BY FS_Singleton DEF SessionInv, AccountsInv, Owned, EveryTenantHasOneOwner
<1> QED
  BY <1>1, SessionHolds, PTL
----------------------------------------------------------------------------
(***************************************************************************)
(* What a tab shows, and the cookie its calls are sent with                *)
(***************************************************************************)
CookieOf(t) == cookie[browserOf[t]]

\* ShownIsHeld for one tab, and for a tab that is loading: /auth/me was sent
\* with the cookie the browser still has.
Held(t) ==
    /\ status[t] = "authenticated" => CookieOf(t) # Nil /\ CookieOf(t).sub = shown[t].id
    /\ status[t] = "unauthenticated" => CookieOf(t) = Nil
    /\ status[t] = "loading" =>
           \A c \in calls : c.tab = t /\ c.op = "me" => c.tok = CookieOf(t)

HeldInv == \A t \in Tabs \ muddled : Held(t)

\* No call of /auth/me is there that was not before, but for its answer.
NoNewMe ==
    \A d \in calls' : d.op = "me" =>
        \E c \in calls : c.op = "me" /\ c.tab = d.tab /\ c.tok = d.tok

LEMMA HeldQuietly ==
    ASSUME HeldInv, NoNewMe, UNCHANGED <<browserOf, cookie, status, shown>>, muddled \subseteq muddled'
    PROVE  HeldInv'
  BY DEF HeldInv, Held, CookieOf, NoNewMe

LEMMA AnsweredIsOld ==
    ASSUME CallsInv, NEW c \in calls, NEW r, calls' = (calls \ {c}) \union {[c EXCEPT !.got = r]}
    PROVE  NoNewMe
<1>1. c = [tab |-> c.tab, op |-> c.op, arg |-> c.arg, tok |-> c.tok, got |-> c.got, no |-> c.no]
  BY DEF CallsInv, IsCall
<1>2. PICK d : d = [tab |-> c.tab, op |-> c.op, arg |-> c.arg, tok |-> c.tok, got |-> r, no |-> c.no]
  OBVIOUS
<1>3. calls' = (calls \ {c}) \union {d}
  BY <1>1, <1>2
<1> QED
  BY <1>2, <1>3 DEF NoNewMe

\* The tab that took the answer is right; the others are where they were, in
\* another browser, or muddled.
LEMMA HeldAfterCookie ==
    ASSUME SessionInv, HeldInv, NEW t \in Tabs, NEW u \in Records, NEW tok \in Tokens,
           Become(t, u), SetCookie(t, tok), calls' \subseteq calls, UNCHANGED browserOf,
           u = Nil => tok = Nil, u # Nil => tok # Nil /\ tok.sub = u.id
    PROVE  HeldInv'
<1>1. /\ status' = [status EXCEPT ![t] = IF u = Nil THEN "unauthenticated" ELSE "authenticated"]
      /\ shown' = [shown EXCEPT ![t] = u]
      /\ cookie' = [cookie EXCEPT ![browserOf[t]] = tok]
      /\ muddled' = (muddled \ {t}) \union Siblings(t)
  BY DEF Become, SetCookie
<1>2. Held(t)'
  BY <1>1 DEF Held, CookieOf, SessionInv, TabsInv
<1>3. ASSUME NEW v \in Tabs \ muddled', v # t PROVE Held(v)'
  <2>1. status'[v] = status[v] /\ shown'[v] = shown[v] /\ v \notin muddled
    BY <1>1, <1>3 DEF SessionInv, TabsInv
  <2>2. CASE browserOf[v] = browserOf[t]
    <3>1. status[v] = "closed"
      BY <1>1, <1>3, <2>2 DEF Siblings
    <3> QED
      BY <2>1, <3>1 DEF Held
  <2>3. CASE browserOf[v] # browserOf[t]
    <3>1. CookieOf(v)' = CookieOf(v)
      BY <1>1, <2>3 DEF CookieOf, SessionInv, TabsInv
    <3> QED
      BY <1>3, <2>1, <3>1 DEF HeldInv, Held
  <2> QED
    BY <2>2, <2>3
<1> QED
  BY <1>2, <1>3 DEF HeldInv

LEMMA HeldTakeMe ==
    ASSUME SessionInv, HeldInv, NEW c \in calls, TakeMe(c)
    PROVE  HeldInv'
<1> DEFINE t == c.tab
<1>1. /\ IsAnswer(c.op, c.tok, c.got) /\ c.op = "me" /\ t \in Tabs
      /\ calls' = calls \ {c} /\ UNCHANGED <<browserOf, cookie>>
  BY DEF TakeMe, Hear, SessionInv, CallsInv, IsCall
<1>2. /\ status' = [status EXCEPT ![t] = IF c.got.user = Nil THEN "unauthenticated" ELSE "authenticated"]
      /\ shown' = [shown EXCEPT ![t] = c.got.user]
      /\ muddled \subseteq muddled'
  BY DEF TakeMe, Become
<1>3. ASSUME t \notin muddled' PROVE Held(t)'
  <2>1. /\ status[t] = "loading" /\ t \notin muddled
        /\ c.got.ok \/ CookieOf(t) = Nil
    BY <1>3 DEF TakeMe, CookieOf
  <2>2. c.tok = CookieOf(t)
    BY <1>1, <2>1 DEF HeldInv, Held
  <2>3. CASE c.got.ok
    <3>1. c.got.user # Nil /\ c.tok # Nil /\ c.got.user.id = c.tok.sub
      BY <1>1, <2>3, NilIsNoAnswer DEF IsAnswer
    <3> QED
      BY <1>1, <1>2, <2>2, <3>1 DEF Held, CookieOf, SessionInv, TabsInv
  <2>4. CASE ~c.got.ok
    <3>1. c.got.user = Nil /\ CookieOf(t) = Nil
      BY <1>1, <2>1, <2>4 DEF IsAnswer
    <3> QED
      BY <1>1, <1>2, <3>1 DEF Held, CookieOf, SessionInv, TabsInv
  <2> QED
    BY <2>3, <2>4
<1>4. ASSUME NEW v \in Tabs \ muddled', v # t PROVE Held(v)'
  BY <1>1, <1>2, <1>4 DEF HeldInv, Held, CookieOf, SessionInv, TabsInv
<1> QED
  BY <1>3, <1>4 DEF HeldInv

LEMMA HeldStep == SessionInv /\ HeldInv /\ [Next]_vars => HeldInv'
<1> SUFFICES ASSUME SessionInv, HeldInv, [Next]_vars PROVE HeldInv'
  OBVIOUS
<1>1. ASSUME NEW t \in Tabs, Load(t) PROVE HeldInv'
  <2>1. /\ status' = [status EXCEPT ![t] = "loading"] /\ shown' = [shown EXCEPT ![t] = Nil]
        /\ calls' = {c \in calls : c.tab # t} \union {Call(t, "me", Nil)}
        /\ muddled' = muddled \ {t} /\ UNCHANGED <<browserOf, cookie>>
    BY <1>1 DEF Load
  <2>2. Call(t, "me", Nil).tab = t /\ Call(t, "me", Nil).tok = CookieOf(t)
    BY DEF Call, CookieOf
  <2>3. Held(t)'
    BY <2>1, <2>2 DEF Held, CookieOf, SessionInv, TabsInv
  <2>4. ASSUME NEW v \in Tabs \ muddled', v # t PROVE Held(v)'
    BY <2>1, <2>2, <2>4 DEF HeldInv, Held, CookieOf, SessionInv, TabsInv
  <2> QED
    BY <2>3, <2>4 DEF HeldInv
<1>2. ASSUME NEW t \in Tabs, SendsOf(t) PROVE HeldInv'
  <2>a. PICK op \in Ops \ {"me"} : \E arg : Send(t, op, arg)
    BY <1>2, SendsAreSends
  <2>1. PICK arg : Send(t, op, arg)
    BY <2>a
  <2>2. calls' = calls \union {Call(t, op, arg)} /\ Call(t, op, arg).op # "me"
    BY <2>1 DEF Send, Call
  <2>3. NoNewMe
    BY <2>2 DEF NoNewMe
  <2> QED
    BY <2>1, <2>3, HeldQuietly DEF Send
<1>3. ASSUME NEW t \in Tabs, EditsOf(t) PROVE HeldInv'
  <2>1. Edit(t)
    BY <1>3 DEF EditsOf, InviteMember, RemoveMember, SetPermission
  <2> QED
    BY <2>1, HeldQuietly DEF Edit, NoNewMe
<1>4. ASSUME NEW c \in calls, Serve(c) \/ Lose(c) PROVE HeldInv'
  <2>1. /\ \E r : calls' = (calls \ {c}) \union {[c EXCEPT !.got = r]}
        /\ UNCHANGED <<browserOf, cookie, status, shown, muddled>>
    BY <1>4 DEF Serve, ServeMe, ServeLogin, ServeRegister, ServeLogout, ServeArea, Answer, Lose
  <2>2. NoNewMe
    BY <2>1, AnsweredIsOld DEF SessionInv
  <2> QED
    BY <2>1, <2>2, HeldQuietly
<1>5. ASSUME NEW c \in calls, TakeAnswer(c) PROVE HeldInv'
  <2>1. /\ calls' = calls \ {c} /\ UNCHANGED browserOf
        /\ IsAnswer(c.op, c.tok, c.got) /\ c.tab \in Tabs
    BY <1>5 DEF TakeAnswer, TakeMe, TakeEntry, TakeLogout, TakeArea, Hear, SessionInv, CallsInv, IsCall
  <2>2. NoNewMe
    BY <2>1 DEF NoNewMe
  <2>3. CASE UNCHANGED <<cookie, status, shown, muddled>>
    BY <2>1, <2>2, <2>3, HeldQuietly
  <2>4. ASSUME TakeEntry(c), c.got.ok PROVE HeldInv'
    <3>1. c.got.user \in UserRecords /\ c.got.user # Nil
      BY <2>1, <2>4, NilIsNoAnswer DEF TakeEntry, IsAnswer
    <3>2. /\ TokenOf(c.got.user) \in TokenType /\ TokenOf(c.got.user) # Nil
          /\ TokenOf(c.got.user).sub = c.got.user.id
      BY <3>1, NilIsNoAnswer DEF TokenOf, TokenType, UserRecords
    <3> QED
      BY <2>1, <2>4, <3>1, <3>2, HeldAfterCookie DEF TakeEntry, Records, Tokens
  <2>5. ASSUME TakeLogout(c), c.got.ok PROVE HeldInv'
    BY <2>1, <2>5, HeldAfterCookie DEF TakeLogout, Records, Tokens
  <2> QED
    BY <1>5, <2>3, <2>4, <2>5, HeldTakeMe DEF TakeAnswer, TakeEntry, TakeLogout, TakeArea
<1>6. ASSUME NEW b \in Browsers, Expire(b) PROVE HeldInv'
  <2>1. /\ cookie' = [cookie EXCEPT ![b] = Nil] /\ UNCHANGED <<browserOf, status, shown, calls>>
        /\ muddled' = muddled \union {t \in Tabs : browserOf[t] = b /\ status[t] # "closed"}
    BY <1>6 DEF Expire
  <2> QED
    BY <2>1 DEF HeldInv, Held, CookieOf, SessionInv, TabsInv
<1>7. CASE UNCHANGED vars
  BY <1>7, HeldQuietly DEF vars, NoNewMe
<1> QED
  BY <1>1, <1>2, <1>3, <1>4, <1>5, <1>6, <1>7, NextByKind

\* A tab that says signed in shows the account of the cookie its calls go out
\* with, and one that says signed out has none, unless another tab or the clock
\* changed the cookie or /auth/me answered late (auth-context.tsx:35-36).
THEOREM ShownUserIsHeld == Spec => []ShownIsHeld
<1>1. Init => HeldInv
  BY DEF Init, HeldInv, Held
<1>2. HeldInv => ShownIsHeld
  BY DEF HeldInv, Held, CookieOf, ShownIsHeld
<1> QED
  BY <1>1, <1>2, HeldStep, SessionHolds, PTL DEF Spec
----------------------------------------------------------------------------
(***************************************************************************)
(* What the API lets through                                               *)
(***************************************************************************)
NonMe == {c \in calls : c.op # "me"}

\* The calls of a tab are told apart by their numbers: there is one number more
\* than calls that may be sent.
Numbered ==
    /\ sent \in 0 .. MaxCalls /\ IsFiniteSet(NonMe) /\ Cardinality(NonMe) <= sent
    /\ \A c, d \in NonMe : c.tab = d.tab /\ c.op = d.op /\ c.no = d.no => c = d

LEMMA FreshNumber ==
    ASSUME Numbered, sent < MaxCalls
    PROVE  \E n \in 0 .. MaxCalls : \A c \in NonMe : c.no # n
<1>1. MaxCalls \in Nat
  BY SessionBounds
<1> SUFFICES ASSUME \A n \in 0 .. MaxCalls : \E c \in NonMe : c.no = n PROVE FALSE
  OBVIOUS
<1> DEFINE f == [n \in 0 .. MaxCalls |-> CHOOSE c \in NonMe : c.no = n]
<1>2. \A n \in 0 .. MaxCalls : f[n] \in NonMe /\ f[n].no = n
  OBVIOUS
<1>3. f \in [0 .. MaxCalls -> NonMe]
  BY <1>2
<1> HIDE DEF f
<1>4. f \in Injection(0 .. MaxCalls, NonMe)
  BY <1>2, <1>3 DEF Injection, IsInjective
<1>5. Cardinality(0 .. MaxCalls) <= Cardinality(NonMe)
  BY <1>4, FS_Injection DEF Numbered
<1>6. Cardinality(0 .. MaxCalls) = MaxCalls + 1
  BY <1>1, FS_Interval
<1>7. Cardinality(NonMe) \in Nat
  BY FS_CardinalityType DEF Numbered
<1> QED
  BY <1>1, <1>5, <1>6, <1>7 DEF Numbered

LEMMA FewerNumbered ==
    ASSUME Numbered, NonMe' \subseteq NonMe, UNCHANGED sent
    PROVE  Numbered'
<1>1. IsFiniteSet(NonMe') /\ Cardinality(NonMe') <= Cardinality(NonMe)
  BY FS_Subset DEF Numbered
<1>2. Cardinality(NonMe') \in Nat /\ Cardinality(NonMe) \in Nat
  BY <1>1, FS_CardinalityType DEF Numbered
<1> QED
  BY <1>1, <1>2 DEF Numbered

LEMMA SentNumbered ==
    ASSUME Numbered, NEW t, NEW op \in Ops \ {"me"}, NEW arg, Send(t, op, arg)
    PROVE  Numbered' /\ calls' = calls \union {Call(t, op, arg)} /\ Call(t, op, arg).got = Nil
<1> DEFINE Free(n) == \A c \in calls : c.tab = t /\ c.op = op => c.no # n
<1>1. PICK n : n = CHOOSE m \in 0 .. MaxCalls : Free(m)
  OBVIOUS
<1>2. PICK d : d = Call(t, op, arg)
  OBVIOUS
<1>3. /\ d = [tab |-> t, op |-> op, arg |-> arg, tok |-> cookie[browserOf[t]], got |-> Nil, no |-> n]
      /\ sent < MaxCalls /\ sent' = sent + 1 /\ calls' = calls \union {d}
  BY <1>1, <1>2 DEF Call, Send
<1>4. Free(n)
  <2>1. \E m \in 0 .. MaxCalls : Free(m)
    BY <1>3, FreshNumber DEF NonMe
  <2> QED
    BY <1>1, <2>1
<1>5. NonMe' = NonMe \union {d}
  BY <1>3 DEF NonMe
<1>6. \A x, y \in NonMe' : x.tab = y.tab /\ x.op = y.op /\ x.no = y.no => x = y
  BY <1>3, <1>4, <1>5 DEF Numbered, NonMe
<1>7. Cardinality(NonMe) \in Nat /\ MaxCalls \in Nat
  BY FS_CardinalityType, SessionBounds DEF Numbered
<1>8. /\ IsFiniteSet(NonMe') /\ Cardinality(NonMe') \in Nat
      /\ Cardinality(NonMe') <= Cardinality(NonMe) + 1
  <2>1. /\ IsFiniteSet(NonMe \union {d})
        /\ Cardinality(NonMe \union {d}) \in {Cardinality(NonMe), Cardinality(NonMe) + 1}
    BY FS_AddElement DEF Numbered
  <2> QED
    BY <1>5, <1>7, <2>1
<1> QED
  BY <1>2, <1>3, <1>6, <1>7, <1>8 DEF Numbered

LEMMA AnsweredNumbered ==
    ASSUME Numbered, CallsInv, NEW c \in calls, NEW r, UNCHANGED sent,
           calls' = (calls \ {c}) \union {[c EXCEPT !.got = r]}
    PROVE  Numbered'
<1>1. c = [tab |-> c.tab, op |-> c.op, arg |-> c.arg, tok |-> c.tok, got |-> c.got, no |-> c.no]
  BY DEF CallsInv, IsCall
<1>2. PICK d : d = [tab |-> c.tab, op |-> c.op, arg |-> c.arg, tok |-> c.tok, got |-> r, no |-> c.no]
  OBVIOUS
<1>3. calls' = (calls \ {c}) \union {d}
  BY <1>1, <1>2
<1>4. CASE c.op = "me"
  BY <1>2, <1>3, <1>4, FewerNumbered DEF NonMe
<1>5. CASE c.op # "me"
  <2>1. NonMe' = (NonMe \ {c}) \union {d} /\ c \in NonMe
    BY <1>2, <1>3, <1>5 DEF NonMe
  <2>2. \A x, y \in NonMe' : x.tab = y.tab /\ x.op = y.op /\ x.no = y.no => x = y
    BY <1>2, <2>1 DEF Numbered
  <2>3. /\ IsFiniteSet(NonMe \ {c}) /\ Cardinality(NonMe \ {c}) = Cardinality(NonMe) - 1
        /\ Cardinality(NonMe) \in Nat /\ Cardinality(NonMe \ {c}) \in Nat
    BY <2>1, FS_RemoveElement, FS_CardinalityType DEF Numbered
  <2>4. /\ IsFiniteSet(NonMe') /\ Cardinality(NonMe') \in Nat
        /\ Cardinality(NonMe') <= Cardinality(NonMe)
    <3> DEFINE rest == NonMe \ {c}
    <3>1. IsFiniteSet(rest \union {d}) /\ Cardinality(rest \union {d}) \in {Cardinality(rest), Cardinality(rest) + 1}
      BY <2>3, FS_AddElement
    <3> QED
      BY <2>1, <2>3, <3>1
  <2> QED
    BY <2>2, <2>3, <2>4 DEF Numbered
<1> QED
  BY <1>4, <1>5

LEMMA NumberedInit == Init => Numbered
<1> SUFFICES ASSUME Init PROVE Numbered
  OBVIOUS
<1>1. NonMe = {} /\ sent = 0 /\ MaxCalls \in Nat
  BY SessionBounds DEF Init, NonMe
<1> QED
  BY <1>1, FS_EmptySet DEF Numbered

LEMMA ServeAnswers ==
    ASSUME NEW c \in calls, Serve(c) \/ Lose(c)
    PROVE  /\ \E r : calls' = (calls \ {c}) \union {[c EXCEPT !.got = r]}
           /\ UNCHANGED sent
  BY DEF Serve, ServeMe, ServeLogin, ServeRegister, ServeLogout, ServeArea, Answer, Lose

LEMMA NumberedStep == SessionInv /\ Numbered /\ [Next]_vars => Numbered'
<1> SUFFICES ASSUME SessionInv, Numbered, [Next]_vars PROVE Numbered'
  OBVIOUS
<1>1. ASSUME NEW t \in Tabs, Load(t) PROVE Numbered'
  BY <1>1, FewerNumbered DEF Load, NonMe, Call
<1>2. ASSUME NEW t \in Tabs, SendsOf(t) PROVE Numbered'
  BY <1>2, SendsAreSends, SentNumbered
<1>3. ASSUME NEW t \in Tabs, EditsOf(t) PROVE Numbered'
  BY <1>3, FewerNumbered DEF EditsOf, InviteMember, RemoveMember, SetPermission, Edit, NonMe
<1>4. ASSUME NEW c \in calls, Serve(c) \/ Lose(c) PROVE Numbered'
  BY <1>4, ServeAnswers, AnsweredNumbered DEF SessionInv
<1>5. ASSUME NEW c \in calls, TakeAnswer(c) PROVE Numbered'
  BY <1>5, FewerNumbered DEF TakeAnswer, TakeMe, TakeEntry, TakeLogout, TakeArea, Hear, NonMe
<1>6. ASSUME NEW b \in Browsers, Expire(b) PROVE Numbered'
  BY <1>6, FewerNumbered DEF Expire, NonMe
<1>7. CASE UNCHANGED vars
  BY <1>7, FewerNumbered DEF vars, NonMe
<1> QED
  BY <1>1, <1>2, <1>3, <1>4, <1>5, <1>6, <1>7, NextByKind

\* The guards of one call, from what the row of its account says at that moment.
LEMMA AdmitsEntitled ==
    ASSUME SessionInv, NEW c \in calls, c.op = "area", c.tok # Nil, Admits(c.tok, c.arg)
    PROVE  Entitled(c.tok, c.arg)
<1>1. RowOf(c.tok)
  BY DEF SessionInv, CallsInv, IsCall
<1>2. CASE c.tok.role = "OWNER"
  BY <1>1, <1>2 DEF RowOf, Entitled, Accounts, SessionInv, AccountsInv, Owned
<1>3. CASE c.tok.role # "OWNER"
  BY <1>1, <1>3 DEF RowOf, Entitled, Admits, Accounts
<1> QED
  BY <1>2, <1>3

LEMMA OnlyServedIsLetThrough ==
    ASSUME SessionInv, Numbered, [Next]_vars, NEW c \in calls, LetsThrough(c)
    PROVE  ServeArea(c) /\ [c EXCEPT !.got = Ok(Nil)] \in calls'
<1>1. PICK d : d = [tab |-> c.tab, op |-> c.op, arg |-> c.arg, tok |-> c.tok, got |-> Ok(Nil), no |-> c.no]
  OBVIOUS
<1>2. /\ [c EXCEPT !.got = Ok(Nil)] = d /\ d \in calls' /\ c.op = "area" /\ c.got = Nil
      /\ c = [tab |-> c.tab, op |-> c.op, arg |-> c.arg, tok |-> c.tok, got |-> c.got, no |-> c.no]
  <2>1. c = [tab |-> c.tab, op |-> c.op, arg |-> c.arg, tok |-> c.tok, got |-> c.got, no |-> c.no]
    BY DEF SessionInv, CallsInv, IsCall
  <2> QED
    BY <1>1, <2>1 DEF LetsThrough
<1>3. d # c /\ d.op = "area" /\ d.got # Nil
  BY <1>1, <1>2, NilIsNoAnswer
<1>4. d \notin calls
  BY <1>1, <1>2, <1>3 DEF Numbered, NonMe
<1>5. ASSUME NEW t \in Tabs PROVE ~Load(t) /\ ~SendsOf(t) /\ ~EditsOf(t)
  <2>1. ~Load(t)
    BY <1>2, <1>3, <1>4 DEF Load, Call
  <2>2. ASSUME SendsOf(t) PROVE FALSE
    BY <1>2, <1>3, <1>4, <2>2, SendsAreSends, SentNumbered
  <2>3. ~EditsOf(t)
    BY <1>2, <1>4 DEF EditsOf, InviteMember, RemoveMember, SetPermission, Edit
  <2> QED
    BY <2>1, <2>2, <2>3
<1>6. ASSUME NEW e \in calls PROVE ~TakeAnswer(e)
  BY <1>2, <1>4 DEF TakeAnswer, TakeMe, TakeEntry, TakeLogout, TakeArea, Hear
<1>7. ASSUME NEW b \in Browsers PROVE ~Expire(b)
  BY <1>2, <1>4 DEF Expire
<1>8. ~UNCHANGED vars
  BY <1>2, <1>4 DEF vars
<1>9. PICK e \in calls : Serve(e) \/ Lose(e)
  BY <1>5, <1>6, <1>7, <1>8, NextByKind
<1>10. e = c
  <2>1. PICK r : calls' = (calls \ {e}) \union {[e EXCEPT !.got = r]}
    BY <1>9, ServeAnswers
  <2>2. d = [e EXCEPT !.got = r]
    BY <1>2, <1>4, <2>1
  <2>3. e = [tab |-> e.tab, op |-> e.op, arg |-> e.arg, tok |-> e.tok, got |-> e.got, no |-> e.no]
    BY DEF SessionInv, CallsInv, IsCall
  <2>4. e.tab = d.tab /\ e.op = d.op /\ e.no = d.no
    BY <2>2, <2>3
  <2> QED
    BY <1>1, <1>2, <2>4 DEF Numbered, NonMe
<1> QED
  BY <1>2, <1>9, <1>10 DEF Serve, ServeMe, ServeLogin, ServeRegister, ServeLogout, Lose

\* Whatever a tab still shows, and however calls, removals and permission
\* changes interleave, a call is let through only for an account that exists, in
\* its own tenant, as its owner or with the permission granted at that moment
\* (permission.guard.ts:13-15).
THEOREM AdmissionIsEntitled == Spec => AdmittedIsEntitled
<1>1. ASSUME SessionInv, Numbered, [Next]_vars, NEW c \in calls, LetsThrough(c)
      PROVE  Entitled(c.tok, c.arg)
  <2>1. ServeArea(c) /\ [c EXCEPT !.got = Ok(Nil)] \in calls' /\ c.op = "area" /\ c.got = Nil
    BY <1>1, OnlyServedIsLetThrough DEF LetsThrough
  <2>2. c = [tab |-> c.tab, op |-> c.op, arg |-> c.arg, tok |-> c.tok, got |-> c.got, no |-> c.no]
    BY <1>1 DEF SessionInv, CallsInv, IsCall
  <2>3. CASE c.tok # Nil /\ Admits(c.tok, c.arg)
    BY <1>1, <2>1, <2>3, AdmitsEntitled
  <2>4. CASE ~(c.tok # Nil /\ Admits(c.tok, c.arg))
    <3>1. PICK x : x = [c EXCEPT !.got = Ok(Nil)]
      OBVIOUS
    <3>2. PICK y : y = [c EXCEPT !.got = Failed]
      OBVIOUS
    <3>3. calls' = (calls \ {c}) \union {y} /\ x \in calls'
      BY <2>1, <2>4, <3>1, <3>2 DEF ServeArea, Answer
    <3>4. x.got = Ok(Nil) /\ y.got = Failed /\ x.tab = c.tab /\ x.op = c.op /\ x.no = c.no
      BY <2>2, <3>1, <3>2
    <3>5. Ok(Nil) # Failed /\ Ok(Nil) # Nil
      BY NilIsNoAnswer DEF Ok, Failed
    <3> QED
      BY <1>1, <2>1, <3>3, <3>4, <3>5 DEF Numbered, NonMe
  <2> QED
    BY <2>3, <2>4
<1>2. SessionInv /\ Numbered /\ [Next]_vars
          => [\A c \in calls : LetsThrough(c) => Entitled(c.tok, c.arg)]_vars
  BY <1>1
<1> QED
  BY <1>2, NumberedInit, NumberedStep, SessionHolds, PTL DEF Spec, AdmittedIsEntitled
=============================================================================
