------------------------------ MODULE Accounts ------------------------------
(***************************************************************************)
(* The users and tenants tables with the operations that write them and    *)
(* the guards that read them: auth/auth.service.ts, team/team.service.ts,  *)
(* auth/guards/*.ts.  Modules Sessions and TeamPage put browsers before it.*)
(*                                                                         *)
(* An id is never used twice: users[i] keeps the row of a removed account, *)
(* and `removed' says that the row is gone.                                *)
(***************************************************************************)
EXTENDS Integers, Sequences, FiniteSets, Values

CONSTANTS
    Emails,
    Subdomains,
    Areas,        \* checkIn, certificates, eventos
    MaxAccounts   \* bound: accounts ever created

ASSUME AccountsBound == MaxAccounts \in Nat

VARIABLES
    users,        \* id -> [email, tenantId, role, may], in the order of creation
    removed,      \* the ids whose row is deleted
    tenants       \* the tenants, by their subdomain

accounts == <<users, removed, tenants>>

Roles == {"OWNER", "STAFF"}
UserType == [email : Emails, tenantId : Subdomains, role : Roles, may : SUBSET Areas]
TokenType == [sub : 1 .. MaxAccounts, tenantId : Subdomains, role : Roles]

Accounts == DOMAIN users \ removed
Known(e) == \E i \in Accounts : users[i].email = e
Owners(s) == {i \in Accounts : users[i].tenantId = s /\ users[i].role = "OWNER"}
Staff(s) == {i \in Accounts : users[i].tenantId = s /\ users[i].role = "STAFF"}

\* What signToken puts in the cookie: nothing of the permissions.
SignToken(i) == [sub |-> i, tenantId |-> users[i].tenantId, role |-> users[i].role]
\* What sanitize gives the browser.
Sanitize(i) == [id |-> i, tenantId |-> users[i].tenantId,
                role |-> users[i].role, may |-> users[i].may]

AccountsInit == users = <<>> /\ removed = {} /\ tenants = {}

\* user.create: every permission starts granted.
CreateUser(e, s, role) ==
    /\ Len(users) < MaxAccounts
    /\ users' = Append(users, [email |-> e, tenantId |-> s, role |-> role, may |-> Areas])
    /\ UNCHANGED removed

(***************************************************************************)
(* Plausible slips; none is part of the operations.                        *)
(***************************************************************************)

\* invite takes the account that has the e-mail into the team.
InviteUpserting(s, e) ==
    /\ IF Known(e)
       THEN /\ users' = [i \in DOMAIN users |->
                            IF i \in Accounts /\ users[i].email = e
                            THEN [users[i] EXCEPT !.tenantId = s, !.role = "STAFF"]
                            ELSE users[i]]
            /\ UNCHANGED removed
       ELSE CreateUser(e, s, "STAFF")
    /\ UNCHANGED tenants

\* deleteMany does not filter by role.
RemoveAnyone(s, i) ==
    /\ i \in Owners(s) \union Staff(s)
    /\ removed' = removed \union {i}
    /\ UNCHANGED <<users, tenants>>

\* `record?.[field] === false' is refused, so a missing record is let through.
AdmitsUnlessDenied(tok, a) ==
    \/ tok.role = "OWNER"
    \/ tok.sub \notin Accounts
    \/ a \in users[tok.sub].may

(***************************************************************************)
(* Operations; each is one statement or one transaction                    *)
(***************************************************************************)

\* Both uniqueness constraints hold, or P2002 refuses the whole transaction.
RegisterAllowed(e, s) == ~Known(e) /\ s \notin tenants

Register(e, s) ==
    /\ RegisterAllowed(e, s)
    /\ CreateUser(e, s, "OWNER")
    /\ tenants' = tenants \union {s}

Invite(s, e) ==
    /\ ~Known(e)
    /\ CreateUser(e, s, "STAFF")
    /\ UNCHANGED tenants

\* The where clause of remove and updatePermissions: STAFF of the caller's tenant.
Remove(s, i) ==
    /\ i \in Staff(s)
    /\ removed' = removed \union {i}
    /\ UNCHANGED <<users, tenants>>

UpdatePermissions(s, i, a, value) ==
    /\ i \in Staff(s)
    /\ users' = [users EXCEPT ![i].may = IF value THEN @ \union {a} ELSE @ \ {a}]
    /\ UNCHANGED <<removed, tenants>>

(***************************************************************************)
(* Guards                                                                  *)
(***************************************************************************)

\* RolesGuard: the role of the token.
HasRole(tok, role) == tok # Nil /\ tok.role = role

\* PermissionGuard: OWNER by the token, STAFF by the row as it is now.
Admits(tok, a) ==
    \/ tok.role = "OWNER"
    \/ tok.sub \in Accounts /\ a \in users[tok.sub].may

\* The role in a token is never checked against the row: no operation may give
\* a token's account another role or tenant.
TokenIsTrue(tok) == tok.sub \in Accounts => tok = SignToken(tok.sub)

\* A registration leaves its organization with its owner, and neither the team
\* page nor another registration takes that owner away or adds a second one.
EveryTenantHasOneOwner == \A s \in tenants : Cardinality(Owners(s)) = 1
=============================================================================
