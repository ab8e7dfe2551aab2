------------------------------ MODULE TeamPage ------------------------------
(***************************************************************************)
(* The team section of app/dashboard/settings/page.tsx (TeamSection and    *)
(* PermissionsMenu) before TeamService and the accounts of Accounts.       *)
(*                                                                         *)
(* Every click is a call of its own; answers are taken as they arrive, a   *)
(* row at a time.  A switch is disabled only while it is the last one      *)
(* clicked of its member, so calls about one member overlap.               *)
(***************************************************************************)
EXTENDS Accounts

CONSTANTS
    Org,            \* the caller's tenant
    FirstEmails,    \* its people when the page opens: the first is the owner
    MaxTeamClicks,  \* bound: clicks
    MaxTeamLosses   \* bound: answers lost

ASSUME OrgIsASubdomain == Org \in Subdomains
ASSUME FirstEmailsAreEmails == FirstEmails \in Seq(Emails) /\ FirstEmails # <<>>
TeamRows == [id : Nat, role : {"OWNER", "STAFF"}, may : SUBSET Areas, read : Nat]

ASSUME NilIsNoRow == Nil \notin TeamRows \union [rows : SUBSET TeamRows]
ASSUME TeamBounds == MaxTeamClicks \in Nat /\ MaxTeamLosses \in Nat

VARIABLES
    members,        \* the rows shown
    listed,         \* there is a list to show them in: it is not null
    listError,
    inviting,
    pending,        \* PermissionsMenu of each member: the switch it disables
    teamCalls,      \* calls under way
    writes,         \* history: writes so far
    overtaken,      \* history: an answer was lost or came after a newer one
    teamClicks, teamLosses

page == <<members, listed, listError, inviting, pending>>
teamVars == <<accounts, page, teamCalls, writes, overtaken, teamClicks, teamLosses>>

\* MEMBER_SELECT, with the time of the read.
Member(i, time) == [id |-> i, role |-> users[i].role, may |-> users[i].may, read |-> time]

TeamInit ==
    /\ users = [i \in DOMAIN FirstEmails |->
                   [email |-> FirstEmails[i], tenantId |-> Org, may |-> Areas,
                    role |-> IF i = 1 THEN "OWNER" ELSE "STAFF"]]
    /\ removed = {} /\ tenants = {Org}
    /\ members = {} /\ listed = FALSE
    /\ listError = FALSE
    /\ inviting = FALSE
    /\ pending = [i \in 1 .. MaxAccounts |-> Nil]
    /\ teamCalls = {[op |-> "list", arg |-> Nil, no |-> 0, at |-> "sent", got |-> Nil]}
    /\ writes = 0
    /\ overtaken = FALSE
    /\ teamClicks = 0 /\ teamLosses = 0

(***************************************************************************)
(* Clicks                                                                  *)
(***************************************************************************)

Click(op, arg) ==
    /\ teamClicks < MaxTeamClicks
    /\ teamClicks' = teamClicks + 1
    /\ teamCalls' = teamCalls \union
           {[op |-> op, arg |-> arg, no |-> teamClicks + 1, at |-> "sent", got |-> Nil]}
    /\ UNCHANGED <<accounts, members, listed, listError, writes, overtaken, teamLosses>>

StaffRows == {m \in members : m.role = "STAFF"}

ClickInvite(e) ==
    /\ ~inviting
    /\ inviting' = TRUE
    /\ Click("invite", e)
    /\ UNCHANGED pending

\* The switch asks for the opposite of the row shown.
ClickSwitch(m, a) ==
    /\ m \in StaffRows /\ pending[m.id] # a
    /\ pending' = [pending EXCEPT ![m.id] = a]
    /\ Click("switch", [id |-> m.id, area |-> a, value |-> a \notin m.may])
    /\ UNCHANGED inviting

\* Confirmed in the browser's dialog; the row stays clickable meanwhile.
ClickRemove(m) ==
    /\ m \in StaffRows
    /\ Click("remove", m.id)
    /\ UNCHANGED <<inviting, pending>>

(***************************************************************************)
(* A plausible slip, not part of TeamNext: updatePermissions reads the row *)
(* before it writes it.                                                    *)
(***************************************************************************)
Move(c, at, got) ==
    /\ c \in teamCalls
    /\ teamCalls' = (teamCalls \ {c}) \union {[c EXCEPT !.at = at, !.got = got]}
    /\ UNCHANGED <<page, overtaken, teamClicks, teamLosses>>

ServeSwitchReadingFirst(c) ==
    /\ c.op = "switch" /\ c.at = "sent"
    /\ UpdatePermissions(Org, c.arg.id, c.arg.area, c.arg.value)
    /\ writes' = writes + 1
    /\ Move(c, "answered", Member(c.arg.id, writes + 1))

(***************************************************************************)
(* TeamService                                                             *)
(***************************************************************************)

Refuse(c) == Move(c, "answered", Nil) /\ UNCHANGED <<accounts, writes>>

\* findAll.
ServeList(c) ==
    /\ c.op = "list" /\ c.at = "sent"
    /\ Move(c, "answered",
            [rows |-> {Member(i, writes) : i \in {j \in Accounts : users[j].tenantId = Org}}])
    /\ UNCHANGED <<accounts, writes>>

ServeInvite(c) ==
    /\ c.op = "invite" /\ c.at = "sent"
    /\ \/ /\ Invite(Org, c.arg)
          /\ writes' = writes + 1
          /\ Move(c, "answered", [id |-> Len(users) + 1, role |-> "STAFF",
                                  may |-> Areas, read |-> writes + 1])
       \/ Known(c.arg) /\ Refuse(c)

\* updateMany; no row matched is 404.
ServeSwitch(c) ==
    /\ c.op = "switch" /\ c.at = "sent"
    /\ \/ /\ UpdatePermissions(Org, c.arg.id, c.arg.area, c.arg.value)
          /\ writes' = writes + 1
          /\ Move(c, "written", Nil)
       \/ c.arg.id \notin Staff(Org) /\ Refuse(c)

\* Then findUniqueOrThrow: the row as it is now, or an error if it went meanwhile.
ReadBack(c) ==
    /\ c.op = "switch" /\ c.at = "written"
    /\ Move(c, "answered", IF c.arg.id \in Accounts THEN Member(c.arg.id, writes) ELSE Nil)
    /\ UNCHANGED <<accounts, writes>>

ServeRemove(c) ==
    /\ c.op = "remove" /\ c.at = "sent"
    /\ \/ /\ Remove(Org, c.arg)
          /\ writes' = writes + 1
          /\ Move(c, "answered", "removed")
       \/ c.arg \notin Staff(Org) /\ Refuse(c)

\* The answer, whatever it was, does not arrive.
LoseAnswer(c) ==
    /\ teamLosses < MaxTeamLosses /\ c \in teamCalls /\ c.at = "answered"
    /\ teamLosses' = teamLosses + 1
    /\ overtaken' = TRUE
    /\ teamCalls' = (teamCalls \ {c}) \union {[c EXCEPT !.got = Nil]}
    /\ UNCHANGED <<accounts, page, writes, teamClicks>>

(***************************************************************************)
(* Answers                                                                 *)
(***************************************************************************)

Arrive(c) ==
    /\ c \in teamCalls /\ c.at = "answered"
    /\ teamCalls' = teamCalls \ {c}
    /\ UNCHANGED <<accounts, writes, teamClicks, teamLosses>>

ListArrives(c) ==
    /\ c.op = "list" /\ Arrive(c)
    /\ IF c.got = Nil
       THEN listError' = TRUE /\ UNCHANGED <<members, listed, overtaken>>
       ELSE /\ members' = c.got.rows /\ listed' = TRUE
            /\ overtaken' = (overtaken \/ listed)
            /\ UNCHANGED listError
    /\ UNCHANGED <<inviting, pending>>

\* Appended to what is shown by now.
InviteArrives(c) ==
    /\ c.op = "invite" /\ Arrive(c)
    /\ inviting' = FALSE
    /\ IF c.got = Nil
       THEN UNCHANGED <<members, listed, overtaken>>
       ELSE /\ members' = members \union {c.got} /\ listed' = TRUE
            /\ overtaken' = (overtaken \/ \E m \in members : m.id = c.got.id)
    /\ UNCHANGED <<listError, pending>>

\* onChange puts the row in the place of the one shown; an error is not caught.
SwitchArrives(c) ==
    /\ c.op = "switch" /\ Arrive(c)
    /\ pending' = [pending EXCEPT ![c.arg.id] = Nil]
    /\ IF c.got = Nil
       THEN UNCHANGED <<members, overtaken>>
       ELSE /\ members' = {IF m.id = c.got.id THEN c.got ELSE m : m \in members}
            /\ overtaken' = (overtaken \/ \E m \in members : m.id = c.got.id /\ m.read > c.got.read)
    /\ UNCHANGED <<listed, listError, inviting>>

\* DELETE answers 200 with an empty body: request() fails to parse it, so the
\* catch runs for a member that was removed as for one that was not.
RemoveArrives(c) ==
    /\ c.op = "remove" /\ Arrive(c)
    /\ listError' = TRUE
    /\ UNCHANGED <<members, listed, inviting, pending, overtaken>>

TeamNext ==
    \/ \E e \in Emails : ClickInvite(e)
    \/ \E m \in StaffRows : ClickRemove(m) \/ \E a \in Areas : ClickSwitch(m, a)
    \/ \E c \in teamCalls :
        \/ ServeList(c) \/ ServeInvite(c) \/ ServeSwitch(c) \/ ReadBack(c) \/ ServeRemove(c)
        \/ LoseAnswer(c)
        \/ ListArrives(c) \/ InviteArrives(c) \/ SwitchArrives(c) \/ RemoveArrives(c)

TeamSpec == TeamInit /\ [][TeamNext]_teamVars

----------------------------------------------------------------------------
TeamTypeOK ==
    /\ users \in Seq(UserType) /\ removed \subseteq DOMAIN users /\ tenants \subseteq Subdomains
    /\ \A m \in members :
           m.id \in DOMAIN users /\ m.role \in Roles /\ m.may \subseteq Areas /\ m.read \in 0 .. writes
    /\ {listed, listError, inviting, overtaken} \subseteq BOOLEAN
    /\ \A i \in DOMAIN pending : pending[i] \in Areas \union {Nil}
    /\ \A c \in teamCalls : c.at \in {"sent", "written", "answered"}
    /\ Cardinality({c \in teamCalls : c.op = "invite"}) <= 1

TeamSettled == teamCalls = {} /\ listed /\ ~overtaken

\* PermissionsMenu shows no state of its own but the answered row (settings
\* page.tsx:105-109): with every call answered, and no answer lost or overtaken,
\* each switch stands as PermissionGuard will find it, and nobody is missing.
ShownTeamIsStored ==
    TeamSettled =>
        /\ \A m \in members : m.id \in Accounts => m.may = users[m.id].may
        /\ \A i \in Staff(Org) : \E m \in members : m.id = i
=============================================================================
