----------------------------- MODULE TenantPage -----------------------------
(***************************************************************************)
(* The organization's sections of app/dashboard/settings/page.tsx          *)
(* (AsaasSection, BrandSection and the logo's FileDropzone) before         *)
(* TenantsService and the uploads.                                         *)
(*                                                                         *)
(* Both sections show one profile and every answer replaces all of it; the *)
(* brand form starts over with each new profile, whichever section asked.  *)
(***************************************************************************)
EXTENDS Integers, FiniteSets, Values

CONSTANTS
    Names,          \* subdomains the owner types
    Taken,          \* those another tenant has
    Logos,          \* URLs uploads answer
    FirstName,      \* the tenant's subdomain when the page opens
    MaxOrgClicks,   \* bound: clicks, uploads and edits
    MaxOrgLosses,   \* bound: failed calls
    Keep            \* a field that is not sent

ASSUME FirstNameIsFree == FirstName \in Names \ Taken
ASSUME OrgBounds == MaxOrgClicks \in Nat /\ MaxOrgLosses \in Nat
ASSUME OrgNil == Nil \notin Names \union Logos /\ Keep \notin Names \union Logos \union {Nil}

VARIABLES
    tenant,         \* the row: subdomain, logoUrl, and whether there is a key
    profile,        \* what the page was last given, or Nil
    profileError,
    form,           \* the brand form
    typed,          \* history: its fields edited since it last started over
    busy,           \* the sections that are submitting
    orgCalls,
    orgWrites,      \* history: writes so far
    orgStale,       \* history: an answer came after a newer one, or never
    orgClicks, orgLosses

orgPage == <<profile, profileError, form, typed, busy>>
orgVars == <<tenant, orgPage, orgCalls, orgWrites, orgStale, orgClicks, orgLosses>>

Blank == [subdomain |-> Nil, logoUrl |-> Nil]
Fields == DOMAIN Blank
ToProfile(r, time) == [row |-> r, read |-> time]
Shown(f) == IF profile = Nil THEN Nil ELSE profile.row[f]

OrgInit ==
    /\ tenant \in {[subdomain |-> FirstName, logoUrl |-> l, connected |-> b] :
                      l \in Logos \union {Nil}, b \in BOOLEAN}
    /\ profile = Nil
    /\ profileError = FALSE
    /\ form = Blank
    /\ typed = {}
    /\ busy = {}
    /\ orgCalls = {[op |-> "get", data |-> Nil, by |-> {}, no |-> 0, at |-> "sent", got |-> Nil]}
    /\ orgWrites = 0
    /\ orgStale = FALSE
    /\ orgClicks = 0 /\ orgLosses = 0

OrgClick ==
    /\ orgClicks < MaxOrgClicks
    /\ orgClicks' = orgClicks + 1
OrgSend(op, data) ==
    orgCalls' = orgCalls \union {[op |-> op, data |-> data, by |-> typed, no |-> orgClicks + 1,
                                  at |-> "sent", got |-> Nil]}

(***************************************************************************)
(* Clicks                                                                  *)
(***************************************************************************)

\* The form waits for the profile, or for the error in its place.
FormShown == profile # Nil \/ profileError

EditField(f, value) ==
    /\ FormShown /\ OrgClick
    /\ form' = [form EXCEPT ![f] = value]
    /\ typed' = typed \union {f}
    /\ UNCHANGED <<tenant, profile, profileError, busy, orgCalls, orgWrites, orgStale, orgLosses>>

TypeSubdomain(s) == form.subdomain # s /\ EditField("subdomain", s)
RemoveLogo == form.logoUrl # Nil /\ EditField("logoUrl", Nil)

\* A dropped file; the drop zone takes another one while it is uploading.
Upload(l) ==
    /\ FormShown /\ OrgClick
    /\ OrgSend("upload", l)
    /\ UNCHANGED <<tenant, orgPage, orgWrites, orgStale, orgLosses>>

Submit(section, op, data) ==
    /\ section \notin busy /\ OrgClick
    /\ busy' = busy \union {section}
    /\ OrgSend(op, data)
    /\ UNCHANGED <<tenant, profile, profileError, form, typed, orgWrites, orgStale, orgLosses>>

\* Only what differs from the profile is sent; a removed logo is undefined, so
\* it is not sent either.
Diff(f) == IF form[f] # Shown(f) /\ form[f] # Nil THEN form[f] ELSE Keep

ClickSave ==
    /\ FormShown /\ form.subdomain # Nil
    /\ Submit("brand", "save", [f \in Fields |-> Diff(f)])
ClickConnect ==
    /\ profile # Nil /\ ~profileError /\ ~profile.row.connected
    /\ Submit("asaas", "connect", Nil)
ClickDisconnect ==
    /\ profile # Nil /\ ~profileError /\ profile.row.connected
    /\ Submit("asaas", "disconnect", Nil)

(***************************************************************************)
(* TenantsService and the uploads                                          *)
(***************************************************************************)

OrgAnswer(c, got) ==
    /\ c \in orgCalls /\ c.at = "sent"
    /\ orgCalls' = (orgCalls \ {c}) \union {[c EXCEPT !.at = "answered", !.got = got]}
    /\ UNCHANGED <<orgPage, orgStale, orgClicks, orgLosses>>

ServeGet(c) ==
    /\ c.op = "get"
    /\ OrgAnswer(c, ToProfile(tenant, orgWrites))
    /\ UNCHANGED <<tenant, orgWrites>>

\* One UPDATE, whose row is the answer.
UpdateTenant(c, r) ==
    /\ tenant' = r
    /\ orgWrites' = orgWrites + 1
    /\ OrgAnswer(c, ToProfile(r, orgWrites + 1))

ServeSave(c) ==
    /\ c.op = "save" /\ c.data.subdomain \notin Taken
    /\ UpdateTenant(c, [f \in DOMAIN tenant |->
           IF f \in Fields /\ c.data[f] # Keep THEN c.data[f] ELSE tenant[f]])

\* validateApiKey has accepted the key.
ServeConnect(c) == c.op = "connect" /\ UpdateTenant(c, [tenant EXCEPT !.connected = TRUE])
ServeDisconnect(c) == c.op = "disconnect" /\ UpdateTenant(c, [tenant EXCEPT !.connected = FALSE])

\* Stored under a fresh name; only the answer says which.
ServeUpload(c) == c.op = "upload" /\ OrgAnswer(c, c.data) /\ UNCHANGED <<tenant, orgWrites>>

\* P2002, or a key that Asaas does not accept, or a file of the wrong type.
ServeRefuses(c) ==
    /\ c.op \in {"connect", "upload"} \/ (c.op = "save" /\ c.data.subdomain \in Taken)
    /\ OrgAnswer(c, Nil)
    /\ UNCHANGED <<tenant, orgWrites>>

\* The API was not reached, or its answer is lost.
OrgCallFails(c) ==
    /\ orgLosses < MaxOrgLosses /\ c \in orgCalls
    /\ orgLosses' = orgLosses + 1
    /\ orgStale' = TRUE
    /\ orgCalls' = (orgCalls \ {c}) \union {[c EXCEPT !.at = "answered", !.got = Nil]}
    /\ UNCHANGED <<tenant, orgPage, orgWrites, orgClicks>>

\* The owner saves in another tab.
SaveElsewhere(s) ==
    /\ OrgClick
    /\ s \notin Taken /\ s # tenant.subdomain
    /\ tenant' = [tenant EXCEPT !.subdomain = s]
    /\ orgWrites' = orgWrites + 1
    /\ orgStale' = TRUE
    /\ UNCHANGED <<orgPage, orgCalls, orgLosses>>

(***************************************************************************)
(* A plausible slip, not part of OrgNext.                                   *)
(***************************************************************************)

\* The form starts from the first profile only.
ShowOnce(p) ==
    /\ profile' = p
    /\ IF profile = Nil THEN form' = [f \in Fields |-> p.row[f]] ELSE UNCHANGED form
    /\ typed' = IF profile = Nil THEN {} ELSE typed

(***************************************************************************)
(* Answers                                                                 *)
(***************************************************************************)

\* setTenant, and the effect of BrandSection that it triggers.
Show(p) ==
    /\ profile' = p
    /\ form' = [f \in Fields |-> p.row[f]]
    /\ typed' = {}

OrgArrive(c) ==
    /\ c \in orgCalls /\ c.at = "answered"
    /\ orgCalls' = orgCalls \ {c}
    /\ UNCHANGED <<tenant, orgWrites, orgClicks, orgLosses>>

ProfileArrives(c) ==
    /\ c.op \in {"get", "save", "connect", "disconnect"} /\ c.got # Nil
    /\ OrgArrive(c)
    /\ Show(c.got)
    /\ orgStale' = (orgStale \/ (profile # Nil /\ profile.read > c.got.read))
    /\ busy' = busy \ (IF c.op = "save" THEN {"brand"} ELSE IF c.op = "get" THEN {} ELSE {"asaas"})
    /\ UNCHANGED profileError

UploadArrives(c) ==
    /\ c.op = "upload" /\ c.got # Nil
    /\ OrgArrive(c)
    /\ form' = [form EXCEPT !.logoUrl = c.got]
    /\ typed' = typed \union {"logoUrl"}
    /\ UNCHANGED <<profile, profileError, busy, orgStale>>

\* Only the first call's error takes the sections away.
OrgErrorArrives(c) ==
    /\ c.got = Nil
    /\ OrgArrive(c)
    /\ profileError' = (profileError \/ c.op = "get")
    /\ busy' = busy \ (IF c.op = "save" THEN {"brand"}
                       ELSE IF c.op \in {"connect", "disconnect"} THEN {"asaas"} ELSE {})
    /\ UNCHANGED <<profile, form, typed, orgStale>>

OrgNext ==
    \/ \E s \in Names : TypeSubdomain(s) \/ SaveElsewhere(s)
    \/ \E l \in Logos : Upload(l)
    \/ RemoveLogo \/ ClickSave \/ ClickConnect \/ ClickDisconnect
    \/ \E c \in orgCalls :
        \/ ServeGet(c) \/ ServeSave(c) \/ ServeConnect(c) \/ ServeDisconnect(c)
        \/ ServeUpload(c) \/ ServeRefuses(c) \/ OrgCallFails(c)
        \/ ProfileArrives(c) \/ UploadArrives(c) \/ OrgErrorArrives(c)

OrgSpec == OrgInit /\ [][OrgNext]_orgVars

----------------------------------------------------------------------------
Rows == [subdomain : Names \ Taken, logoUrl : Logos \union {Nil}, connected : BOOLEAN]
Profiles == [row : Rows, read : Nat]

ASSUME NilIsNoProfile == Nil \notin Profiles

OrgTypeOK ==
    /\ tenant \in Rows
    /\ profile # Nil => profile.row \in Rows /\ profile.read \in 0 .. orgWrites
    /\ form \in [subdomain : Names \union {Nil}, logoUrl : Logos \union {Nil}]
    /\ typed \subseteq Fields /\ busy \subseteq {"brand", "asaas"}
    /\ \A c \in orgCalls : c.at \in {"sent", "answered"}
    /\ {profileError, orgStale} \subseteq BOOLEAN

\* settings page.tsx:168-169, :420-424: the two sections share one profile; once
\* every call is answered in the order it was served, both show the stored row.
ShownTenantIsStored ==
    (orgCalls = {} /\ profile # Nil /\ ~orgStale) =>
        /\ profile.row = tenant
        /\ typed = {} => \A f \in Fields : form[f] = tenant[f]

\* settings page.tsx:432-433 sends differences only: a save writes no field its
\* owner did not touch, however old the profile it is compared with has become.
OnlyTypedIsSent ==
    \A c \in orgCalls : c.op = "save" => \A f \in Fields : c.data[f] # Keep => f \in c.by
=============================================================================
