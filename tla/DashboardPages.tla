--------------------------- MODULE DashboardPages ---------------------------
(***************************************************************************)
(* One browser tab on any page of the dashboard that has work under way.   *)
(*                                                                         *)
(* A tab shows one page at a time and a page starts afresh each time it is *)
(* opened, so a behaviour is one visit and `tab' says of which page.  The  *)
(* two sections of the settings page share no state and are two values of  *)
(* `tab'.  The card of live numbers is module LiveSummary.                 *)
(***************************************************************************)
EXTENDS GatePage, TeamPage, TenantPage, EventWizard, EventPage, CredentialPage, CertificatePage

VARIABLE tab

Tabs == {"gate", "team", "tenant", "wizard", "event", "credential", "certificate"}

vars == <<tab, gateVars, teamVars, orgVars, wizVars, evVars, crVars, ceVars>>

\* A page that is not open needs no more than one initial state.
OthersAreClosed ==
    /\ tab # "tenant" => ~tenant.connected /\ tenant.logoUrl = Nil
    /\ tab # "event" => row.status = "DRAFT" /\ row.name = row.description
                        /\ row.name = CHOOSE t \in Texts : TRUE
    /\ tab # "credential" => credential = [art |-> Nil, position |-> Nil]
    /\ tab # "certificate" => settings.template = Nil

Init ==
    /\ tab \in Tabs
    /\ GateInit /\ TeamInit /\ OrgInit /\ WizInit /\ EvInit /\ CrInit /\ CeInit
    /\ OthersAreClosed

GateStep == tab = "gate" /\ GateNext
            /\ UNCHANGED <<tab, teamVars, orgVars, wizVars, evVars, crVars, ceVars>>
TeamStep == tab = "team" /\ TeamNext
            /\ UNCHANGED <<tab, gateVars, orgVars, wizVars, evVars, crVars, ceVars>>
TenantStep == tab = "tenant" /\ OrgNext
              /\ UNCHANGED <<tab, gateVars, teamVars, wizVars, evVars, crVars, ceVars>>
WizardStep == tab = "wizard" /\ WizNext
              /\ UNCHANGED <<tab, gateVars, teamVars, orgVars, evVars, crVars, ceVars>>
EventStep == tab = "event" /\ EvNext
             /\ UNCHANGED <<tab, gateVars, teamVars, orgVars, wizVars, crVars, ceVars>>
CredentialStep == tab = "credential" /\ CrNext
                  /\ UNCHANGED <<tab, gateVars, teamVars, orgVars, wizVars, evVars, ceVars>>
CertificateStep == tab = "certificate" /\ CeNext
                   /\ UNCHANGED <<tab, gateVars, teamVars, orgVars, wizVars, evVars, crVars>>

Next ==
    \/ GateStep \/ TeamStep \/ TenantStep \/ WizardStep
    \/ EventStep \/ CredentialStep \/ CertificateStep

Spec == Init /\ [][Next]_vars

----------------------------------------------------------------------------
TypeOK ==
    /\ tab \in Tabs
    /\ GateTypeOK /\ TeamTypeOK /\ OrgTypeOK /\ WizTypeOK /\ EvTypeOK /\ CrTypeOK /\ CeTypeOK

\* settings page.tsx:105-109, :168-169, :420-424: with every call answered in the
\* order it was served, the team's switches and both sections of the organization
\* show what is stored.
SettingsShowWhatIsStored == ShownTeamIsStored /\ ShownTenantIsStored

\* The event's title, status and guests and the image on the credential's canvas
\* are those the last answers stand for, in whatever order the answers came.
EventShownIsTrue == EventPageIsTrue /\ CanvasShowsArtwork

\* `Salvo' on the event's, the credential's and the certificates' page is said of
\* what is stored, whatever was typed, dropped or lost before the answer came.
SavedIsStored == SavedFormIsStored /\ SavedCredentialIsStored /\ SavedSettingsAreStored
=============================================================================
