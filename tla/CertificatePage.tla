-------------------------- MODULE CertificatePage --------------------------
(***************************************************************************)
(* The certificates' page, app/dashboard/events/[id]/certificate/page.tsx, *)
(* before EventsService.updateCertificate and CertificatesService.         *)
(*                                                                         *)
(* Module Certificates models the worker and the sweep at their awaits;    *)
(* here each is one step, and what counts is the list the organizer sees.  *)
(* The template is 0, the one the event had, or the click that sent it.    *)
(***************************************************************************)
EXTENDS Integers, FiniteSets, Values

CONSTANTS
    Attendees,
    Absent,         \* those flagged as not coming
    Hours,          \* what may be typed as the delay, besides nothing
    MaxCeClicks,    \* bound: uploads, edits and clicks
    MaxCeLosses     \* bound: failed calls and jobs

ASSUME AbsentAreAttendees == Absent \subseteq Attendees
ASSUME HoursAreWhole == Hours \subseteq Int
ASSUME CeBounds == MaxCeClicks \in Nat /\ MaxCeLosses \in Nat

VARIABLES
    settings,       \* stored: template, mode, delay, and whether it was dispatched
    sentAt,         \* attendees with certificateSentAt
    jobs,           \* attendees with a send job waiting
    dropped,        \* history: attendees a job of whom failed or was skipped
    ceShown, ceLoadError,
    ceForm,         \* template, mode and delay as typed
    ceError, ceSaving, ceSaved,
    ceTouched,      \* history: edited since it was last submitted
    roster,         \* Nil, or the attendees listed as sent to
    rosterError,
    sendingId, sendingAll,
    ceCalls,
    ceClicks, ceLosses

queue == <<sentAt, jobs, dropped>>
ceSettings == <<ceForm, ceError, ceSaving, ceSaved, ceTouched>>
ceList == <<roster, rosterError, sendingId, sendingAll>>
ceVars == <<settings, queue, ceShown, ceLoadError, ceSettings, ceList, ceCalls, ceClicks, ceLosses>>

Modes == {"MANUAL", "AUTO"}
Templates == (0 .. MaxCeClicks) \union {Nil}
DEFAULT_DELAY == 24

CeInit ==
    /\ settings \in [template : {0, Nil}, mode : {"MANUAL"}, delay : {Nil}, dispatched : {FALSE}]
    /\ sentAt = {} /\ jobs = {} /\ dropped = {}
    /\ ceShown = FALSE /\ ceLoadError = FALSE
    /\ ceForm = [template |-> Nil, mode |-> "MANUAL", delay |-> DEFAULT_DELAY]
    /\ ceError = FALSE /\ ceSaving = FALSE /\ ceSaved = FALSE /\ ceTouched = FALSE
    /\ roster = Nil /\ rosterError = FALSE
    /\ sendingId = Nil /\ sendingAll = FALSE
    /\ ceCalls = {[op |-> op, data |-> Nil, no |-> 0, at |-> "sent", got |-> Nil] :
                     op \in {"get", "list"}}
    /\ ceClicks = 0 /\ ceLosses = 0

CeClick ==
    /\ ceShown
    /\ ceClicks < MaxCeClicks
    /\ ceClicks' = ceClicks + 1
CeSend(op, data) ==
    ceCalls' = ceCalls \union
        {[op |-> op, data |-> data, no |-> ceClicks + 1, at |-> "sent", got |-> Nil]}
CeStored == UNCHANGED <<settings, queue, ceShown, ceLoadError, ceLosses>>

(***************************************************************************)
(* The settings                                                            *)
(***************************************************************************)

UploadTemplate ==
    /\ CeClick /\ CeSend("upload", ceClicks + 1)
    /\ UNCHANGED <<ceSettings, ceList>> /\ CeStored

\* Only the template takes `Salvo' away; nothing is stored under the mode and the
\* delay until the form is submitted.
EditSettings(f, value) ==
    /\ ceForm[f] # value /\ CeClick
    /\ ceForm' = [ceForm EXCEPT ![f] = value]
    /\ ceSaved' = (ceSaved /\ f # "template")
    /\ ceTouched' = TRUE
    /\ UNCHANGED <<ceError, ceSaving, ceList, ceCalls>> /\ CeStored

RemoveTemplate == EditSettings("template", Nil)
SelectMode(m) == EditSettings("mode", m)
\* Shown for AUTO only, where the browser also refuses what is below 0.
TypeDelay(h) == ceForm.mode = "AUTO" /\ EditSettings("delay", h)

\* Number(autoDelayHours) || 0
ToHours(h) == IF h = Nil THEN 0 ELSE h

HandleSaveSettings ==
    /\ ~ceSaving /\ CeClick
    /\ ceForm.mode = "AUTO" => ToHours(ceForm.delay) >= 0
    /\ ceSaving' = TRUE /\ ceSaved' = FALSE /\ ceError' = FALSE /\ ceTouched' = FALSE
    /\ CeSend("save", ceForm)
    /\ UNCHANGED <<ceForm, ceList>> /\ CeStored

(***************************************************************************)
(* Sending                                                                 *)
(***************************************************************************)

\* A plausible slip, not part of CeNext: the row is shown as sent at the click.
ClickSendOneShowing(p) ==
    /\ roster # Nil /\ p \notin roster \union Absent
    /\ sendingId # p /\ CeClick
    /\ sendingId' = p
    /\ roster' = roster \union {p}
    /\ CeSend("one", p)
    /\ UNCHANGED <<ceSettings, rosterError, sendingAll>> /\ CeStored

\* Disabled while it is the last one clicked.
ClickSendOne(p) ==
    /\ roster # Nil /\ p \notin roster \union Absent
    /\ sendingId # p /\ CeClick
    /\ sendingId' = p
    /\ CeSend("one", p)
    /\ UNCHANGED <<ceSettings, roster, rosterError, sendingAll>> /\ CeStored

ClickSendAll ==
    /\ ~sendingAll /\ CeClick
    /\ sendingAll' = TRUE
    /\ CeSend("all", Nil)
    /\ UNCHANGED <<ceSettings, roster, rosterError, sendingId>> /\ CeStored

(***************************************************************************)
(* EventsService, CertificatesService, the worker and the sweep            *)
(***************************************************************************)

CeAnswer(c, got) ==
    /\ c \in ceCalls /\ c.at = "sent"
    /\ ceCalls' = (ceCalls \ {c}) \union {[c EXCEPT !.at = "answered", !.got = got]}
    /\ UNCHANGED <<ceShown, ceLoadError, ceSettings, ceList, ceClicks, ceLosses>>

ServeSettings(c) == c.op = "get" /\ CeAnswer(c, settings) /\ UNCHANGED <<settings, queue>>
ServeRoster(c) == c.op = "list" /\ CeAnswer(c, sentAt) /\ UNCHANGED <<settings, queue>>
ServeTemplate(c) == c.op = "upload" /\ CeAnswer(c, c.data) /\ UNCHANGED <<settings, queue>>

\* A blank template is undefined.  The page always sends the mode, so every save
\* makes the event eligible for the sweep again.
AcceptsSettings(data) == ToHours(data.delay) \in 0 .. 720
ServeSaveSettings(c) ==
    /\ c.op = "save" /\ AcceptsSettings(c.data)
    /\ settings' = [template |-> IF c.data.template = Nil THEN settings.template ELSE c.data.template,
                    mode |-> c.data.mode, delay |-> ToHours(c.data.delay), dispatched |-> FALSE]
    /\ CeAnswer(c, TRUE)
    /\ UNCHANGED queue
RefuseSettings(c) ==
    /\ c.op = "save" /\ ~AcceptsSettings(c.data)
    /\ CeAnswer(c, Nil)
    /\ UNCHANGED <<settings, queue>>

Unsent == Attendees \ (sentAt \union Absent)
ServeSendOne(c) ==
    /\ c.op = "one"
    /\ jobs' = jobs \union {c.data}
    /\ CeAnswer(c, TRUE)
    /\ UNCHANGED <<settings, sentAt, dropped>>
ServeSendAll(c) ==
    /\ c.op = "all"
    /\ jobs' = jobs \union Unsent
    /\ CeAnswer(c, TRUE)
    /\ UNCHANGED <<settings, sentAt, dropped>>

PageStays == UNCHANGED <<ceShown, ceLoadError, ceSettings, ceList, ceCalls, ceClicks>>

\* send: without a template the job is done and nothing is sent.
WorkerSends(p) ==
    /\ p \in jobs
    /\ jobs' = jobs \ {p}
    /\ IF settings.template = Nil
       THEN dropped' = dropped \union {p} /\ UNCHANGED sentAt
       ELSE sentAt' = sentAt \union {p} /\ UNCHANGED dropped
    /\ PageStays /\ UNCHANGED <<settings, ceLosses>>

\* The template or the mail server cannot be reached; a job is tried once.
WorkerFails(p) ==
    /\ ceLosses < MaxCeLosses /\ p \in jobs
    /\ ceLosses' = ceLosses + 1
    /\ jobs' = jobs \ {p} /\ dropped' = dropped \union {p}
    /\ PageStays /\ UNCHANGED <<settings, sentAt>>

SweepDispatches ==
    /\ settings.mode = "AUTO" /\ settings.template # Nil /\ ~settings.dispatched
    /\ jobs' = jobs \union Unsent
    /\ settings' = [settings EXCEPT !.dispatched = TRUE]
    /\ PageStays /\ UNCHANGED <<sentAt, dropped, ceLosses>>

\* The call or its answer is lost.
LoseCeCall(c) ==
    /\ ceLosses < MaxCeLosses /\ c \in ceCalls
    /\ ceLosses' = ceLosses + 1
    /\ ceCalls' = (ceCalls \ {c}) \union {[c EXCEPT !.at = "answered", !.got = Nil]}
    /\ UNCHANGED <<settings, queue, ceShown, ceLoadError, ceSettings, ceList, ceClicks>>

(***************************************************************************)
(* Answers                                                                 *)
(***************************************************************************)

CeArrive(c) ==
    /\ c \in ceCalls /\ c.at = "answered"
    /\ UNCHANGED <<settings, queue, ceClicks, ceLosses>>
CeDone(c) == CeArrive(c) /\ ceCalls' = ceCalls \ {c}

SettingsArrive(c) ==
    /\ c.op = "get" /\ CeDone(c)
    /\ IF c.got = Nil
       THEN ceLoadError' = TRUE /\ UNCHANGED <<ceShown, ceForm>>
       ELSE /\ ceShown' = TRUE
            /\ ceForm' = [template |-> c.got.template, mode |-> c.got.mode,
                          delay |-> IF c.got.delay = Nil THEN DEFAULT_DELAY ELSE c.got.delay]
            /\ UNCHANGED ceLoadError
    /\ UNCHANGED <<ceError, ceSaving, ceSaved, ceTouched, ceList>>

TemplateArrives(c) ==
    /\ c.op = "upload" /\ CeDone(c)
    /\ IF c.got = Nil
       THEN UNCHANGED ceSettings
       ELSE /\ ceForm' = [ceForm EXCEPT !.template = c.got]
            /\ ceSaved' = FALSE /\ ceTouched' = TRUE
            /\ UNCHANGED <<ceError, ceSaving>>
    /\ UNCHANGED <<ceShown, ceLoadError, ceList>>

SavedSettingsArrive(c) ==
    /\ c.op = "save" /\ CeDone(c)
    /\ ceSaving' = FALSE
    /\ ceSaved' = (c.got # Nil) /\ ceError' = (c.got = Nil)
    /\ UNCHANGED <<ceShown, ceLoadError, ceForm, ceTouched, ceList>>

RosterArrives(c) ==
    /\ c.op = "list" /\ CeDone(c)
    /\ IF c.got = Nil THEN rosterError' = TRUE /\ UNCHANGED roster
                      ELSE roster' = c.got /\ UNCHANGED rosterError
    /\ UNCHANGED <<ceShown, ceLoadError, ceSettings, sendingId, sendingAll>>

\* Shown as sent from here on, as far as the organizer is concerned.
SentOneArrives(c) ==
    /\ c.op = "one" /\ CeDone(c)
    /\ sendingId' = Nil
    /\ IF c.got = Nil THEN rosterError' = TRUE /\ UNCHANGED roster
       ELSE roster' = (IF roster = Nil THEN Nil ELSE roster \union {c.data}) /\ UNCHANGED rosterError
    /\ UNCHANGED <<ceShown, ceLoadError, ceSettings, sendingAll>>

\* The list is read again, whatever the jobs have done by then.
SentAllArrives(c) ==
    /\ c.op = "all" /\ CeArrive(c)
    /\ sendingAll' = FALSE
    /\ ceCalls' = (ceCalls \ {c}) \union
           (IF c.got = Nil THEN {} ELSE {[c EXCEPT !.op = "list", !.at = "sent", !.got = Nil]})
    /\ rosterError' = (rosterError \/ c.got = Nil)
    /\ UNCHANGED <<ceShown, ceLoadError, ceSettings, roster, sendingId>>

CeNext ==
    \/ UploadTemplate \/ RemoveTemplate \/ HandleSaveSettings
    \/ \E m \in Modes : SelectMode(m)
    \/ \E h \in Hours \union {Nil} : TypeDelay(h)
    \/ \E p \in Attendees : ClickSendOne(p) \/ WorkerSends(p) \/ WorkerFails(p)
    \/ ClickSendAll \/ SweepDispatches
    \/ \E c \in ceCalls :
        \/ ServeSettings(c) \/ ServeRoster(c) \/ ServeTemplate(c) \/ ServeSaveSettings(c)
        \/ RefuseSettings(c) \/ ServeSendOne(c) \/ ServeSendAll(c) \/ LoseCeCall(c)
        \/ SettingsArrive(c) \/ TemplateArrives(c) \/ SavedSettingsArrive(c)
        \/ RosterArrives(c) \/ SentOneArrives(c) \/ SentAllArrives(c)

CeSpec == CeInit /\ [][CeNext]_ceVars

----------------------------------------------------------------------------
CeTypeOK ==
    /\ settings \in [template : Templates, mode : Modes, delay : (0 .. 720) \union {Nil},
                     dispatched : BOOLEAN]
    /\ sentAt \union jobs \union dropped \subseteq Attendees
    /\ ceForm \in [template : Templates, mode : Modes, delay : Hours \union (0 .. 720) \union {Nil}]
    /\ roster # Nil => roster \subseteq Attendees
    /\ sendingId \in Attendees \union {Nil}
    /\ {ceShown, ceLoadError, ceError, ceSaved, ceTouched, ceSaving} \subseteq BOOLEAN
    /\ {rosterError, sendingAll} \subseteq BOOLEAN
    /\ ceSaving <=> \E c \in ceCalls : c.op = "save"
    /\ sendingAll <=> \E c \in ceCalls : c.op = "all"

\* certificate/page.tsx:106-107 marks a row `Enviado' when its job is queued: every
\* row so marked has its certificate, a waiting job, or a job that failed or found
\* no template, however sends, reloads, sweeps and the worker interleave.
ShownSentIsOnItsWay == roster # Nil => roster \subseteq sentAt \union jobs \union dropped

\* certificate/page.tsx:225: 'Salvo' stands beside settings that are stored, unless
\* they were edited after the click; a removed template keeps its stored URL.
SavedSettingsAreStored ==
    ceSaved /\ ~ceTouched =>
        /\ settings.mode = ceForm.mode
        /\ settings.delay = ToHours(ceForm.delay)
        /\ ceForm.template \in {Nil, settings.template}
=============================================================================
