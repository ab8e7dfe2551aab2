----------------------------- MODULE EventPage -----------------------------
(***************************************************************************)
(* The page of one event, app/dashboard/events/[id]/page.tsx, before       *)
(* EventsService.update and the will-not-attend flag.                      *)
(*                                                                         *)
(* The form, the status buttons and the guest list submit on their own, so *)
(* their calls overlap; each answer of an update replaces the whole event  *)
(* shown, and each answered flag the whole list as it was at its click.    *)
(***************************************************************************)
EXTENDS Integers, FiniteSets, Values

CONSTANTS
    Texts,          \* what the organizer writes
    Empty,          \* an optional field left blank
    Guests,
    MaxEvClicks,    \* bound: clicks and edits
    MaxEvLosses     \* bound: failed calls

ASSUME EmptyIsNoText == Empty \notin Texts /\ Texts # {}
ASSUME EvBounds == MaxEvClicks \in Nat /\ MaxEvLosses \in Nat

VARIABLES
    row,            \* the stored event: name, description, status
    flags,          \* the guests stored as not coming
    event,          \* the event shown, with the time of its read; or Nil
    loadError,
    evForm,         \* name and description; location is as description
    saving, saved,
    changingStatus, confirmingEnd,
    participants,   \* the flags shown, Nil while loading
    toggling,       \* the last guest whose flag was clicked
    evCalls,
    evWrites,       \* history: updates so far
    evStale,        \* history: an update's answer was lost or came after a newer one
    evTouched,      \* history: the form was edited since it was last submitted
    guestsMuddled,  \* history: two flags overlapped, or the answer of one was lost
    evClicks, evLosses

evDraft == <<evForm, saving, saved, evTouched>>
status == <<changingStatus, confirmingEnd>>
guestList == <<participants, toggling, guestsMuddled>>
evVars == <<row, flags, event, loadError, evDraft, status, guestList, evCalls,
            evWrites, evStale, evClicks, evLosses>>

Statuses == {"DRAFT", "PUBLISHED", "FINISHED"}
EvRows == [name : Texts, description : Texts \union {Empty}, status : Statuses]
EvReads == [row : EvRows, read : Nat]
GuestLists == UNION {[shown -> BOOLEAN] : shown \in SUBSET Guests}

ASSUME NilIsNoEvAnswer == Nil \notin EvReads \union GuestLists \union {TRUE}

At(time) == [row |-> row, read |-> time]

EvInit ==
    /\ row \in EvRows
    /\ flags = {}
    /\ event = Nil
    /\ loadError = FALSE
    /\ evForm = [name |-> Empty, description |-> Empty]
    /\ saving = FALSE /\ saved = FALSE
    /\ changingStatus = FALSE /\ confirmingEnd = FALSE
    /\ participants = Nil
    /\ toggling = Nil
    /\ evClicks = 0 /\ evLosses = 0
    /\ evCalls = {[op |-> op, data |-> Nil, no |-> 0, at |-> "sent", got |-> Nil] :
                     op \in {"get", "list"}}
    /\ evWrites = 0
    /\ evStale = FALSE /\ evTouched = FALSE /\ guestsMuddled = FALSE

Loaded == event # Nil /\ ~loadError
EvClick == evClicks < MaxEvClicks /\ evClicks' = evClicks + 1
EvSend(op, data) ==
    evCalls' = evCalls \union
        {[op |-> op, data |-> data, no |-> evClicks + 1, at |-> "sent", got |-> Nil]}
Stored == UNCHANGED <<row, flags, evWrites, evLosses>>

(***************************************************************************)
(* Clicks                                                                  *)
(***************************************************************************)

EditForm(f, text) ==
    /\ Loaded /\ EvClick
    /\ evForm[f] # text
    /\ evForm' = [evForm EXCEPT ![f] = text]
    /\ evTouched' = TRUE
    /\ UNCHANGED <<event, loadError, saving, saved, status, guestList, evCalls, evStale>> /\ Stored

\* The whole form is sent; what is blank is undefined, and so left as it is.
HandleSave ==
    /\ Loaded /\ ~saving /\ EvClick
    /\ evForm.name # Empty
    /\ saving' = TRUE /\ saved' = FALSE /\ evTouched' = FALSE
    /\ EvSend("save", evForm)
    /\ UNCHANGED <<event, loadError, evForm, status, guestList, evStale>> /\ Stored

ChangeStatus(from, to) ==
    /\ Loaded /\ event.row.status = from
    /\ ~changingStatus /\ EvClick
    /\ changingStatus' = TRUE /\ confirmingEnd' = FALSE
    /\ EvSend("status", to)
    /\ UNCHANGED <<event, loadError, evDraft, guestList, evStale>> /\ Stored

Publish == ChangeStatus("DRAFT", "PUBLISHED")
Reopen == ChangeStatus("FINISHED", "PUBLISHED")
End == confirmingEnd /\ ChangeStatus("PUBLISHED", "FINISHED")

\* Ending takes two clicks; nothing disables the first one.
AskToEnd ==
    /\ Loaded /\ event.row.status = "PUBLISHED" /\ ~confirmingEnd
    /\ EvClick
    /\ confirmingEnd' = TRUE
    /\ UNCHANGED <<event, loadError, evDraft, changingStatus, guestList, evCalls, evStale>> /\ Stored

\* 4 s without the second click.
ConfirmTimesOut ==
    /\ confirmingEnd
    /\ confirmingEnd' = FALSE
    /\ UNCHANGED <<event, loadError, evDraft, changingStatus, guestList, evCalls, evStale, evClicks>>
    /\ Stored

\* toggleWillNotAttend closes over the list it was rendered with.
ToggleWillNotAttend(g) ==
    /\ Loaded /\ participants # Nil /\ g \in DOMAIN participants
    /\ toggling # g /\ EvClick
    /\ toggling' = g
    /\ guestsMuddled' = (guestsMuddled \/ \E c \in evCalls : c.op = "flag")
    /\ EvSend("flag", [guest |-> g, value |-> ~participants[g], list |-> participants])
    /\ UNCHANGED <<event, loadError, evDraft, status, participants, evStale>> /\ Stored

(***************************************************************************)
(* EventsService and the flag                                              *)
(***************************************************************************)

EvAnswer(c, got) ==
    /\ c \in evCalls /\ c.at = "sent"
    /\ evCalls' = (evCalls \ {c}) \union {[c EXCEPT !.at = "answered", !.got = got]}
    /\ UNCHANGED <<event, loadError, evDraft, status, guestList, evStale, evClicks, evLosses>>

\* What update makes of the row; an undefined field is not written.
Updated(c) ==
    IF c.op = "status" THEN [row EXCEPT !.status = c.data]
    ELSE [row EXCEPT !.name = c.data.name,
                     !.description = IF c.data.description = Empty THEN @ ELSE c.data.description]

\* A plausible slip, not part of EvNext: update answers the row findOne read.
ServeUpdateFound(c) ==
    /\ c.op \in {"save", "status"}
    /\ row' = Updated(c)
    /\ evWrites' = evWrites + 1
    /\ EvAnswer(c, [row |-> row, read |-> evWrites + 1])
    /\ UNCHANGED flags

ServeUpdate(c) ==
    /\ c.op \in {"save", "status"}
    /\ row' = Updated(c)
    /\ evWrites' = evWrites + 1
    /\ EvAnswer(c, [row |-> Updated(c), read |-> evWrites + 1])
    /\ UNCHANGED flags

ServeEvent(c) == c.op = "get" /\ EvAnswer(c, At(evWrites)) /\ UNCHANGED <<row, flags, evWrites>>

ServeGuests(c) ==
    /\ c.op = "list"
    /\ EvAnswer(c, [g \in Guests |-> g \in flags])
    /\ UNCHANGED <<row, flags, evWrites>>

ServeFlag(c) ==
    /\ c.op = "flag"
    /\ flags' = IF c.data.value THEN flags \union {c.data.guest} ELSE flags \ {c.data.guest}
    /\ EvAnswer(c, TRUE)
    /\ UNCHANGED <<row, evWrites>>

\* The call or its answer is lost, or the DTO refuses it.
LoseEvCall(c) ==
    /\ evLosses < MaxEvLosses /\ c \in evCalls
    /\ evLosses' = evLosses + 1
    /\ evCalls' = (evCalls \ {c}) \union {[c EXCEPT !.at = "answered", !.got = Nil]}
    /\ evStale' = (evStale \/ c.op \in {"save", "status"})
    /\ guestsMuddled' = (guestsMuddled \/ c.op = "flag")
    /\ UNCHANGED <<row, flags, evWrites, event, loadError, evDraft, status, participants, toggling, evClicks>>

(***************************************************************************)
(* Answers                                                                 *)
(***************************************************************************)

EvArrive(c) ==
    /\ c \in evCalls /\ c.at = "answered"
    /\ evCalls' = evCalls \ {c}
    /\ UNCHANGED evClicks /\ Stored

EventArrives(c) ==
    /\ c.op = "get" /\ EvArrive(c)
    /\ event' = c.got
    /\ loadError' = (c.got = Nil)
    /\ evForm' = IF c.got = Nil THEN evForm
                 ELSE [name |-> c.got.row.name, description |-> c.got.row.description]
    /\ UNCHANGED <<saving, saved, evTouched, status, guestList, evStale>>

\* setEvent with the answer, whichever update it is of.
ShowEvent(c) ==
    IF c.got = Nil THEN UNCHANGED <<event, evStale>>
    ELSE /\ event' = c.got
         /\ evStale' = (evStale \/ event.read > c.got.read)

\* A plausible slip, not part of EvNext: `Salvo' is shown in the finally.
SaveArrivesFinally(c) ==
    /\ c.op = "save" /\ EvArrive(c)
    /\ ShowEvent(c)
    /\ saving' = FALSE /\ saved' = TRUE
    /\ UNCHANGED <<loadError, evForm, evTouched, status, guestList>>

SaveArrives(c) ==
    /\ c.op = "save" /\ EvArrive(c)
    /\ ShowEvent(c)
    /\ saving' = FALSE /\ saved' = (c.got # Nil)
    /\ UNCHANGED <<loadError, evForm, evTouched, status, guestList>>

StatusArrives(c) ==
    /\ c.op = "status" /\ EvArrive(c)
    /\ ShowEvent(c)
    /\ changingStatus' = FALSE
    /\ UNCHANGED <<loadError, evDraft, confirmingEnd, guestList>>

\* A failed list is shown as an empty one.
GuestsArrive(c) ==
    /\ c.op = "list" /\ EvArrive(c)
    /\ participants' = IF c.got = Nil THEN [g \in {} |-> FALSE] ELSE c.got
    /\ UNCHANGED <<event, loadError, evDraft, status, toggling, guestsMuddled, evStale>>

FlagArrives(c) ==
    /\ c.op = "flag" /\ EvArrive(c)
    /\ toggling' = Nil
    /\ participants' = IF c.got = Nil THEN participants
                       ELSE [c.data.list EXCEPT ![c.data.guest] = ~@]
    /\ UNCHANGED <<event, loadError, evDraft, status, guestsMuddled, evStale>>

EvNext ==
    \/ \E t \in Texts : EditForm("name", t)
    \/ \E t \in Texts \union {Empty} : EditForm("description", t)
    \/ HandleSave \/ Publish \/ Reopen \/ End \/ AskToEnd \/ ConfirmTimesOut
    \/ \E g \in Guests : ToggleWillNotAttend(g)
    \/ \E c \in evCalls :
        \/ ServeUpdate(c) \/ ServeEvent(c) \/ ServeGuests(c) \/ ServeFlag(c) \/ LoseEvCall(c)
        \/ EventArrives(c) \/ SaveArrives(c) \/ StatusArrives(c) \/ GuestsArrive(c) \/ FlagArrives(c)

EvSpec == EvInit /\ [][EvNext]_evVars

----------------------------------------------------------------------------
EvTypeOK ==
    /\ row \in EvRows /\ flags \subseteq Guests
    /\ event # Nil => event.row \in EvRows /\ event.read \in 0 .. evWrites
    /\ evForm \in [name : Texts \union {Empty}, description : Texts \union {Empty}]
    /\ participants # Nil => DOMAIN participants \subseteq Guests
    /\ toggling \in Guests \union {Nil}
    /\ {loadError, saving, saved, changingStatus, confirmingEnd,
        evStale, evTouched, guestsMuddled} \subseteq BOOLEAN
    /\ saving <=> \E c \in evCalls : c.op = "save"
    /\ changingStatus <=> \E c \in evCalls : c.op = "status"

Waiting(ops) == \E c \in evCalls : c.op \in ops

\* page.tsx:103 and :117 take the answers of two overlapping updates as they
\* come, :442-446 each flag's list as of its click: with nothing lost, overtaken
\* or overlapped, the title, the status and the guests shown are those stored.
EventPageIsTrue ==
    /\ (event # Nil /\ ~evStale /\ ~Waiting({"save", "status"})) => event.row = row
    /\ (participants # Nil /\ ~guestsMuddled /\ ~Waiting({"flag"})) =>
           \A g \in DOMAIN participants : participants[g] <=> g \in flags

\* page.tsx:315: 'Salvo' stands beside a form that is stored, unless it was edited
\* after it was sent; a field left blank keeps its stored text.
SavedFormIsStored ==
    saved /\ ~evTouched =>
        /\ row.name = evForm.name
        /\ evForm.description \in {Empty, row.description}
=============================================================================
