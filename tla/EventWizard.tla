---------------------------- MODULE EventWizard ----------------------------
(***************************************************************************)
(* The new-event wizard, app/dashboard/events/new/page.tsx, before         *)
(* EventsService.create and the validation of CreateEventDto.              *)
(*                                                                         *)
(* An entry is as good as the checks it passes: "bad" is refused by its    *)
(* step, "gap" passes the step and is refused by the DTO (a name of 300    *)
(* characters, a price of 1.005, a quantity of 2.5), "good" passes both.   *)
(***************************************************************************)
EXTENDS Integers, Sequences, FiniteSets

CONSTANTS
    MaxDays,        \* bound: rows of dates
    MaxTickets,     \* bound: ticket types
    MaxEntries,     \* bound: edits
    MaxCreates,     \* bound: clicks on 'Criar evento'
    MaxWizLosses    \* bound: answers lost

ASSUME WizardBounds ==
    /\ MaxDays \in Nat \ {0}
    /\ {MaxTickets, MaxEntries, MaxCreates, MaxWizLosses} \subseteq Nat

VARIABLES
    step,           \* 0 Detalhes, 1 Datas, 2 Ingressos, 3 Revisao
    details,        \* the worst of name and cover image
    days,           \* TRUE where a date is filled in
    tickets,        \* the worst field of each ticket
    wizError,
    submitting,
    creates,        \* calls under way
    created,        \* the events made: their payloads, by click
    gone,           \* router.replace has been called
    entries, wizClicks, wizLosses

draft == <<details, days, tickets>>
wizVars == <<step, draft, wizError, submitting, creates, created, gone,
             entries, wizClicks, wizLosses>>

Quality == {"bad", "gap", "good"}
LastStep == 3

WizInit ==
    /\ step = 0
    /\ details = "bad"
    /\ days = <<FALSE>>
    /\ tickets = <<>>
    /\ wizError = FALSE
    /\ submitting = FALSE
    /\ creates = {}
    /\ created = {}
    /\ gone = FALSE
    /\ entries = 0 /\ wizClicks = 0 /\ wizLosses = 0

FilledDays == {i \in DOMAIN days : days[i]}

\* A plausible slip, not part of WizNext: rows of dates are counted, not dates.
ValidCountingRows(k) ==
    /\ k = 0 => details # "bad"
    /\ k = 1 => days # <<>>
    /\ k = 2 => \A i \in DOMAIN tickets : tickets[i] # "bad"

\* validateStep finds nothing against step k.
Valid(k) ==
    /\ k = 0 => details # "bad"
    /\ k = 1 => FilledDays # {}
    /\ k = 2 => \A i \in DOMAIN tickets : tickets[i] # "bad"

(***************************************************************************)
(* Entries: each step shows its own fields                                 *)
(***************************************************************************)

Enter(k) ==
    /\ step = k
    /\ entries < MaxEntries
    /\ entries' = entries + 1
    /\ UNCHANGED <<step, wizError, submitting, creates, created, gone, wizClicks, wizLosses>>

EditDetails(q) == Enter(0) /\ details' = q /\ UNCHANGED <<days, tickets>>

Without(s, i) == SubSeq(s, 1, i - 1) \o SubSeq(s, i + 1, Len(s))

EditDays ==
    /\ Enter(1)
    /\ \/ Len(days) < MaxDays /\ days' = Append(days, FALSE)
       \/ \E i \in DOMAIN days : days' = [days EXCEPT ![i] = ~@]
       \/ Len(days) > 1 /\ \E i \in DOMAIN days : days' = Without(days, i)
    /\ UNCHANGED <<details, tickets>>

EditTickets ==
    /\ Enter(2)
    /\ \/ Len(tickets) < MaxTickets /\ tickets' = Append(tickets, "bad")
       \/ \E i \in DOMAIN tickets, q \in Quality : tickets' = [tickets EXCEPT ![i] = q]
       \/ \E i \in DOMAIN tickets : tickets' = Without(tickets, i)
    /\ UNCHANGED <<details, days>>

Kept == UNCHANGED <<draft, entries>>

GoNext ==
    /\ step < LastStep
    /\ wizError' = ~Valid(step)
    /\ step' = IF Valid(step) THEN step + 1 ELSE step
    /\ UNCHANGED <<submitting, creates, created, gone, wizClicks, wizLosses>> /\ Kept

\* Also while the event is being created: nothing disables the button.
GoBack ==
    /\ step > 0
    /\ wizError' = FALSE
    /\ step' = step - 1
    /\ UNCHANGED <<submitting, creates, created, gone, wizClicks, wizLosses>> /\ Kept

(***************************************************************************)
(* Creating                                                                *)
(***************************************************************************)

\* Blank dates are left out of the payload.
Create ==
    /\ step = LastStep /\ ~submitting
    /\ wizClicks < MaxCreates
    /\ wizClicks' = wizClicks + 1
    /\ wizError' = FALSE
    /\ submitting' = TRUE
    /\ creates' = creates \union
           {[no |-> wizClicks + 1, details |-> details, dates |-> Cardinality(FilledDays),
             tickets |-> tickets, at |-> "sent"]}
    /\ UNCHANGED <<step, created, gone, wizLosses>> /\ Kept

\* What CreateEventDto accepts.
Accepted(c) ==
    /\ c.details = "good" /\ c.dates > 0
    /\ \A i \in DOMAIN c.tickets : c.tickets[i] = "good"

\* The event, its days and its ticket types in one statement.
ServeCreate(c) ==
    /\ c \in creates /\ c.at = "sent"
    /\ creates' = (creates \ {c}) \union
           {[c EXCEPT !.at = IF Accepted(c) THEN "made" ELSE "refused"]}
    /\ created' = IF Accepted(c) THEN created \union {c.no} ELSE created
    /\ UNCHANGED <<step, wizError, submitting, gone, wizClicks, wizLosses>> /\ Kept

\* The call or its answer is lost.
LoseCreate(c) ==
    /\ wizLosses < MaxWizLosses
    /\ wizLosses' = wizLosses + 1
    /\ c \in creates
    /\ creates' = (creates \ {c}) \union {[c EXCEPT !.at = "refused"]}
    /\ UNCHANGED <<step, wizError, submitting, created, gone, wizClicks>> /\ Kept

\* A plausible slip, not part of WizNext: submitting is reset in a `finally'.
CreateAnsweredFinally(c) ==
    /\ c \in creates /\ c.at = "made"
    /\ creates' = creates \ {c}
    /\ gone' = TRUE
    /\ submitting' = FALSE
    /\ UNCHANGED <<step, wizError, created, wizClicks, wizLosses>> /\ Kept

\* The router leaves in its own time; the button stays disabled until then.
CreateAnswered(c) ==
    /\ c \in creates /\ c.at = "made"
    /\ creates' = creates \ {c}
    /\ gone' = TRUE
    /\ UNCHANGED <<step, wizError, submitting, created, wizClicks, wizLosses>> /\ Kept

CreateFails(c) ==
    /\ c \in creates /\ c.at = "refused"
    /\ creates' = creates \ {c}
    /\ wizError' = TRUE
    /\ submitting' = FALSE
    /\ UNCHANGED <<step, created, gone, wizClicks, wizLosses>> /\ Kept

WizNext ==
    \/ \E q \in Quality : EditDetails(q)
    \/ EditDays \/ EditTickets \/ GoNext \/ GoBack \/ Create
    \/ \E c \in creates : ServeCreate(c) \/ LoseCreate(c) \/ CreateAnswered(c) \/ CreateFails(c)

WizSpec == WizInit /\ [][WizNext]_wizVars

----------------------------------------------------------------------------
WizTypeOK ==
    /\ step \in 0 .. LastStep
    /\ details \in Quality /\ days \in Seq(BOOLEAN) /\ tickets \in Seq(Quality)
    /\ Len(days) \in 1 .. MaxDays /\ Len(tickets) <= MaxTickets
    /\ {wizError, submitting, gone} \subseteq BOOLEAN
    /\ Cardinality(creates) <= 1 /\ created \subseteq 1 .. MaxCreates

\* new/page.tsx:24-25 ('to catch typos before the final submit'): going back and
\* forth, nothing that a step refuses ever reaches the API.
SentIsReviewed ==
    \A c \in creates :
        /\ c.details # "bad" /\ c.dates > 0
        /\ \A i \in DOMAIN c.tickets : c.tickets[i] # "bad"

\* One wizard makes one event, whenever its buttons are clicked again, unless an
\* answer was lost (new/page.tsx:112-118 then offers to create it again).
OneEventEach == Cardinality(created) <= 1 + wizLosses
=============================================================================
