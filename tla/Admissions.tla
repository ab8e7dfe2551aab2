----------------------------- MODULE Admissions -----------------------------
(***************************************************************************)
(* What checkout promises: however often the payment provider reports a    *)
(* settled payment, its order is admitted exactly once, and each admission *)
(* takes exactly one ticket from the stock.                                *)
(***************************************************************************)
EXTENDS Integers

CONSTANTS
    Orders,
    Tickets,
    TicketOf,      \* the ticket type an order is for
    FirstStock     \* quantityAvailable of each ticket type at first

VARIABLES
    settled,       \* orders whose money has arrived
    admitted,      \* orders that have their attendee
    stock          \* tickets left of each type; may go negative

Init ==
    /\ settled = {}
    /\ admitted = {}
    /\ stock = FirstStock

Settle(o) ==
    /\ o \notin settled
    /\ settled' = settled \union {o}
    /\ UNCHANGED <<admitted, stock>>

Admit(o) ==
    /\ o \in settled \ admitted
    /\ admitted' = admitted \union {o}
    /\ stock' = [stock EXCEPT ![TicketOf[o]] = @ - 1]
    /\ UNCHANGED settled

Next == \E o \in Orders : Settle(o) \/ Admit(o)

Spec == Init /\ [][Next]_<<settled, admitted, stock>>
=============================================================================
