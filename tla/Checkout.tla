------------------------------ MODULE Checkout ------------------------------
(***************************************************************************)
(* Selling tickets: backend/src/checkout/checkout.service.ts.              *)
(*                                                                         *)
(* createOrder and the webhook handler are sequences of awaits; a step is  *)
(* one round trip to Postgres or to Asaas.  Asaas and the buyer are        *)
(* external, modelled from what the code expects of them: a charge that is *)
(* opened may be paid, and every event of it is posted to the webhook      *)
(* until a post is answered with 200.                                      *)
(***************************************************************************)
EXTENDS Integers, FiniteSets

CONSTANTS
    Orders,         \* calls of createOrder, each with the order it may create
    Tickets,        \* ticket types of the event
    TicketOf,       \* dto.ticketTypeId of each call
    FirstStock,     \* quantityAvailable of each ticket type at first
    Workers,        \* webhook posts the backend handles at once
    MaxFails,       \* bound: calls that throw or die midway
    Nil             \* a worker without a post

ASSUME OrdersFinite == IsFiniteSet(Orders)
ASSUME OrdersHaveTickets == TicketOf \in [Orders -> Tickets]
ASSUME StockIsCounted == FirstStock \in [Tickets -> Int]
ASSUME FailsAreCounted == MaxFails \in Nat

VARIABLES
    open,        \* Postgres: the event is PUBLISHED
    ended,       \* ticket types whose saleEndsAt has passed
    stock,       \* Postgres: quantityAvailable
    status,      \* Postgres: orders.status, "NONE" without a row
    linked,      \* Postgres: orders whose asaasPaymentId is stored
    attendees,   \* Postgres: number of participants of each order
    charge,      \* Asaas: the charge of each order
    notices,     \* Asaas: events it has not had a 200 for
    early,       \* orders paid before their asaasPaymentId was stored
    unknown,     \* the log: settlements answered as of an unknown payment
    call,        \* where the buyer's createOrder is
    pc,          \* where each worker is
    post,        \* the order and event of the post it handles
    fails

event == <<open, ended>>
db == <<stock, status, linked, attendees>>
asaas == <<charge, notices>>
worker == <<pc, post>>
history == <<early, unknown>>
vars == <<event, db, asaas, history, call, worker, fails>>

----------------------------------------------------------------------------
Kinds == {"PAYMENT_CREATED", "PAYMENT_CONFIRMED", "PAYMENT_RECEIVED"}
AllEvents == Kinds   \* a plausible slip: every event of a charge provisions
PAID_EVENTS == {"PAYMENT_CONFIRMED", "PAYMENT_RECEIVED"}

Notices == Orders \X Kinds
Calls == {"idle", "create", "charge", "link", "answered", "refused", "error"}

\* The order a worker's post is about.
About(w) == post[w][1]

Init ==
    /\ open \in BOOLEAN
    /\ ended = {}
    /\ stock = FirstStock
    /\ status = [o \in Orders |-> "NONE"]
    /\ linked = {}
    /\ attendees = [o \in Orders |-> 0]
    /\ charge = [o \in Orders |-> "none"]
    /\ notices = {}
    /\ early = {}
    /\ unknown = {}
    /\ call = [o \in Orders |-> "idle"]
    /\ pc = [w \in Workers |-> "idle"]
    /\ post = [w \in Workers |-> Nil]
    /\ fails = 0

Move(o, from, to) == call[o] = from /\ call' = [call EXCEPT ![o] = to]
Go(w, from, to) == pc[w] = from /\ pc' = [pc EXCEPT ![w] = to]

\* Answer 200 to the post: Asaas drops the event.
Ack(w, from) ==
    /\ Go(w, from, "idle")
    /\ post' = [post EXCEPT ![w] = Nil]
    /\ notices' = notices \ {post[w]}

\* Answer an error: Asaas keeps the event.
Nack(w) ==
    /\ pc' = [pc EXCEPT ![w] = "idle"]
    /\ post' = [post EXCEPT ![w] = Nil]

\* What the transaction writes; attendance rows come with the participant.
Provision(o) ==
    /\ status' = [status EXCEPT ![o] = "PAID"]
    /\ attendees' = [attendees EXCEPT ![o] = @ + 1]
    /\ stock' = [stock EXCEPT ![TicketOf[o]] = @ - 1]
    /\ UNCHANGED linked

(***************************************************************************)
(* Plausible slips; none is part of Next.                                  *)
(***************************************************************************)

\* No unique order_id backs the status check up.
CommitTwice(w) ==
    /\ Go(w, "tx", "done")
    /\ Provision(About(w))
    /\ UNCHANGED <<event, asaas, history, call, post, fails>>

\* The handler answers before the work is done.
AckEarly(w, o, kind) ==
    /\ Go(w, "idle", "find")
    /\ <<o, kind>> \in notices /\ kind \in PAID_EVENTS
    /\ post' = [post EXCEPT ![w] = <<o, kind>>]
    /\ notices' = notices \ {<<o, kind>>}
    /\ UNCHANGED <<event, db, charge, history, call, fails>>

\* The order is marked PAID outside the transaction.
FindDueMarks(w) ==
    /\ pc[w] = "find" /\ About(w) \in linked /\ status[About(w)] # "PAID"
    /\ Go(w, "find", "begin")
    /\ status' = [status EXCEPT ![About(w)] = "PAID"]
    /\ UNCHANGED <<event, stock, linked, attendees, asaas, history, call, post, fails>>

(***************************************************************************)
(* createOrder                                                             *)
(***************************************************************************)

\* The event is read with its ticket types: published, on sale, not sold out.
Quote(o) ==
    /\ Move(o, "idle", "create")
    /\ open
    /\ stock[TicketOf[o]] > 0
    /\ TicketOf[o] \notin ended
    /\ UNCHANGED <<event, db, asaas, history, worker, fails>>

Refuse(o) ==
    /\ Move(o, "idle", "refused")
    /\ ~open \/ stock[TicketOf[o]] <= 0 \/ TicketOf[o] \in ended
    /\ UNCHANGED <<event, db, asaas, history, worker, fails>>

CreateOrder(o) ==
    /\ Move(o, "create", "charge")
    /\ status' = [status EXCEPT ![o] = "PENDING"]
    /\ UNCHANGED <<event, stock, linked, attendees, asaas, history, worker, fails>>

\* createPayment, under the tenant's key or the platform's.
OpenCharge(o) ==
    /\ Move(o, "charge", "link")
    /\ charge' = [charge EXCEPT ![o] = "open"]
    /\ notices' = notices \union {<<o, "PAYMENT_CREATED">>}
    /\ UNCHANGED <<event, db, history, worker, fails>>

\* Store asaasPaymentId, and answer with the payment URL.
LinkPayment(o) ==
    /\ Move(o, "link", "answered")
    /\ linked' = linked \union {o}
    /\ UNCHANGED <<event, stock, status, attendees, asaas, history, worker, fails>>

FailCall(o) ==
    /\ fails < MaxFails
    /\ call[o] \in {"create", "charge", "link"}
    /\ call' = [call EXCEPT ![o] = "error"]
    /\ fails' = fails + 1
    /\ UNCHANGED <<event, db, asaas, history, worker>>

(***************************************************************************)
(* handleWebhook and provisionFromPayment                                  *)
(***************************************************************************)

\* Not a settlement: answered at once.
Ignore(o, kind) ==
    /\ <<o, kind>> \in notices
    /\ kind \notin PAID_EVENTS
    /\ notices' = notices \ {<<o, kind>>}
    /\ UNCHANGED <<event, db, charge, history, call, worker, fails>>

Receive(w, o, kind) ==
    /\ Go(w, "idle", "find")
    /\ <<o, kind>> \in notices /\ kind \in PAID_EVENTS
    /\ post' = [post EXCEPT ![w] = <<o, kind>>]
    /\ UNCHANGED <<event, db, asaas, history, call, fails>>

\* No order has this asaasPaymentId: a warning is logged and 200 answered.
FindUnknown(w) ==
    /\ pc[w] = "find" /\ About(w) \notin linked
    /\ Ack(w, "find")
    /\ unknown' = unknown \union {post[w]}
    /\ UNCHANGED <<event, db, charge, early, call, fails>>

FindPaid(w) ==
    /\ pc[w] = "find" /\ About(w) \in linked /\ status[About(w)] = "PAID"
    /\ Ack(w, "find")
    /\ UNCHANGED <<event, db, charge, history, call, fails>>

FindDue(w) ==
    /\ pc[w] = "find" /\ About(w) \in linked /\ status[About(w)] # "PAID"
    /\ Go(w, "find", "begin")
    /\ UNCHANGED <<event, db, asaas, history, call, post, fails>>

\* The transaction's first UPDATE takes the row lock of the order.
BeginTx(w) ==
    /\ Go(w, "begin", "tx")
    /\ \A v \in Workers : pc[v] = "tx" => About(v) # About(w)
    /\ UNCHANGED <<event, db, asaas, history, call, post, fails>>

CommitTx(w) ==
    /\ Go(w, "tx", "done")
    /\ attendees[About(w)] = 0
    /\ Provision(About(w))
    /\ UNCHANGED <<event, asaas, history, call, post, fails>>

Answer(w) ==
    /\ Ack(w, "done")
    /\ UNCHANGED <<event, db, charge, history, call, fails>>

\* The unique order_id refuses a second participant: rollback, and a 500.
ConflictTx(w) ==
    /\ pc[w] = "tx" /\ attendees[About(w)] # 0
    /\ Nack(w)
    /\ UNCHANGED <<event, db, asaas, history, call, fails>>

\* The handler throws or dies: an open transaction is rolled back, and one that
\* has committed stays, though Asaas never hears of it.
FailWorker(w) ==
    /\ fails < MaxFails
    /\ pc[w] # "idle"
    /\ Nack(w)
    /\ fails' = fails + 1
    /\ UNCHANGED <<event, db, asaas, history, call>>

(***************************************************************************)
(* The organizer, the clock, the buyer and Asaas                           *)
(***************************************************************************)

\* events.service.ts update: any status may follow any other.
SetStatus ==
    /\ open' = ~open
    /\ UNCHANGED <<ended, db, asaas, history, call, worker, fails>>

EndSale(t) ==
    /\ ended' = ended \union {t}
    /\ UNCHANGED <<open, db, asaas, history, call, worker, fails>>

\* By the URL createOrder answers, or by the notice of the charge that Asaas
\* mails to the buyer, which need not wait for createOrder.
Pay(o) ==
    /\ charge[o] = "open"
    /\ charge' = [charge EXCEPT ![o] = "confirmed"]
    /\ notices' = notices \union {<<o, "PAYMENT_CONFIRMED">>}
    /\ early' = IF o \in linked THEN early ELSE early \union {o}
    /\ UNCHANGED <<event, db, unknown, call, worker, fails>>

Transfer(o) ==
    /\ charge[o] = "confirmed"
    /\ charge' = [charge EXCEPT ![o] = "received"]
    /\ notices' = notices \union {<<o, "PAYMENT_RECEIVED">>}
    /\ UNCHANGED <<event, db, history, call, worker, fails>>

----------------------------------------------------------------------------
\* createOrder once it has begun.
Proceed(o) == CreateOrder(o) \/ OpenCharge(o) \/ LinkPayment(o)
Buy(o) == Quote(o) \/ Refuse(o) \/ Proceed(o)

Handle(w) ==
    \/ FindUnknown(w) \/ FindPaid(w) \/ FindDue(w)
    \/ BeginTx(w) \/ CommitTx(w) \/ ConflictTx(w) \/ Answer(w)

Deliver(o, kind) == Ignore(o, kind) \/ \E w \in Workers : Receive(w, o, kind)

Environment ==
    \/ SetStatus
    \/ \E t \in Tickets : EndSale(t)
    \/ \E o \in Orders : Pay(o) \/ Transfer(o) \/ FailCall(o)
    \/ \E w \in Workers : FailWorker(w)

Next ==
    \/ \E o \in Orders : Buy(o)
    \/ \E o \in Orders, kind \in Kinds : Deliver(o, kind)
    \/ \E w \in Workers : Handle(w)
    \/ Environment

Spec == Init /\ [][Next]_vars

\* Asaas keeps posting what was not answered; Postgres and Asaas answer the
\* backend, so a call or a handler that has begun keeps moving.
FairSpec ==
    /\ Spec
    /\ \A o \in Orders : WF_vars(Proceed(o))
    /\ \A o \in Orders, kind \in Kinds : WF_vars(Deliver(o, kind))
    /\ \A w \in Workers : WF_vars(Handle(w))

----------------------------------------------------------------------------
(***************************************************************************)
(* Properties                                                              *)
(***************************************************************************)
Settled(o) == charge[o] \in {"confirmed", "received"}

\* Every variable has the shape the code gives it; a worker that is busy has
\* a post that settles a payment.
TypeOK ==
    /\ open \in BOOLEAN
    /\ ended \subseteq Tickets
    /\ stock \in [Tickets -> Int]
    /\ status \in [Orders -> {"NONE", "PENDING", "PAID"}]
    /\ linked \subseteq Orders
    /\ attendees \in [Orders -> {0, 1}]
    /\ charge \in [Orders -> {"none", "open", "confirmed", "received"}]
    /\ notices \subseteq Notices
    /\ early \subseteq Orders
    /\ unknown \subseteq Notices
    /\ call \in [Orders -> Calls]
    /\ pc \in [Workers -> {"idle", "find", "begin", "tx", "done"}]
    /\ post \in [Workers -> Notices \union {Nil}]
    /\ fails \in 0 .. MaxFails
    /\ \A w \in Workers : pc[w] # "idle" => post[w] \in Orders \X PAID_EVENTS

Promise == INSTANCE Admissions
    WITH settled <- {o \in Orders : Settled(o)},
         admitted <- {o \in Orders : attendees[o] > 0},
         stock <- stock

\* However posts are repeated, overlap, fail and are retried, checkout does
\* what Admissions says: one attendee and one ticket per settled order.
ExactlyOnce == Promise!Spec

\* Asaas has had its 200 for this settlement, and will not post it again.
Acked(o, kind) ==
    /\ charge[o] \in IF kind = "PAYMENT_CONFIRMED" THEN {"confirmed", "received"} ELSE {"received"}
    /\ <<o, kind>> \notin notices

\* An answer of 200 to a settlement means a PAID order with its attendee. There
\* is one exception, the code's own: the payment was unknown, which happens
\* only to a charge paid before createOrder had stored its asaasPaymentId.
AckedIsProvisioned ==
    \A o \in Orders, kind \in PAID_EVENTS :
        Acked(o, kind) =>
            \/ status[o] = "PAID" /\ attendees[o] = 1
            \/ <<o, kind>> \in unknown /\ o \in early

\* The order, its attendee and the stock move together: whatever dies midway,
\* the PAID orders, those with an attendee and the tickets gone agree.
BooksBalance ==
    /\ \A o \in Orders : status[o] = "PAID" <=> attendees[o] = 1
    /\ \A t \in Tickets :
          stock[t] = FirstStock[t]
                     - Cardinality({o \in Orders : status[o] = "PAID" /\ TicketOf[o] = t})

\* A buyer whose payment settled gets the attendee in the end, unless the
\* settlement of a charge paid that early was answered as unknown.
SettledIsProvisioned ==
    \A o \in Orders :
        Settled(o) ~>
            \/ attendees[o] = 1
            \/ <<o, "PAYMENT_CONFIRMED">> \in unknown /\ o \in early

\* backend/README.md:77-79: a settled payment marks the order PAID and
\* provisions the attendee, so once Asaas is done posting both there is one.
SettlementProvisions ==
    \A o \in Orders :
        (\A kind \in PAID_EVENTS : Acked(o, kind)) => status[o] = "PAID" /\ attendees[o] = 1

\* checkout.service.ts:49-50 refuses an order once the ticket type is sold out:
\* no more tickets are provisioned than there were.
NeverOversold ==
    \A t \in Tickets : FirstStock[t] >= 0 => stock[t] >= 0
=============================================================================
