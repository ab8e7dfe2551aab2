--------------------------- MODULE CheckoutProofs ---------------------------
(* Theorems about Checkout, for any number of orders, tickets and workers.  *)
EXTENDS Checkout, FiniteSetTheorems, TLAPS

USE DEF event, db, asaas, history, worker, Move, Go

LEMMA TypeInit == Init => TypeOK
BY OrdersHaveTickets, StockIsCounted, FailsAreCounted DEF Init, TypeOK, Notices, Calls

LEMMA AckShape ==
    ASSUME TypeOK, NEW w \in Workers, NEW from, Ack(w, from)
    PROVE  /\ pc' = [pc EXCEPT ![w] = "idle"]
           /\ pc' \in [Workers -> {"idle", "find", "begin", "tx", "done"}]
           /\ post' \in [Workers -> Notices \union {Nil}]
           /\ \A v \in Workers : pc'[v] # "idle" => v # w /\ pc'[v] = pc[v] /\ post'[v] = post[v]
           /\ notices' \subseteq notices
BY DEF Ack, TypeOK

LEMMA NackShape ==
    ASSUME TypeOK, NEW w \in Workers, Nack(w)
    PROVE  /\ pc' \in [Workers -> {"idle", "find", "begin", "tx", "done"}]
           /\ post' \in [Workers -> Notices \union {Nil}]
           /\ \A v \in Workers : pc'[v] # "idle" => v # w /\ pc'[v] = pc[v] /\ post'[v] = post[v]
BY DEF Nack, TypeOK

\* A worker that has a post has an order to work on.
LEMMA AboutIsOrder ==
    ASSUME TypeOK, NEW w \in Workers, pc[w] # "idle"
    PROVE  /\ About(w) \in Orders /\ TicketOf[About(w)] \in Tickets
           /\ \E o \in Orders, kind \in PAID_EVENTS : post[w] = <<o, kind>>
BY OrdersHaveTickets DEF TypeOK, About

LEMMA TypeStep == TypeOK /\ [Next]_vars => TypeOK'
<1> SUFFICES ASSUME TypeOK, [Next]_vars PROVE TypeOK'
  OBVIOUS
<1>1. ASSUME NEW o \in Orders, Buy(o) PROVE TypeOK'
  BY <1>1 DEF Buy, Proceed, Quote, Refuse, CreateOrder, OpenCharge, LinkPayment,
              TypeOK, Calls, Notices, Kinds
<1>2. ASSUME NEW o \in Orders, NEW kind \in Kinds, Deliver(o, kind) PROVE TypeOK'
  <2>1. CASE Ignore(o, kind)
    BY <2>1 DEF Ignore, TypeOK
  <2>2. ASSUME NEW w \in Workers, Receive(w, o, kind) PROVE TypeOK'
    BY <2>2 DEF Receive, TypeOK, Notices
  <2> QED
    BY <1>2, <2>1, <2>2 DEF Deliver
<1>3. ASSUME NEW w \in Workers, Handle(w) PROVE TypeOK'
  <2>1. CASE FindPaid(w) \/ Answer(w)
    BY <2>1, AckShape DEF FindPaid, Answer, TypeOK
  <2>2. CASE FindDue(w) \/ BeginTx(w)
    BY <2>2 DEF FindDue, BeginTx, TypeOK
  <2>3. CASE CommitTx(w)
    <3>1. About(w) \in Orders /\ TicketOf[About(w)] \in Tickets
      BY <2>3, AboutIsOrder DEF CommitTx
    <3>2. attendees' \in [Orders -> {0, 1}] /\ status' \in [Orders -> {"NONE", "PENDING", "PAID"}]
      BY <2>3, <3>1 DEF CommitTx, Provision, TypeOK
    <3>3. stock' \in [Tickets -> Int]
      BY <2>3, <3>1 DEF CommitTx, Provision, TypeOK
    <3> QED
      BY <2>3, <3>2, <3>3 DEF CommitTx, Provision, TypeOK
  <2>4. CASE ConflictTx(w)
    BY <2>4, NackShape DEF ConflictTx, TypeOK
  <2>5. CASE FindUnknown(w)
    <3>1. unknown' \subseteq Notices
      BY <2>5 DEF FindUnknown, TypeOK, Notices, Kinds, PAID_EVENTS
    <3> QED
      BY <2>5, <3>1, AckShape DEF FindUnknown, TypeOK
  <2> QED
    BY <1>3, <2>1, <2>2, <2>3, <2>4, <2>5 DEF Handle
<1>4. CASE Environment
  <2>1. CASE SetStatus \/ \E t \in Tickets : EndSale(t)
    BY <2>1 DEF SetStatus, EndSale, TypeOK
  <2>2. ASSUME NEW o \in Orders, Pay(o) \/ Transfer(o) \/ FailCall(o) PROVE TypeOK'
    BY <2>2, FailsAreCounted DEF Pay, Transfer, FailCall, TypeOK, Notices, Kinds, Calls
  <2>3. ASSUME NEW w \in Workers, FailWorker(w) PROVE TypeOK'
    BY <2>3, NackShape, FailsAreCounted DEF FailWorker, TypeOK
  <2> QED
    BY <1>4, <2>1, <2>2, <2>3 DEF Environment
<1>5. CASE UNCHANGED vars
  BY <1>5 DEF vars, TypeOK
<1> QED
  BY <1>1, <1>2, <1>3, <1>4, <1>5 DEF Next

\* Every reachable state is well shaped; in particular no order ever has two
\* attendees, whatever posts overlap.
THEOREM TypeCorrect == Spec => []TypeOK
BY TypeInit, TypeStep, PTL DEF Spec

----------------------------------------------------------------------------
(***************************************************************************)
(* The books: what is posted, and what is provisioned, has settled.        *)
(***************************************************************************)
NoChargeYet == \A o \in Orders : call[o] \in {"idle", "create", "charge"} => charge[o] = "none"
PaidIsAdmitted == \A o \in Orders : status[o] = "PAID" <=> attendees[o] = 1
PaidIsSettled == \A o \in Orders : status[o] = "PAID" => Settled(o)
NoticesAreTrue == \A o \in Orders, kind \in PAID_EVENTS : <<o, kind>> \in notices => Settled(o)
WorkIsSettled == \A w \in Workers : pc[w] # "idle" => Settled(About(w))
LedgerInv == NoChargeYet /\ PaidIsAdmitted /\ PaidIsSettled /\ NoticesAreTrue /\ WorkIsSettled

\* A charge settles by being paid, and stays settled.
LEMMA SettledFrame ==
    ASSUME TypeOK, NoChargeYet, [Next]_vars, NEW o \in Orders
    PROVE  /\ Settled(o) => Settled(o)'
           /\ Settled(o)' => Settled(o) \/ Pay(o)
<1> USE DEF Settled
<1>1. ASSUME NEW q \in Orders, Buy(q) PROVE Settled(o)' <=> Settled(o)
  BY <1>1 DEF Buy, Proceed, Quote, Refuse, CreateOrder, OpenCharge, LinkPayment, TypeOK, NoChargeYet
<1>2. ASSUME NEW q \in Orders, NEW kind \in Kinds, Deliver(q, kind) PROVE charge' = charge
  BY <1>2 DEF Deliver, Ignore, Receive
<1>3. ASSUME NEW w \in Workers, Handle(w) PROVE charge' = charge
  BY <1>3 DEF Handle, FindUnknown, FindPaid, FindDue, BeginTx, CommitTx, ConflictTx, Answer
<1>4. ASSUME Environment, ~Pay(o) PROVE Settled(o)' <=> Settled(o)
  <2>1. ASSUME NEW q \in Orders, Pay(q) \/ Transfer(q), ~Pay(o) PROVE Settled(o)' <=> Settled(o)
    BY <2>1 DEF Pay, Transfer, TypeOK
  <2> QED
    BY <1>4, <2>1 DEF Environment, SetStatus, EndSale, FailCall, FailWorker
<1>5. Pay(o) => Settled(o)'
  BY DEF Pay, TypeOK
<1> QED
  BY <1>1, <1>2, <1>3, <1>4, <1>5 DEF Next, vars

\* Only a commit admits; status changes besides only by creating the order.
LEMMA BooksFrame ==
    ASSUME TypeOK, [Next]_vars
    PROVE  \/ \E w \in Workers : CommitTx(w)
           \/ /\ UNCHANGED <<stock, attendees>>
              /\ \A o \in Orders : status'[o] = status[o] \/ CreateOrder(o)
<1>1. ASSUME NEW q \in Orders, Buy(q)
      PROVE  /\ UNCHANGED <<stock, attendees>>
             /\ \A o \in Orders : status'[o] = status[o] \/ CreateOrder(o)
  BY <1>1 DEF Buy, Proceed, Quote, Refuse, CreateOrder, OpenCharge, LinkPayment, TypeOK
<1>2. ASSUME NEW q \in Orders, NEW kind \in Kinds, Deliver(q, kind) PROVE UNCHANGED db
  BY <1>2 DEF Deliver, Ignore, Receive
<1>3. ASSUME NEW w \in Workers, Handle(w), ~CommitTx(w) PROVE UNCHANGED db
  BY <1>3 DEF Handle, FindUnknown, FindPaid, FindDue, BeginTx, ConflictTx, Answer
<1>4. CASE Environment
  BY <1>4 DEF Environment, SetStatus, EndSale, Pay, Transfer, FailCall, FailWorker
<1> QED
  BY <1>1, <1>2, <1>3, <1>4 DEF Next, vars

\* New posts are about charges that have just settled.
LEMMA NoticesFrame ==
    ASSUME TypeOK, [Next]_vars, NEW o \in Orders, NEW kind \in PAID_EVENTS,
           <<o, kind>> \in notices'
    PROVE  <<o, kind>> \in notices \/ Pay(o) \/ Transfer(o)
<1>1. ASSUME NEW q \in Orders, Buy(q) PROVE <<o, kind>> \in notices
  BY <1>1 DEF Buy, Proceed, Quote, Refuse, CreateOrder, OpenCharge, LinkPayment, PAID_EVENTS
<1>2. ASSUME NEW q \in Orders, NEW k \in Kinds, Deliver(q, k) PROVE notices' \subseteq notices
  BY <1>2 DEF Deliver, Ignore, Receive
<1>3. ASSUME NEW w \in Workers, Handle(w) PROVE notices' \subseteq notices
  BY <1>3 DEF Handle, FindUnknown, FindPaid, FindDue, BeginTx, CommitTx, ConflictTx, Answer, Ack
<1>4. CASE Environment
  BY <1>4 DEF Environment, SetStatus, EndSale, Pay, Transfer, FailCall, FailWorker
<1> QED
  BY <1>1, <1>2, <1>3, <1>4 DEF Next, vars

\* A busy worker keeps its post; an idle one takes a posted settlement.
LEMMA WorkFrame ==
    ASSUME TypeOK, [Next]_vars, NEW w \in Workers, pc'[w] # "idle"
    PROVE  \/ pc[w] # "idle" /\ post'[w] = post[w]
           \/ \E o \in Orders, kind \in PAID_EVENTS :
                 <<o, kind>> \in notices /\ post'[w] = <<o, kind>>
<1>1. ASSUME NEW o \in Orders, NEW kind \in Kinds, Deliver(o, kind)
      PROVE  \/ pc[w] # "idle" /\ post'[w] = post[w]
             \/ kind \in PAID_EVENTS /\ <<o, kind>> \in notices /\ post'[w] = <<o, kind>>
  BY <1>1 DEF Deliver, Ignore, Receive, TypeOK
<1>2. ASSUME NEW v \in Workers, Handle(v)
      PROVE  pc[w] # "idle" /\ post'[w] = post[w]
  <2>1. CASE FindUnknown(v) \/ FindPaid(v) \/ Answer(v)
    BY <2>1, AckShape DEF FindUnknown, FindPaid, Answer
  <2>2. CASE ConflictTx(v)
    BY <2>2, NackShape DEF ConflictTx
  <2>3. CASE FindDue(v) \/ BeginTx(v) \/ CommitTx(v)
    BY <2>3 DEF FindDue, BeginTx, CommitTx, TypeOK
  <2> QED
    BY <1>2, <2>1, <2>2, <2>3 DEF Handle
<1>3. ASSUME NEW v \in Workers, FailWorker(v)
      PROVE  pc[w] # "idle" /\ post'[w] = post[w]
  BY <1>3, NackShape DEF FailWorker
<1>4. ASSUME NEW o \in Orders, Buy(o) \/ Pay(o) \/ Transfer(o) \/ FailCall(o)
      PROVE  UNCHANGED worker
  BY <1>4 DEF Buy, Proceed, Quote, Refuse, CreateOrder, OpenCharge, LinkPayment, Pay, Transfer, FailCall
<1>5. CASE SetStatus \/ (\E t \in Tickets : EndSale(t)) \/ UNCHANGED vars
  BY <1>5 DEF SetStatus, EndSale, vars
<1> QED
  BY <1>1, <1>2, <1>3, <1>4, <1>5 DEF Next, Environment

\* A commit marks its order PAID, admits it, and takes one of its tickets.
LEMMA CommitEffect ==
    ASSUME TypeOK, NEW w \in Workers, CommitTx(w)
    PROVE  \E o \in Orders :
              /\ o = About(w) /\ attendees[o] = 0
              /\ status' = [status EXCEPT ![o] = "PAID"]
              /\ attendees' = [attendees EXCEPT ![o] = 1]
              /\ stock' = [stock EXCEPT ![TicketOf[o]] = @ - 1]
              /\ UNCHANGED <<asaas, history, linked, call, post>>
<1>1. pc[w] # "idle" /\ attendees[About(w)] = 0
  BY DEF CommitTx
<1>2. PICK o \in Orders : o = About(w)
  BY <1>1, AboutIsOrder
<1>3. attendees[o] + 1 = 1
  BY <1>1, <1>2
<1> QED
  BY <1>1, <1>2, <1>3 DEF CommitTx, Provision

LEMMA LedgerStep == TypeOK /\ LedgerInv /\ [Next]_vars => LedgerInv'
<1> SUFFICES ASSUME TypeOK, LedgerInv, [Next]_vars PROVE LedgerInv'
  OBVIOUS
<1> USE DEF LedgerInv
<1>1. NoChargeYet'
  <2>1. ASSUME NEW q \in Orders, Buy(q) PROVE NoChargeYet'
    BY <2>1 DEF Buy, Proceed, Quote, Refuse, CreateOrder, OpenCharge, LinkPayment, TypeOK, NoChargeYet
  <2>2. ASSUME NEW q \in Orders, Pay(q) \/ Transfer(q) \/ FailCall(q) PROVE NoChargeYet'
    BY <2>2 DEF Pay, Transfer, FailCall, TypeOK, NoChargeYet
  <2>3. ASSUME NEW q \in Orders, NEW kind \in Kinds, Deliver(q, kind) PROVE NoChargeYet'
    BY <2>3 DEF Deliver, Ignore, Receive, NoChargeYet
  <2>4. ASSUME NEW w \in Workers, Handle(w) \/ FailWorker(w) PROVE NoChargeYet'
    BY <2>4 DEF Handle, FindUnknown, FindPaid, FindDue, BeginTx, CommitTx, ConflictTx, Answer,
                FailWorker, NoChargeYet
  <2>5. CASE SetStatus \/ (\E t \in Tickets : EndSale(t)) \/ UNCHANGED vars
    BY <2>5 DEF SetStatus, EndSale, vars, NoChargeYet
  <2> QED
    BY <2>1, <2>2, <2>3, <2>4, <2>5 DEF Next, Environment
<1>2. ASSUME NEW o \in Orders, CreateOrder(o)
      PROVE  ~Settled(o) /\ status[o] # "PAID" /\ attendees[o] = 0 /\ status'[o] = "PENDING"
  BY <1>2 DEF CreateOrder, NoChargeYet, PaidIsAdmitted, PaidIsSettled, Settled, TypeOK
<1>3. PaidIsAdmitted'
  <2>1. ASSUME NEW w \in Workers, CommitTx(w) PROVE PaidIsAdmitted'
    BY <2>1, CommitEffect DEF PaidIsAdmitted, TypeOK
  <2> QED
    BY <1>2, <2>1, BooksFrame DEF PaidIsAdmitted
<1>4. PaidIsSettled'
  <2>1. ASSUME NEW w \in Workers, CommitTx(w) PROVE PaidIsSettled'
    <3>1. PICK q \in Orders : q = About(w) /\ status' = [status EXCEPT ![q] = "PAID"] /\ charge' = charge
      BY <2>1, CommitEffect
    <3>2. Settled(q)
      BY <2>1, <3>1 DEF CommitTx, WorkIsSettled
    <3> QED
      BY <3>1, <3>2 DEF PaidIsSettled, Settled, TypeOK
  <2> QED
    BY <1>2, <2>1, BooksFrame, SettledFrame DEF PaidIsSettled
<1>5. NoticesAreTrue'
  <2>1. ASSUME NEW o \in Orders, Pay(o) \/ Transfer(o) PROVE Settled(o)'
    BY <2>1 DEF Pay, Transfer, Settled, TypeOK
  <2> QED
    BY <2>1, NoticesFrame, SettledFrame DEF NoticesAreTrue
<1>6. ASSUME NEW w \in Workers, pc'[w] # "idle" PROVE Settled(About(w))'
  <2>1. PICK o \in Orders : Settled(o) /\ post'[w][1] = o
    <3>1. CASE pc[w] # "idle" /\ post'[w] = post[w]
      BY <3>1, AboutIsOrder DEF WorkIsSettled, About
    <3>2. CASE \E o \in Orders, kind \in PAID_EVENTS :
                  <<o, kind>> \in notices /\ post'[w] = <<o, kind>>
      BY <3>2 DEF NoticesAreTrue
    <3> QED
      BY <1>6, <3>1, <3>2, WorkFrame
  <2>2. Settled(o)'
    BY <2>1, SettledFrame
  <2> QED
    BY <2>1, <2>2 DEF About, Settled
<1> QED
  BY <1>1, <1>3, <1>4, <1>5, <1>6 DEF WorkIsSettled

LEMMA LedgerInit == Init => LedgerInv
BY DEF Init, LedgerInv, NoChargeYet, PaidIsAdmitted, PaidIsSettled, NoticesAreTrue, WorkIsSettled

LEMMA LedgerHolds == Spec => []LedgerInv
BY LedgerInit, LedgerStep, TypeCorrect, PTL DEF Spec

\* Every step of checkout is a step of Admissions, or none.
LEMMA AdmissionStep ==
    TypeOK /\ LedgerInv /\ [Next]_vars => [Promise!Next]_<<{o \in Orders : Settled(o)},
                                            {o \in Orders : attendees[o] > 0}, stock>>
<1> SUFFICES ASSUME TypeOK, LedgerInv, [Next]_vars
             PROVE  [Promise!Next]_<<{o \in Orders : Settled(o)},
                                     {o \in Orders : attendees[o] > 0}, stock>>
  OBVIOUS
<1>1. ASSUME NEW w \in Workers, CommitTx(w)
      PROVE  \E o \in Orders : Promise!Admit(o)
  <2>1. PICK o \in Orders : /\ o = About(w) /\ attendees[o] = 0
                            /\ attendees' = [attendees EXCEPT ![o] = 1]
                            /\ stock' = [stock EXCEPT ![TicketOf[o]] = @ - 1]
                            /\ charge' = charge
    BY <1>1, CommitEffect
  <2>2. Settled(o)
    BY <1>1, <2>1 DEF CommitTx, LedgerInv, WorkIsSettled
  <2>3. {q \in Orders : attendees'[q] > 0} = {q \in Orders : attendees[q] > 0} \union {o}
    BY <2>1 DEF TypeOK
  <2>4. UNCHANGED {q \in Orders : Settled(q)}
    BY <2>1 DEF Settled
  <2>5. o \notin {q \in Orders : attendees[q] > 0}
    BY <2>1
  <2>6. Promise!Admit(o)
    BY <2>1, <2>2, <2>3, <2>4, <2>5 DEF Promise!Admit
  <2> QED
    BY <2>6
<1>2. ASSUME NEW o \in Orders, Pay(o), UNCHANGED <<stock, attendees>>
      PROVE  Promise!Settle(o)
  <2>1. ~Settled(o) /\ Settled(o)'
    BY <1>2 DEF Pay, Settled, TypeOK
  <2>2. \A q \in Orders : q # o => (Settled(q)' <=> Settled(q))
    BY <1>2 DEF Pay, Settled, TypeOK
  <2> QED
    BY <1>2, <2>1, <2>2 DEF Promise!Settle
<1>3. ASSUME \A o \in Orders : ~Pay(o), UNCHANGED <<stock, attendees>>
      PROVE  UNCHANGED <<{o \in Orders : Settled(o)}, {o \in Orders : attendees[o] > 0}, stock>>
  BY <1>3, SettledFrame DEF LedgerInv
<1> QED
  BY <1>1, <1>2, <1>3, BooksFrame DEF Promise!Next

\* However posts repeat, overlap, fail and are retried, every settled order
\* gets at most one attendee and takes exactly one ticket for it.
THEOREM CheckoutAdmitsOnce == Spec => ExactlyOnce
<1>1. Init => Promise!Init
  BY DEF Init, Promise!Init, Settled
<1> QED
  BY <1>1, AdmissionStep, TypeCorrect, LedgerHolds, PTL DEF Spec, ExactlyOnce, Promise!Spec

----------------------------------------------------------------------------
(***************************************************************************)
(* The stock is what was there at first, less the PAID orders.             *)
(***************************************************************************)
PaidOf(t) == {o \in Orders : status[o] = "PAID" /\ TicketOf[o] = t}
StockInv == \A t \in Tickets : stock[t] = FirstStock[t] - Cardinality(PaidOf(t))

LEMMA PaidOfIsFinite ==
    ASSUME NEW t
    PROVE  IsFiniteSet(PaidOf(t)) /\ Cardinality(PaidOf(t)) \in Nat
<1>1. PaidOf(t) \subseteq Orders
  BY DEF PaidOf
<1> QED
  BY <1>1, OrdersFinite, FS_Subset, FS_CardinalityType

LEMMA StockStep == TypeOK /\ LedgerInv /\ StockInv /\ [Next]_vars => StockInv'
<1> SUFFICES ASSUME TypeOK, LedgerInv, StockInv, [Next]_vars, NEW t \in Tickets
             PROVE  stock'[t] = FirstStock[t] - Cardinality(PaidOf(t)')
  BY DEF StockInv
<1>0. /\ stock[t] = FirstStock[t] - Cardinality(PaidOf(t))
      /\ FirstStock[t] \in Int /\ Cardinality(PaidOf(t)) \in Nat
  BY PaidOfIsFinite, StockIsCounted DEF StockInv
<1>1. ASSUME NEW w \in Workers, CommitTx(w)
      PROVE  stock'[t] = FirstStock[t] - Cardinality(PaidOf(t)')
  <2>1. PICK o \in Orders : /\ attendees[o] = 0
                            /\ status' = [status EXCEPT ![o] = "PAID"]
                            /\ stock' = [stock EXCEPT ![TicketOf[o]] = @ - 1]
    BY <1>1, CommitEffect
  <2>2. o \notin PaidOf(t)
    BY <2>1 DEF PaidOf, LedgerInv, PaidIsAdmitted
  <2>3. CASE TicketOf[o] = t
    <3>1. PaidOf(t)' = PaidOf(t) \union {o}
      BY <2>1, <2>3 DEF PaidOf, TypeOK
    <3>2. Cardinality(PaidOf(t)') = Cardinality(PaidOf(t)) + 1
      BY <2>2, <3>1, PaidOfIsFinite, FS_AddElement
    <3>3. stock'[t] = stock[t] - 1
      BY <2>1, <2>3 DEF TypeOK
    <3> QED
      BY <1>0, <3>2, <3>3
  <2>4. CASE TicketOf[o] # t
    <3>1. PaidOf(t)' = PaidOf(t)
      BY <2>1, <2>4 DEF PaidOf, TypeOK
    <3>2. stock'[t] = stock[t]
      BY <2>1, <2>4 DEF TypeOK
    <3> QED
      BY <1>0, <3>1, <3>2
  <2> QED
    BY <2>3, <2>4
<1>2. ASSUME UNCHANGED <<stock, attendees>>,
             \A o \in Orders : status'[o] = status[o] \/ CreateOrder(o)
      PROVE  stock'[t] = FirstStock[t] - Cardinality(PaidOf(t)')
  <2>1. ASSUME NEW o \in Orders, CreateOrder(o)
        PROVE  status[o] # "PAID" /\ status'[o] # "PAID"
    BY <2>1 DEF CreateOrder, LedgerInv, NoChargeYet, PaidIsSettled, Settled, TypeOK
  <2>2. PaidOf(t)' = PaidOf(t)
    BY <1>2, <2>1 DEF PaidOf
  <2> QED
    BY <1>0, <1>2, <2>2
<1> QED
  BY <1>1, <1>2, BooksFrame

LEMMA StockInit == Init => StockInv
<1> SUFFICES ASSUME Init, NEW t \in Tickets
             PROVE  stock[t] = FirstStock[t] - Cardinality(PaidOf(t))
  BY DEF StockInv
<1>1. PaidOf(t) = {}
  BY DEF Init, PaidOf
<1> QED
  BY <1>1, FS_EmptySet, StockIsCounted DEF Init

\* PAID orders, attendees and tickets gone always agree.
THEOREM BooksAlwaysBalance == Spec => []BooksBalance
<1>1. LedgerInv /\ StockInv => BooksBalance
  BY DEF LedgerInv, PaidIsAdmitted, StockInv, BooksBalance, PaidOf
<1> QED
  BY <1>1, StockInit, StockStep, TypeCorrect, LedgerHolds, PTL DEF Spec

----------------------------------------------------------------------------
(***************************************************************************)
(* What an answer of 200 to a settlement means.                            *)
(***************************************************************************)

\* A charge paid once asaasPaymentId was stored is never an unknown payment.
InTimeIsLinked == \A o \in Orders : Settled(o) /\ o \notin early => o \in linked
UnknownIsEarly == \A o \in Orders, kind \in PAID_EVENTS : <<o, kind>> \in unknown => o \in early
DoneIsPaid == \A w \in Workers : pc[w] = "done" => status[About(w)] = "PAID"
AckInv == InTimeIsLinked /\ UnknownIsEarly /\ DoneIsPaid /\ AckedIsProvisioned

\* Only paying makes a charge early, nothing unlinks an order, and nothing
\* clears the log.
LEMMA HistoryFrame ==
    ASSUME TypeOK, [Next]_vars
    PROVE  /\ linked \subseteq linked'
           /\ early \subseteq early'
           /\ unknown \subseteq unknown'
           /\ \A n \in unknown' : n \in unknown \/ \E w \in Workers : FindUnknown(w) /\ n = post[w]
<1> DEFINE Kept == /\ linked \subseteq linked' /\ early \subseteq early' /\ unknown' = unknown
<1>1. ASSUME NEW o \in Orders, Buy(o) \/ Pay(o) \/ Transfer(o) \/ FailCall(o) PROVE Kept
  BY <1>1 DEF Buy, Proceed, Quote, Refuse, CreateOrder, OpenCharge, LinkPayment, Pay, Transfer, FailCall
<1>2. ASSUME NEW o \in Orders, NEW kind \in Kinds, Deliver(o, kind) PROVE Kept
  BY <1>2 DEF Deliver, Ignore, Receive
<1>3. ASSUME NEW w \in Workers, Handle(w), ~FindUnknown(w) PROVE Kept
  BY <1>3 DEF Handle, FindPaid, FindDue, BeginTx, CommitTx, Provision, ConflictTx, Answer
<1>4. ASSUME NEW w \in Workers, FindUnknown(w)
      PROVE  UNCHANGED <<linked, early>> /\ unknown' = unknown \union {post[w]}
  BY <1>4 DEF FindUnknown
<1>5. ASSUME NEW w \in Workers, FailWorker(w) PROVE Kept
  BY <1>5 DEF FailWorker
<1>6. CASE SetStatus \/ (\E t \in Tickets : EndSale(t)) \/ UNCHANGED vars
  BY <1>6 DEF SetStatus, EndSale, vars
<1> QED
  BY <1>1, <1>2, <1>3, <1>4, <1>5, <1>6 DEF Next, Environment

\* A PAID order with its attendee stays that.
LEMMA PaidStays ==
    ASSUME TypeOK, LedgerInv, [Next]_vars, NEW o \in Orders, status[o] = "PAID"
    PROVE  status'[o] = "PAID" /\ attendees'[o] = 1
<1>1. attendees[o] = 1 /\ ~CreateOrder(o)
  BY DEF LedgerInv, PaidIsAdmitted, PaidIsSettled, NoChargeYet, Settled, CreateOrder
<1>2. ASSUME NEW w \in Workers, CommitTx(w)
      PROVE  status'[o] = "PAID" /\ attendees'[o] = 1
  BY <1>1, <1>2, CommitEffect DEF TypeOK
<1> QED
  BY <1>1, <1>2, BooksFrame

\* A worker is done with its post only after committing what it asks for.
LEMMA DoneFrame ==
    ASSUME TypeOK, [Next]_vars, NEW w \in Workers, pc'[w] = "done"
    PROVE  CommitTx(w) \/ (pc[w] = "done" /\ post'[w] = post[w])
<1>1. ASSUME NEW v \in Workers, Handle(v)
      PROVE  CommitTx(w) \/ (pc[w] = "done" /\ post'[w] = post[w])
  <2>1. CASE FindUnknown(v) \/ FindPaid(v) \/ Answer(v)
    BY <2>1, AckShape DEF FindUnknown, FindPaid, Answer
  <2>2. CASE ConflictTx(v)
    BY <2>2, NackShape DEF ConflictTx
  <2>3. CASE FindDue(v) \/ BeginTx(v) \/ CommitTx(v)
    BY <2>3 DEF FindDue, BeginTx, CommitTx, TypeOK
  <2> QED
    BY <1>1, <2>1, <2>2, <2>3 DEF Handle
<1>2. ASSUME NEW v \in Workers, FailWorker(v) PROVE pc[w] = "done" /\ post'[w] = post[w]
  BY <1>2, NackShape DEF FailWorker
<1>3. ASSUME NEW o \in Orders, NEW kind \in Kinds, Deliver(o, kind)
      PROVE  pc[w] = "done" /\ post'[w] = post[w]
  BY <1>3 DEF Deliver, Ignore, Receive, TypeOK
<1>4. ASSUME NEW o \in Orders, Buy(o) \/ Pay(o) \/ Transfer(o) \/ FailCall(o) PROVE UNCHANGED worker
  BY <1>4 DEF Buy, Proceed, Quote, Refuse, CreateOrder, OpenCharge, LinkPayment, Pay, Transfer, FailCall
<1>5. CASE SetStatus \/ (\E t \in Tickets : EndSale(t)) \/ UNCHANGED vars
  BY <1>5 DEF SetStatus, EndSale, vars
<1> QED
  BY <1>1, <1>2, <1>3, <1>4, <1>5 DEF Next, Environment

\* A settlement is answered 200 by a handler that found no order of it, found
\* it PAID, or had committed.
LEMMA AckOrigin ==
    ASSUME TypeOK, [Next]_vars, NEW o \in Orders, NEW kind \in PAID_EVENTS,
           <<o, kind>> \in notices, <<o, kind>> \notin notices'
    PROVE  \E w \in Workers : /\ post[w] = <<o, kind>>
                              /\ FindUnknown(w) \/ FindPaid(w) \/ Answer(w)
<1>1. ASSUME NEW q \in Orders, NEW k \in Kinds PROVE ~Deliver(q, k)
  BY DEF Deliver, Ignore, Receive
<1>2. ASSUME NEW q \in Orders PROVE ~Buy(q) /\ ~Pay(q) /\ ~Transfer(q) /\ ~FailCall(q)
  BY DEF Buy, Proceed, Quote, Refuse, CreateOrder, OpenCharge, LinkPayment, Pay, Transfer, FailCall
<1>3. ASSUME NEW w \in Workers, Handle(w)
      PROVE  post[w] = <<o, kind>> /\ (FindUnknown(w) \/ FindPaid(w) \/ Answer(w))
  BY <1>3 DEF Handle, FindUnknown, FindPaid, FindDue, BeginTx, CommitTx, ConflictTx, Answer, Ack
<1>4. ASSUME NEW w \in Workers PROVE ~FailWorker(w)
  BY DEF FailWorker
<1>5. ~SetStatus /\ (\A t \in Tickets : ~EndSale(t)) /\ ~UNCHANGED vars
  BY DEF SetStatus, EndSale, vars
<1> QED
  BY <1>1, <1>2, <1>3, <1>4, <1>5 DEF Next, Environment

\* An event Asaas has the 200 for was acknowledged before, or is in this step.
LEMMA AckedFrame ==
    ASSUME TypeOK, LedgerInv, [Next]_vars, NEW o \in Orders, NEW kind \in PAID_EVENTS, Acked(o, kind)'
    PROVE  Acked(o, kind) \/ <<o, kind>> \in notices
<1> SUFFICES ASSUME <<o, kind>> \notin notices PROVE Acked(o, kind)
  OBVIOUS
<1> USE DEF Acked, PAID_EVENTS
<1>1. ASSUME NEW q \in Orders, Pay(q) \/ Transfer(q) PROVE Acked(o, kind)
  BY <1>1 DEF Pay, Transfer, TypeOK
<1>2. ASSUME NEW q \in Orders, Buy(q) \/ FailCall(q) PROVE Acked(o, kind)
  BY <1>2 DEF Buy, Proceed, Quote, Refuse, CreateOrder, OpenCharge, LinkPayment, FailCall, TypeOK
<1>3. ASSUME NEW q \in Orders, NEW k \in Kinds, Deliver(q, k) PROVE charge' = charge
  BY <1>3 DEF Deliver, Ignore, Receive
<1>4. ASSUME NEW w \in Workers, Handle(w) \/ FailWorker(w) PROVE charge' = charge
  BY <1>4 DEF Handle, FindUnknown, FindPaid, FindDue, BeginTx, CommitTx, ConflictTx, Answer, FailWorker
<1>5. CASE SetStatus \/ (\E t \in Tickets : EndSale(t)) \/ UNCHANGED vars
  BY <1>5 DEF SetStatus, EndSale, vars
<1> QED
  BY <1>1, <1>2, <1>3, <1>4, <1>5 DEF Next, Environment

LEMMA AckStep == TypeOK /\ LedgerInv /\ AckInv /\ [Next]_vars => AckInv'
<1> SUFFICES ASSUME TypeOK, LedgerInv, AckInv, [Next]_vars PROVE AckInv'
  OBVIOUS
<1> USE DEF AckInv
<1>1. InTimeIsLinked'
  <2>1. ASSUME NEW o \in Orders, Pay(o), o \notin early' PROVE o \in linked'
    BY <2>1 DEF Pay
  <2> QED
    BY <2>1, SettledFrame, HistoryFrame DEF LedgerInv, InTimeIsLinked
<1>2. UnknownIsEarly'
  <2>1. ASSUME NEW o \in Orders, NEW kind \in PAID_EVENTS, NEW w \in Workers,
               FindUnknown(w), <<o, kind>> = post[w]
        PROVE  o \in early'
    BY <2>1, HistoryFrame DEF FindUnknown, LedgerInv, WorkIsSettled, InTimeIsLinked, About
  <2> QED
    BY <2>1, HistoryFrame DEF UnknownIsEarly
<1>3. DoneIsPaid'
  <2>1. ASSUME NEW w \in Workers, CommitTx(w) PROVE (status[About(w)] = "PAID")'
    BY <2>1, CommitEffect DEF About, TypeOK
  <2>2. ASSUME NEW w \in Workers, pc[w] = "done", post'[w] = post[w] PROVE (status[About(w)] = "PAID")'
    BY <2>2, AboutIsOrder, PaidStays DEF DoneIsPaid, About
  <2> QED
    BY <2>1, <2>2, DoneFrame DEF DoneIsPaid
<1>4. ASSUME NEW o \in Orders, NEW kind \in PAID_EVENTS, Acked(o, kind)'
      PROVE  \/ status'[o] = "PAID" /\ attendees'[o] = 1
             \/ <<o, kind>> \in unknown' /\ o \in early'
  <2>1. CASE <<o, kind>> \notin notices
    BY <1>4, <2>1, AckedFrame, PaidStays, HistoryFrame DEF AckedIsProvisioned
  <2>2. CASE <<o, kind>> \in notices
    <3>1. PICK w \in Workers : post[w] = <<o, kind>> /\ (FindUnknown(w) \/ FindPaid(w) \/ Answer(w))
      BY <1>4, <2>2, AckOrigin DEF Acked
    <3>2. CASE FindUnknown(w)
      BY <1>2, <3>1, <3>2 DEF FindUnknown, UnknownIsEarly
    <3>3. CASE FindPaid(w) \/ Answer(w)
      BY <3>1, <3>3, PaidStays DEF FindPaid, Answer, Ack, DoneIsPaid, About
    <3> QED
      BY <3>1, <3>2, <3>3
  <2> QED
    BY <2>1, <2>2
<1> QED
  BY <1>1, <1>2, <1>3, <1>4 DEF AckedIsProvisioned

\* Whatever overlaps, repeats or dies, and however early a buyer pays: a
\* settlement answered 200 has its PAID order and its attendee, unless the
\* charge was paid before its asaasPaymentId was stored and the log says so.
THEOREM AckedSettlementIsProvisioned == Spec => []AckedIsProvisioned
<1>1. Init => AckInv
  BY DEF Init, AckInv, InTimeIsLinked, UnknownIsEarly, DoneIsPaid, AckedIsProvisioned, Acked, Settled
<1>2. AckInv => AckedIsProvisioned
  BY DEF AckInv
<1> QED
  BY <1>1, <1>2, AckStep, TypeCorrect, LedgerHolds, PTL DEF Spec
=============================================================================
