------------------------- MODULE CertificatesProofs -------------------------
(* Theorems about Certificates, for any number of participants, workers and *)
(* requests.                                                                *)
EXTENDS Certificates, FiniteSetTheorems, TLAPS

USE DEF people, settings, queue, actor, Move, Enqueue, Actors, Sending, Sweeping, Working

LEMMA TypeInit == Init => TypeOK
<1> SUFFICES ASSUME Init PROVE TypeOK
  OBVIOUS
<1>1. \A w \in Workers : pc[w] = "idle" /\ job[w] = Nil /\ seen[w] = Nil
  BY DEF Init
<1>2. pc \in [Actors -> {"idle", "done"} \union Sending \union Sweeping]
  BY DEF Init
<1>3. /\ jobs \in [Participants -> Nat] /\ emails \in [Participants -> Nat]
      /\ job \in [Workers -> Participants \union {Nil}]
      /\ batch \in [Actors -> SUBSET Participants]
      /\ seen \in [Workers -> 0 .. MaxEdits \union {Nil}]
  BY DEF Init
<1>4. edits \in 0 .. MaxEdits /\ fails \in 0 .. MaxFails
  BY BoundsAreNumbers DEF Init
<1> QED
  BY <1>1, <1>2, <1>3, <1>4, EarlyAreParticipants DEF Init, TypeOK

LEMMA TypeStep == TypeOK /\ [Next]_vars => TypeOK'
<1> SUFFICES ASSUME TypeOK, [Next]_vars PROVE TypeOK'
  OBVIOUS
<1> USE NilIsFresh, ActorsDiffer, BoundsAreNumbers
<1>1. ASSUME NEW w \in Workers, Send(w) PROVE TypeOK'
  <2>1. ASSUME NEW p \in Participants, TakeSend(w, p) PROVE TypeOK'
    BY <2>1 DEF TakeSend, TypeOK
  <2>2. CASE ReadParticipant(w) \/ SkipParticipant(w)
    BY <2>2 DEF ReadParticipant, SkipParticipant, TypeOK
  <2>3. CASE SendEmail(w)
    BY <2>3 DEF SendEmail, TypeOK
  <2>4. CASE MarkSent(w)
    BY <2>4 DEF MarkSent, TypeOK
  <2> QED
    BY <1>1, <2>1, <2>2, <2>3, <2>4 DEF Send
<1>2. ASSUME NEW a \in Actors, EnqueueEligible(a) PROVE TypeOK'
  <2>1. CASE ListEligible(a)
    BY <2>1 DEF ListEligible, Eligible, TypeOK
  <2>2. ASSUME NEW p \in Participants, AddJob(a, p) PROVE TypeOK'
    BY <2>2 DEF AddJob, TypeOK
  <2> QED
    BY <1>2, <2>1, <2>2 DEF EnqueueEligible
<1>3. ASSUME NEW w \in Workers, Sweep(w) PROVE TypeOK'
  <2>1. CASE TakeSweep(w)
    BY <2>1 DEF TakeSweep, TypeOK
  <2>2. CASE FindCandidate(w)
    BY <2>2 DEF FindCandidate, TypeOK
  <2>3. CASE FindNoCandidate(w)
    BY <2>3 DEF FindNoCandidate, TypeOK
  <2>4. CASE Stamp(w)
    BY <2>4 DEF Stamp, TypeOK
  <2> QED
    BY <1>2, <1>3, <2>1, <2>2, <2>3, <2>4 DEF Sweep
<1>4. ASSUME NEW c \in Clerks, Request(c) PROVE TypeOK'
  <2>1. ASSUME NEW p \in Participants, SendOne(c, p) PROVE TypeOK'
    BY <2>1 DEF SendOne, TypeOK
  <2>2. CASE SendAll(c) \/ AnswerQueued(c)
    BY <2>2 DEF SendAll, AnswerQueued, TypeOK
  <2> QED
    BY <1>2, <1>4, <2>1, <2>2 DEF Request
<1>5. CASE SweepDue \/ Environment
  <2>1. ASSUME NEW m \in {"MANUAL", "AUTO"}, UpdateDispatch(m) PROVE TypeOK'
    <3>1. /\ edits' \in 0 .. MaxEdits /\ dispatched' = Nil /\ mode' \in {"MANUAL", "AUTO"}
          /\ UNCHANGED <<people, sentAt, queue, skipped, emails, pc, actor, fails>>
      BY <2>1 DEF UpdateDispatch, TypeOK
    <3>2. template' \in BOOLEAN
      BY <2>1, Zenon DEF UpdateDispatch
    <3>3. due' \in BOOLEAN
      BY <2>1, Zenon DEF UpdateDispatch
    <3> QED
      BY <3>1, <3>2, <3>3 DEF TypeOK
  <2>2. CASE SweepDue \/ ComeDue
    BY <2>2 DEF SweepDue, ComeDue, TypeOK
  <2>5. CASE UpdateTemplate
    <3>1. template' \in BOOLEAN
      BY <2>5, Zenon DEF UpdateTemplate
    <3> QED
      BY <2>5, <3>1 DEF UpdateTemplate, TypeOK
  <2>3. ASSUME NEW p \in Flaggable, NEW flag \in BOOLEAN, SetWillNotAttend(p, flag) PROVE TypeOK'
    BY <2>3 DEF SetWillNotAttend, TypeOK
  <2>4. ASSUME NEW p \in Participants, Provision(p) PROVE TypeOK'
    BY <2>4 DEF Provision, TypeOK
  <2> QED
    BY <1>5, <2>1, <2>2, <2>3, <2>4, <2>5 DEF Environment
<1>6. CASE Fault
  <2>1. ASSUME NEW w \in Workers, FailSend(w) PROVE TypeOK'
    BY <2>1 DEF FailSend, Drop, TypeOK
  <2>2. ASSUME NEW w \in Workers, StallSend(w) PROVE TypeOK'
    BY <2>2 DEF StallSend, Drop, TypeOK
  <2>3. ASSUME NEW w \in Workers, FailSweep(w) PROVE TypeOK'
    BY <2>3 DEF FailSweep, Drop, TypeOK
  <2>4. ASSUME NEW c \in Clerks, FailRequest(c) PROVE TypeOK'
    BY <2>4 DEF FailRequest, Drop, TypeOK
  <2> QED
    BY <1>6, <2>1, <2>2, <2>3, <2>4 DEF Fault
<1>7. CASE UNCHANGED vars
  BY <1>7 DEF vars, TypeOK
<1> QED
  BY <1>1, <1>3, <1>4, <1>5, <1>6, <1>7 DEF Next

\* Every reachable state is well shaped.
THEOREM TypeCorrect == Spec => []TypeOK
BY TypeInit, TypeStep, PTL DEF Spec

----------------------------------------------------------------------------
(***************************************************************************)
(* What a dispatch has enqueued is never lost.                             *)
(***************************************************************************)
MarkIsEmailed == \A w \in Workers : pc[w] = "mark" => emails[job[w]] > 0
SweepCovers ==
    \A w \in Workers : pc[w] = "add" =>
        \A p \in Early \ Flaggable : p \in batch[w] \/ Covered(p)
StaysKnown == Early \subseteq known
CoverInv ==
    /\ MarkIsEmailed /\ SentWasEmailed
    /\ StaysKnown /\ SweepCovers /\ DispatchCovers

LEMMA EmailsGrow ==
    ASSUME TypeOK, [Next]_vars, NEW p \in Participants
    PROVE  emails[p] > 0 => emails'[p] > 0
<1>1. ASSUME NEW w \in Workers, Send(w) PROVE emails[p] > 0 => emails'[p] > 0
  BY <1>1 DEF Send, TakeSend, ReadParticipant, SkipParticipant, SendEmail, MarkSent, TypeOK
<1>2. ASSUME NEW w \in Workers, Sweep(w) PROVE UNCHANGED emails
  BY <1>2 DEF Sweep, TakeSweep, FindCandidate, FindNoCandidate, EnqueueEligible, ListEligible,
              AddJob, Stamp
<1>3. ASSUME NEW c \in Clerks, Request(c) PROVE UNCHANGED emails
  BY <1>3 DEF Request, SendOne, SendAll, AnswerQueued, EnqueueEligible, ListEligible, AddJob
<1>4. CASE SweepDue \/ Environment \/ Fault \/ UNCHANGED vars
  BY <1>4 DEF SweepDue, Environment, UpdateDispatch, UpdateTemplate, ComeDue, SetWillNotAttend,
              Provision, Fault, FailSend, StallSend, FailSweep, FailRequest, Drop, vars
<1> QED
  BY <1>1, <1>2, <1>3, <1>4 DEF Next

\* Only a worker that has sent marks the participant of its job.
LEMMA SentFrame ==
    ASSUME TypeOK, [Next]_vars
    PROVE  sentAt' = sentAt \/ \E w \in Workers : MarkSent(w)
<1>1. ASSUME NEW w \in Workers, Send(w), ~MarkSent(w) PROVE UNCHANGED sentAt
  BY <1>1 DEF Send, TakeSend, ReadParticipant, SkipParticipant, SendEmail
<1>2. ASSUME NEW w \in Workers, Sweep(w) PROVE UNCHANGED sentAt
  BY <1>2 DEF Sweep, TakeSweep, FindCandidate, FindNoCandidate, EnqueueEligible, ListEligible,
              AddJob, Stamp
<1>3. ASSUME NEW c \in Clerks, Request(c) PROVE UNCHANGED sentAt
  BY <1>3 DEF Request, SendOne, SendAll, AnswerQueued, EnqueueEligible, ListEligible, AddJob
<1>4. CASE SweepDue \/ Environment \/ Fault \/ UNCHANGED vars
  BY <1>4 DEF SweepDue, Environment, UpdateDispatch, UpdateTemplate, ComeDue, SetWillNotAttend,
              Provision, Fault, FailSend, StallSend, FailSweep, FailRequest, Drop, vars
<1> QED
  BY <1>1, <1>2, <1>3, <1>4 DEF Next

\* A worker reaches its last write of a send job only by sending.
LEMMA MarkFrame ==
    ASSUME TypeOK, [Next]_vars, NEW w \in Workers, pc'[w] = "mark"
    PROVE  SendEmail(w) \/ (pc[w] = "mark" /\ job'[w] = job[w])
<1> USE ActorsDiffer
<1>1. ASSUME NEW v \in Workers, Send(v) PROVE SendEmail(w) \/ (pc[w] = "mark" /\ job'[w] = job[w])
  BY <1>1 DEF Send, TakeSend, ReadParticipant, SkipParticipant, SendEmail, MarkSent, TypeOK
<1>2. ASSUME NEW v \in Workers, Sweep(v) PROVE pc[w] = "mark" /\ UNCHANGED job
  BY <1>2 DEF Sweep, TakeSweep, FindCandidate, FindNoCandidate, EnqueueEligible, ListEligible,
              AddJob, Stamp, TypeOK
<1>3. ASSUME NEW c \in Clerks, Request(c) PROVE pc[w] = "mark" /\ UNCHANGED job
  BY <1>3 DEF Request, SendOne, SendAll, AnswerQueued, EnqueueEligible, ListEligible, AddJob, TypeOK
<1>4. ASSUME NEW v \in Workers, FailSend(v) \/ StallSend(v) \/ FailSweep(v)
      PROVE  pc[w] = "mark" /\ job'[w] = job[w]
  BY <1>4 DEF FailSend, StallSend, FailSweep, Drop, TypeOK
<1>5. ASSUME NEW c \in Clerks, FailRequest(c) PROVE pc[w] = "mark" /\ UNCHANGED job
  BY <1>5 DEF FailRequest, Drop, TypeOK
<1>6. CASE SweepDue \/ Environment \/ UNCHANGED vars
  BY <1>6 DEF SweepDue, Environment, UpdateDispatch, UpdateTemplate, ComeDue, SetWillNotAttend,
              Provision, vars
<1> QED
  BY <1>1, <1>2, <1>3, <1>4, <1>5, <1>6 DEF Next, Fault

\* A covered participant stays covered.
LEMMA CoveredStays ==
    ASSUME TypeOK, MarkIsEmailed, [Next]_vars, NEW p \in Participants, Covered(p)
    PROVE  Covered(p)'
<1>0. CASE emails[p] > 0
  BY <1>0, EmailsGrow DEF Covered
<1>1. ASSUME NEW w \in Workers, Send(w) PROVE Covered(p)'
  <2>1. ASSUME NEW q \in Participants, TakeSend(w, q) PROVE Covered(p)'
    <3>1. job[w] = Nil
      BY <2>1 DEF TakeSend, TypeOK
    <3>2. CASE p = q
      BY <2>1, <3>2 DEF TakeSend, Covered, TypeOK
    <3>3. CASE p # q
      BY <2>1, <3>1, <3>3, NilIsFresh DEF TakeSend, Covered, TypeOK
    <3> QED
      BY <3>2, <3>3
  <2>2. CASE ReadParticipant(w) \/ SkipParticipant(w)
    BY <2>2 DEF ReadParticipant, SkipParticipant, Covered, TypeOK
  <2>3. CASE SendEmail(w)
    BY <1>0, <2>3 DEF SendEmail, Covered
  <2>4. CASE MarkSent(w)
    BY <1>0, <2>4 DEF MarkSent, Covered, MarkIsEmailed, TypeOK
  <2> QED
    BY <1>1, <2>1, <2>2, <2>3, <2>4 DEF Send
<1>2. ASSUME UNCHANGED <<emails, job, failed, skipped>>, jobs'[p] = jobs[p] \/ jobs'[p] > 0
      PROVE  Covered(p)'
  BY <1>2 DEF Covered
<1>7. ASSUME NEW a \in Actors, EnqueueEligible(a) PROVE Covered(p)'
  <2>1. CASE ListEligible(a)
    BY <1>2, <2>1 DEF ListEligible
  <2>2. ASSUME NEW q \in Participants, AddJob(a, q) PROVE Covered(p)'
    BY <1>2, <2>2 DEF AddJob, TypeOK
  <2> QED
    BY <1>7, <2>1, <2>2 DEF EnqueueEligible
<1>3. ASSUME NEW w \in Workers, Sweep(w) PROVE Covered(p)'
  BY <1>2, <1>7, <1>3 DEF Sweep, TakeSweep, FindCandidate, FindNoCandidate, Stamp
<1>4. ASSUME NEW c \in Clerks, Request(c) PROVE Covered(p)'
  <2>1. ASSUME NEW q \in Participants, SendOne(c, q) PROVE Covered(p)'
    BY <1>2, <2>1 DEF SendOne, TypeOK
  <2> QED
    BY <1>2, <1>4, <1>7, <2>1 DEF Request, SendAll, AnswerQueued
<1>5. ASSUME NEW w \in Workers, FailSend(w) \/ StallSend(w) PROVE Covered(p)'
  <2>1. CASE job[w] = p
    <3>1. CASE FailSend(w)
      BY <2>1, <3>1 DEF FailSend, Covered
    <3>2. CASE StallSend(w)
      BY <2>1, <3>2 DEF StallSend, Covered, TypeOK
    <3> QED
      BY <1>5, <3>1, <3>2
  <2>2. ASSUME job[w] # p, NEW v \in Workers, job[v] = p PROVE job'[v] = p
    BY <1>5, <2>2 DEF FailSend, StallSend, TypeOK
  <2>3. failed \subseteq failed' /\ skipped' = skipped
    BY <1>5 DEF FailSend, StallSend, Drop
  <2>4. ASSUME job[w] # p, jobs[p] > 0 PROVE jobs'[p] > 0
    BY <1>5, <2>4 DEF FailSend, StallSend, TypeOK
  <2>5. emails' = emails
    BY <1>5 DEF FailSend, StallSend, Drop
  <2> QED
    BY <2>1, <2>2, <2>3, <2>4, <2>5 DEF Covered
<1>6. CASE SweepDue \/ Environment \/ UNCHANGED vars
      \/ (\E w \in Workers : FailSweep(w)) \/ (\E c \in Clerks : FailRequest(c))
  BY <1>6 DEF SweepDue, Environment, UpdateDispatch, UpdateTemplate, ComeDue, SetWillNotAttend,
              Provision, FailSweep, FailRequest, Drop, Covered, vars
<1> QED
  BY <1>1, <1>3, <1>4, <1>5, <1>6 DEF Next, Fault

\* Only a sweep's last write stamps the event.
LEMMA StampFrame ==
    ASSUME [Next]_vars, dispatched' # Nil
    PROVE  dispatched # Nil \/ \E w \in Workers : Stamp(w)
<1>1. ASSUME NEW a \in Actors, EnqueueEligible(a) PROVE UNCHANGED dispatched
  BY <1>1 DEF EnqueueEligible, ListEligible, AddJob
<1>2. ASSUME NEW w \in Workers, Send(w) \/ Sweep(w), ~Stamp(w) PROVE UNCHANGED dispatched
  BY <1>1, <1>2 DEF Send, TakeSend, ReadParticipant, SkipParticipant, SendEmail, MarkSent,
                    Sweep, TakeSweep, FindCandidate, FindNoCandidate
<1>3. ASSUME NEW c \in Clerks, Request(c) PROVE UNCHANGED dispatched
  BY <1>1, <1>3 DEF Request, SendOne, SendAll, AnswerQueued
<1>4. CASE Environment
  BY <1>4 DEF Environment, UpdateDispatch, UpdateTemplate, ComeDue, SetWillNotAttend, Provision
<1>5. CASE SweepDue \/ Fault \/ UNCHANGED vars
  BY <1>5 DEF SweepDue, Fault, FailSend, StallSend, FailSweep, FailRequest, Drop, vars
<1> QED
  BY <1>2, <1>3, <1>4, <1>5 DEF Next

\* An actor's batch shrinks only by enqueuing, and is listed from the rows.
LEMMA BatchFrame ==
    ASSUME TypeOK, [Next]_vars, NEW w \in Workers, pc'[w] = "add", NEW p \in Participants
    PROVE  \/ pc[w] = "add" /\ (p \in batch[w] => p \in batch'[w])
           \/ pc[w] = "add" /\ AddJob(w, p)
           \/ ListEligible(w)
<1> USE ActorsDiffer
<1>1. ASSUME NEW v \in Workers, Send(v) PROVE pc[w] = "add" /\ UNCHANGED batch
  BY <1>1 DEF Send, TakeSend, ReadParticipant, SkipParticipant, SendEmail, MarkSent, TypeOK
<1>2. ASSUME NEW a \in Actors, EnqueueEligible(a)
      PROVE  \/ pc[w] = "add" /\ (p \in batch[w] => p \in batch'[w])
             \/ pc[w] = "add" /\ AddJob(w, p)
             \/ ListEligible(w)
  <2>1. CASE ListEligible(a)
    BY <2>1 DEF ListEligible, TypeOK
  <2>2. ASSUME NEW q \in Participants, AddJob(a, q)
        PROVE  pc[w] = "add" /\ ((p \in batch[w] => p \in batch'[w]) \/ AddJob(w, p))
    <3>1. CASE a = w /\ q = p
      BY <2>2, <3>1 DEF AddJob
    <3>2. CASE a # w \/ q # p
      BY <2>2, <3>2 DEF AddJob, TypeOK
    <3> QED
      BY <3>1, <3>2
  <2> QED
    BY <1>2, <2>1, <2>2 DEF EnqueueEligible
<1>3. ASSUME NEW v \in Workers, Sweep(v), ~EnqueueEligible(v) PROVE pc[w] = "add" /\ UNCHANGED batch
  BY <1>3 DEF Sweep, TakeSweep, FindCandidate, FindNoCandidate, Stamp, TypeOK
<1>4. ASSUME NEW c \in Clerks, Request(c), ~EnqueueEligible(c)
      PROVE  pc[w] = "add" /\ UNCHANGED batch
  BY <1>4 DEF Request, SendOne, SendAll, AnswerQueued, TypeOK
<1>5. ASSUME NEW a \in Actors, Drop(a) PROVE pc[w] = "add" /\ batch'[w] = batch[w]
  BY <1>5 DEF Drop, TypeOK
<1>6. CASE Fault
  BY <1>5, <1>6 DEF Fault, FailSend, StallSend, FailSweep, FailRequest
<1>7. CASE SweepDue \/ Environment \/ UNCHANGED vars
  BY <1>7 DEF SweepDue, Environment, UpdateDispatch, UpdateTemplate, ComeDue, SetWillNotAttend,
              Provision, vars
<1> QED
  BY <1>1, <1>2, <1>3, <1>4, <1>6, <1>7 DEF Next

LEMMA KnownFrame == ASSUME [Next]_vars PROVE known \subseteq known'
<1>1. CASE Environment
  BY <1>1 DEF Environment, UpdateDispatch, UpdateTemplate, ComeDue, SetWillNotAttend, Provision
<1>2. ASSUME NEW a \in Actors, EnqueueEligible(a) PROVE UNCHANGED known
  BY <1>2 DEF EnqueueEligible, ListEligible, AddJob
<1>3. ASSUME NEW w \in Workers, Send(w) \/ Sweep(w) PROVE UNCHANGED known
  BY <1>2, <1>3 DEF Send, TakeSend, ReadParticipant, SkipParticipant, SendEmail, MarkSent,
                    Sweep, TakeSweep, FindCandidate, FindNoCandidate, Stamp
<1>4. ASSUME NEW c \in Clerks, Request(c) PROVE UNCHANGED known
  BY <1>2, <1>4 DEF Request, SendOne, SendAll, AnswerQueued
<1>5. CASE SweepDue \/ Fault \/ UNCHANGED vars
  BY <1>5 DEF SweepDue, Fault, FailSend, StallSend, FailSweep, FailRequest, Drop, vars
<1> QED
  BY <1>1, <1>3, <1>4, <1>5 DEF Next

LEMMA CoverStep == TypeOK /\ CoverInv /\ [Next]_vars => CoverInv'
<1> SUFFICES ASSUME TypeOK, CoverInv, [Next]_vars PROVE CoverInv'
  OBVIOUS
<1> USE DEF CoverInv
<1>1. MarkIsEmailed'
  <2>1. ASSUME NEW w \in Workers, pc'[w] = "mark" PROVE emails'[job'[w]] > 0
    <3>1. CASE SendEmail(w)
      BY <3>1 DEF SendEmail, TypeOK
    <3>2. CASE pc[w] = "mark" /\ job'[w] = job[w]
      <4>1. job[w] \in Participants /\ emails[job[w]] > 0
        BY <3>2 DEF MarkIsEmailed, TypeOK
      <4> QED
        BY <3>2, <4>1, EmailsGrow
    <3> QED
      BY <2>1, <3>1, <3>2, MarkFrame
  <2> QED
    BY <2>1 DEF MarkIsEmailed
<1>2. SentWasEmailed'
  <2>1. ASSUME NEW w \in Workers, MarkSent(w), NEW p \in sentAt' PROVE emails'[p] > 0
    BY <2>1 DEF MarkSent, MarkIsEmailed, SentWasEmailed
  <2>2. ASSUME NEW p \in sentAt PROVE emails'[p] > 0
    BY <2>2, EmailsGrow DEF SentWasEmailed, TypeOK
  <2> QED
    BY <2>1, <2>2, SentFrame DEF SentWasEmailed
<1>4. StaysKnown'
  BY KnownFrame DEF StaysKnown
<1>5. ASSUME NEW p \in Early \ Flaggable, Covered(p) PROVE Covered(p)'
  BY <1>5, CoveredStays, EarlyAreParticipants
<1>6. ASSUME NEW w \in Workers, pc'[w] = "add", NEW p \in Early \ Flaggable
      PROVE  p \in batch'[w] \/ Covered(p)'
  <2>1. p \in Participants
    BY EarlyAreParticipants
  <2>2. CASE ListEligible(w)
    <3>1. batch'[w] = Eligible /\ UNCHANGED emails
      BY <2>2 DEF ListEligible, TypeOK
    <3>2. p \in Eligible \/ p \in sentAt
      BY DEF Eligible, StaysKnown, TypeOK
    <3>3. p \in sentAt => Covered(p)'
      BY <3>1 DEF SentWasEmailed, Covered
    <3> QED
      BY <3>1, <3>2, <3>3
  <2>3. CASE pc[w] = "add" /\ AddJob(w, p)
    BY <2>1, <2>3 DEF AddJob, Covered, TypeOK
  <2>4. CASE pc[w] = "add" /\ (p \in batch[w] => p \in batch'[w])
    BY <1>5, <2>4 DEF SweepCovers
  <2> QED
    BY <1>6, <2>1, <2>2, <2>3, <2>4, BatchFrame
<1>7. ASSUME dispatched' # Nil, NEW p \in Early \ Flaggable PROVE Covered(p)'
  <2>1. CASE dispatched # Nil
    BY <1>5, <2>1 DEF DispatchCovers
  <2>2. ASSUME NEW w \in Workers, Stamp(w) PROVE Covered(p)'
    BY <1>5, <2>2 DEF Stamp, SweepCovers
  <2> QED
    BY <1>7, <2>1, <2>2, StampFrame
<1> QED
  BY <1>1, <1>2, <1>4, <1>6, <1>7 DEF SweepCovers, DispatchCovers

LEMMA CoverHolds == Spec => []CoverInv
<1>1. Init => CoverInv
  BY ActorsDiffer DEF Init, CoverInv, MarkIsEmailed, SentWasEmailed, StaysKnown,
                      SweepCovers, DispatchCovers
<1> QED
  BY <1>1, CoverStep, TypeCorrect, PTL DEF Spec

\* No fault, edit or request, however they interleave, makes a sweep stamp an
\* event of whose attendees one is neither sent to, queued, listed failed nor
\* logged as skipped.
THEOREM DispatchedIsCovered == Spec => []DispatchCovers
<1>1. CoverInv => DispatchCovers
  BY DEF CoverInv
<1> QED
  BY <1>1, CoverHolds, PTL

\* Nobody is taken out of later dispatches without having been sent to.
THEOREM MarkedWasEmailed == Spec => []SentWasEmailed
<1>1. CoverInv => SentWasEmailed
  BY DEF CoverInv
<1> QED
  BY <1>1, CoverHolds, PTL

----------------------------------------------------------------------------
(***************************************************************************)
(* Every email has a cause.                                                *)
(***************************************************************************)
LEMMA CardKeeps ==
    ASSUME NEW S, IsFiniteSet(S), NEW T, T \subseteq S
    PROVE  /\ Cardinality(T) \in Nat /\ Cardinality(S) \in Nat
           /\ Cardinality(T) <= Cardinality(S)
BY FS_Subset, FS_CardinalityType

LEMMA CardGains ==
    ASSUME NEW S, IsFiniteSet(S), NEW x, NEW T, T \subseteq S \union {x}
    PROVE  Cardinality(T) <= Cardinality(S) + 1
<1>0. Cardinality(S) \in Nat
  BY FS_CardinalityType
<1>1. IsFiniteSet(S \union {x}) /\ Cardinality(S \union {x}) <= Cardinality(S) + 1
  <2>1. /\ IsFiniteSet(S \union {x})
        /\ Cardinality(S \union {x}) = IF x \in S THEN Cardinality(S) ELSE Cardinality(S) + 1
    BY FS_AddElement, Zenon
  <2> QED
    BY <1>0, <2>1
<1>2. Cardinality(T) <= Cardinality(S \union {x})
  BY <1>1, CardKeeps
<1> QED
  BY <1>1, <1>2, CardKeeps, FS_CardinalityType

LEMMA CardLoses ==
    ASSUME NEW S, IsFiniteSet(S), NEW x \in S, NEW T, T \subseteq S \ {x}
    PROVE  Cardinality(T) + 1 <= Cardinality(S)
<1>1. IsFiniteSet(S \ {x}) /\ Cardinality(S \ {x}) = Cardinality(S) - 1
  BY FS_RemoveElement
<1>2. Cardinality(T) <= Cardinality(S \ {x})
  BY <1>1, CardKeeps
<1> QED
  BY <1>1, <1>2, CardKeeps, FS_CardinalityType

\* What may still become an email to p: a job in a worker's hands, and an actor
\* that has listed p or is about to list the attendees.
Hands(p) == {w \in Workers : job[w] = p /\ pc[w] \in {"read", "email"}}
Lists(p) == {a \in Actors : pc[a] = "list" \/ (pc[a] = "add" /\ p \in batch[a])}
Spent(p) == emails[p] + jobs[p] + Cardinality(Hands(p)) + Cardinality(Lists(p))

\* What there has been cause for. Until the event is stamped, the sweeps that
\* have found it; from then on as many as there are processes, for they may all
\* have found it before.
Asked == {c \in Clerks : pc[c] # "idle"}
Found == {w \in Workers : seen[w] # Nil}
SweepsOfThis == IF dispatched = Nil THEN Cardinality(Found) ELSE Cardinality(Workers)
Causes == Cardinality(Workers) * edits + fails + Cardinality(Asked) + SweepsOfThis

CauseInv == \A p \in Participants : Spent(p) <= Causes

LEMMA SetsAreFinite ==
    ASSUME NEW p
    PROVE  /\ IsFiniteSet(Hands(p)) /\ IsFiniteSet(Lists(p)) /\ IsFiniteSet(Asked) /\ IsFiniteSet(Found)
           /\ IsFiniteSet(Hands(p)') /\ IsFiniteSet(Lists(p)') /\ IsFiniteSet(Asked') /\ IsFiniteSet(Found')
<1>1. IsFiniteSet(Actors)
  BY ActorsAreFinite, FS_Union
<1>2. /\ Hands(p) \subseteq Workers /\ Hands(p)' \subseteq Workers
      /\ Found \subseteq Workers /\ Found' \subseteq Workers
  BY DEF Hands, Found
<1>3. Lists(p) \subseteq Actors /\ Lists(p)' \subseteq Actors
  BY DEF Lists
<1>4. Asked \subseteq Clerks /\ Asked' \subseteq Clerks
  BY DEF Asked
<1> QED
  BY <1>1, <1>2, <1>3, <1>4, ActorsAreFinite, FS_Subset

LEMMA SpentType ==
    ASSUME TypeOK, TypeOK', NEW p \in Participants
    PROVE  /\ emails[p] \in Nat /\ jobs[p] \in Nat /\ emails'[p] \in Nat /\ jobs'[p] \in Nat
           /\ Cardinality(Hands(p)) \in Nat /\ Cardinality(Hands(p)') \in Nat
           /\ Cardinality(Lists(p)) \in Nat /\ Cardinality(Lists(p)') \in Nat
           /\ Spent(p) \in Nat /\ Spent(p)' \in Nat
           /\ Spent(p)' = emails'[p] + jobs'[p] + Cardinality(Hands(p)') + Cardinality(Lists(p)')
<1>1. emails[p] \in Nat /\ jobs[p] \in Nat /\ emails'[p] \in Nat /\ jobs'[p] \in Nat
  BY DEF TypeOK
<1>2. /\ Cardinality(Hands(p)) \in Nat /\ Cardinality(Hands(p)') \in Nat
      /\ Cardinality(Lists(p)) \in Nat /\ Cardinality(Lists(p)') \in Nat
  BY SetsAreFinite, FS_CardinalityType
<1> QED
  BY <1>1, <1>2 DEF Spent

LEMMA CausesType ==
    ASSUME TypeOK, TypeOK'
    PROVE  /\ Cardinality(Workers) \in Nat /\ Cardinality(Workers) * edits \in Nat
           /\ fails \in Nat /\ fails' \in Nat /\ edits \in Nat
           /\ Cardinality(Asked) \in Nat /\ Cardinality(Asked') \in Nat
           /\ Cardinality(Found) \in Nat /\ Cardinality(Found') \in Nat
           /\ Cardinality(Found) <= Cardinality(Workers)
           /\ Causes \in Nat
           /\ Causes' = Cardinality(Workers) * edits' + fails' + Cardinality(Asked') + SweepsOfThis'
           /\ SweepsOfThis' = IF dispatched' = Nil THEN Cardinality(Found') ELSE Cardinality(Workers)
<1>1. Cardinality(Workers) \in Nat /\ edits \in Nat /\ fails \in Nat /\ fails' \in Nat
  BY ActorsAreFinite, FS_CardinalityType, BoundsAreNumbers DEF TypeOK
<1>2. /\ Cardinality(Asked) \in Nat /\ Cardinality(Asked') \in Nat
      /\ Cardinality(Found) \in Nat /\ Cardinality(Found') \in Nat
  BY SetsAreFinite, FS_CardinalityType
<1>3. Cardinality(Found) <= Cardinality(Workers)
  BY ActorsAreFinite, CardKeeps DEF Found
<1>4. Cardinality(Workers) * edits \in Nat
  BY <1>1
<1> QED
  BY <1>1, <1>2, <1>3, <1>4 DEF Causes, SweepsOfThis

\* Steps that only pass a certificate on, from a list to a job to an email.
LEMMA SpentKeeps ==
    ASSUME TypeOK, TypeOK', NEW p \in Participants,
           emails'[p] + jobs'[p] <= emails[p] + jobs[p],
           Hands(p)' \subseteq Hands(p), Lists(p)' \subseteq Lists(p)
    PROVE  Spent(p)' <= Spent(p)
<1>1. /\ Cardinality(Hands(p)') <= Cardinality(Hands(p))
      /\ Cardinality(Lists(p)') <= Cardinality(Lists(p))
  BY SetsAreFinite, CardKeeps
<1> QED
  BY <1>1, SpentType DEF Spent

\* Steps without a cause: a step that causes nothing takes no cause away.
LEMMA CausesKeep ==
    ASSUME TypeOK, TypeOK', edits' = edits, fails <= fails', dispatched' = dispatched,
           Asked \subseteq Asked', Found \subseteq Found'
    PROVE  Causes <= Causes'
<1>1. Cardinality(Asked) <= Cardinality(Asked') /\ Cardinality(Found) <= Cardinality(Found')
  BY SetsAreFinite, CardKeeps
<1> QED
  BY <1>1, CausesType DEF Causes, SweepsOfThis

Passes(p) == Spent(p)' <= Spent(p) /\ Causes <= Causes'
Causing(p) == Spent(p)' <= Spent(p) + 1 /\ Causes + 1 <= Causes'

LEMMA SendCause ==
    ASSUME TypeOK, TypeOK', NEW w \in Workers, Send(w), NEW p \in Participants
    PROVE  Passes(p)
<1> USE ActorsDiffer, NilIsFresh
<1>1. Causes <= Causes'
  <2>1. /\ UNCHANGED <<edits, fails, dispatched, seen>>
        /\ \A c \in Clerks : pc'[c] = pc[c]
    BY DEF Send, TakeSend, ReadParticipant, SkipParticipant, SendEmail, MarkSent, TypeOK
  <2>2. Asked \subseteq Asked' /\ Found \subseteq Found'
    BY <2>1 DEF Asked, Found
  <2> QED
    BY <2>1, <2>2, CausesType, CausesKeep
<1>2. Lists(p)' \subseteq Lists(p)
  BY DEF Send, TakeSend, ReadParticipant, SkipParticipant, SendEmail, MarkSent, Lists, TypeOK
<1>3. CASE \E q \in Participants : TakeSend(w, q)
  <2>1. PICK q \in Participants : TakeSend(w, q)
    BY <1>3
  <2>2. CASE q = p
    <3>1. Hands(p)' \subseteq Hands(p) \union {w}
      BY <2>1 DEF TakeSend, Hands, TypeOK
    <3>2. Cardinality(Hands(p)') <= Cardinality(Hands(p)) + 1
      BY <3>1, SetsAreFinite, CardGains
    <3>3. emails'[p] = emails[p] /\ jobs'[p] = jobs[p] - 1
      BY <2>1, <2>2 DEF TakeSend, TypeOK
    <3>4. Cardinality(Lists(p)') <= Cardinality(Lists(p))
      BY <1>2, SetsAreFinite, CardKeeps
    <3> QED
      BY <1>1, <3>2, <3>3, <3>4, SpentType DEF Spent, Passes
  <2>3. CASE q # p
    <3>1. Hands(p)' \subseteq Hands(p) /\ UNCHANGED emails /\ jobs'[p] = jobs[p]
      BY <2>1, <2>3 DEF TakeSend, Hands, TypeOK
    <3> QED
      BY <1>1, <1>2, <3>1, SpentType, SpentKeeps DEF Passes
  <2> QED
    BY <2>2, <2>3
<1>4. CASE ReadParticipant(w) \/ SkipParticipant(w) \/ MarkSent(w)
  <2>1. Hands(p)' \subseteq Hands(p) /\ UNCHANGED <<emails, jobs>>
    BY <1>4 DEF ReadParticipant, SkipParticipant, MarkSent, Hands, TypeOK
  <2> QED
    BY <1>1, <1>2, <2>1, SpentType, SpentKeeps DEF Passes
<1>5. CASE SendEmail(w)
  <2>1. CASE job[w] = p
    <3>1. w \in Hands(p) /\ Hands(p)' \subseteq Hands(p) \ {w}
      BY <1>5, <2>1 DEF SendEmail, Hands, TypeOK
    <3>2. Cardinality(Hands(p)') + 1 <= Cardinality(Hands(p))
      BY <3>1, SetsAreFinite, CardLoses
    <3>3. emails'[p] = emails[p] + 1 /\ jobs'[p] = jobs[p]
      BY <1>5, <2>1 DEF SendEmail, TypeOK
    <3>4. Cardinality(Lists(p)') <= Cardinality(Lists(p))
      BY <1>2, SetsAreFinite, CardKeeps
    <3> QED
      BY <1>1, <3>2, <3>3, <3>4, SpentType DEF Spent, Passes
  <2>2. CASE job[w] # p
    <3>1. Hands(p)' \subseteq Hands(p) /\ emails'[p] = emails[p] /\ jobs' = jobs
      BY <1>5, <2>2 DEF SendEmail, Hands, TypeOK
    <3> QED
      BY <1>1, <1>2, <3>1, SpentType, SpentKeeps DEF Passes
  <2> QED
    BY <2>1, <2>2
<1> QED
  BY <1>3, <1>4, <1>5 DEF Send

\* Enqueuing turns a place in a batch into a waiting job.
LEMMA EnqueueCause ==
    ASSUME TypeOK, TypeOK', NEW a \in Actors, EnqueueEligible(a), NEW p \in Participants
    PROVE  Passes(p)
<1>1. Causes <= Causes'
  <2>1. /\ UNCHANGED <<edits, fails, dispatched, seen>>
        /\ \A c \in Clerks : pc[c] # "idle" => pc'[c] # "idle"
    BY DEF EnqueueEligible, ListEligible, AddJob, TypeOK
  <2>2. Asked \subseteq Asked' /\ Found \subseteq Found'
    BY <2>1 DEF Asked, Found
  <2> QED
    BY <2>1, <2>2, CausesType, CausesKeep
<1>2. Hands(p)' \subseteq Hands(p)
  BY DEF EnqueueEligible, ListEligible, AddJob, Hands, TypeOK
<1>3. CASE ListEligible(a)
  <2>1. Lists(p)' \subseteq Lists(p) /\ UNCHANGED <<emails, jobs>>
    BY <1>3 DEF ListEligible, Lists, TypeOK
  <2> QED
    BY <1>1, <1>2, <2>1, SpentType, SpentKeeps DEF Passes
<1>4. ASSUME NEW q \in Participants, AddJob(a, q) PROVE Passes(p)
  <2>1. CASE q = p
    <3>1. a \in Lists(p) /\ Lists(p)' \subseteq Lists(p) \ {a}
      BY <1>4, <2>1 DEF AddJob, Lists, TypeOK
    <3>2. Cardinality(Lists(p)') + 1 <= Cardinality(Lists(p))
      BY <3>1, SetsAreFinite, CardLoses
    <3>3. emails'[p] = emails[p] /\ jobs'[p] = jobs[p] + 1
      BY <1>4, <2>1 DEF AddJob, TypeOK
    <3>4. Cardinality(Hands(p)') <= Cardinality(Hands(p))
      BY <1>2, SetsAreFinite, CardKeeps
    <3> QED
      BY <1>1, <3>2, <3>3, <3>4, SpentType DEF Spent, Passes
  <2>2. CASE q # p
    <3>1. Lists(p)' \subseteq Lists(p) /\ UNCHANGED emails /\ jobs'[p] = jobs[p]
      BY <1>4, <2>2 DEF AddJob, Lists, TypeOK
    <3> QED
      BY <1>1, <1>2, <3>1, SpentType, SpentKeeps DEF Passes
  <2> QED
    BY <2>1, <2>2
<1> QED
  BY <1>3, <1>4 DEF EnqueueEligible

\* A sweep that finds the event unstamped is a cause; stamping it counts as
\* found for every process.
LEMMA SweepCause ==
    ASSUME TypeOK, TypeOK', NEW w \in Workers, Sweep(w), NEW p \in Participants
    PROVE  Passes(p) \/ Causing(p)
<1> USE ActorsDiffer, NilIsFresh, BoundsAreNumbers
<1>1. CASE EnqueueEligible(w)
  BY <1>1, EnqueueCause
<1>2. CASE TakeSweep(w) \/ FindNoCandidate(w)
  <2>1. /\ Lists(p)' \subseteq Lists(p) /\ UNCHANGED <<emails, jobs, edits, fails, dispatched, seen>>
        /\ Hands(p)' \subseteq Hands(p) /\ Asked' = Asked
    BY <1>2 DEF TakeSweep, FindNoCandidate, Lists, Hands, Asked, TypeOK
  <2>2. Causes <= Causes'
    <3>1. Found \subseteq Found'
      BY <2>1 DEF Found
    <3> QED
      BY <2>1, <3>1, CausesType, CausesKeep
  <2> QED
    BY <2>1, <2>2, SpentType, SpentKeeps DEF Passes
<1>3. CASE FindCandidate(w)
  <2>1. /\ Lists(p)' \subseteq Lists(p) \union {w} /\ Hands(p)' \subseteq Hands(p) /\ Asked' = Asked
        /\ UNCHANGED <<emails, jobs, edits, fails>> /\ dispatched = Nil /\ dispatched' = Nil
    BY <1>3 DEF FindCandidate, Lists, Hands, Asked, TypeOK
  <2>2. w \in Found' /\ Found \subseteq Found' \ {w}
    BY <1>3 DEF FindCandidate, Found, TypeOK
  <2>3. /\ Cardinality(Lists(p)') <= Cardinality(Lists(p)) + 1
        /\ Cardinality(Hands(p)') <= Cardinality(Hands(p))
        /\ Cardinality(Found) + 1 <= Cardinality(Found')
    BY <2>1, <2>2, SetsAreFinite, CardGains, CardKeeps, CardLoses
  <2>4. Spent(p)' <= Spent(p) + 1
    BY <2>1, <2>3, SpentType DEF Spent
  <2>5. Causes + 1 <= Causes'
    BY <2>1, <2>3, CausesType DEF Causes, SweepsOfThis
  <2> QED
    BY <2>4, <2>5 DEF Causing
<1>4. CASE Stamp(w)
  <2>1. /\ Lists(p)' \subseteq Lists(p) /\ Hands(p)' \subseteq Hands(p) /\ Asked' = Asked
        /\ UNCHANGED <<emails, jobs, edits, fails>> /\ dispatched' # Nil
    BY <1>4 DEF Stamp, Lists, Hands, Asked, TypeOK
  <2>2. Causes <= Causes'
    BY <2>1, CausesType DEF Causes, SweepsOfThis
  <2> QED
    BY <2>1, <2>2, SpentType, SpentKeeps DEF Passes
<1> QED
  BY <1>1, <1>2, <1>3, <1>4 DEF Sweep

LEMMA RequestCause ==
    ASSUME TypeOK, TypeOK', NEW c \in Clerks, Request(c), NEW p \in Participants
    PROVE  Passes(p) \/ Causing(p)
<1> USE ActorsDiffer, NilIsFresh
<1>1. CASE EnqueueEligible(c)
  BY <1>1, EnqueueCause
<1>2. CASE (\E q \in Participants : SendOne(c, q)) \/ SendAll(c)
  <2>1. /\ pc[c] = "idle" /\ pc'[c] # "idle"
        /\ \A b \in Clerks : b # c => pc'[b] = pc[b]
        /\ \A v \in Workers : pc'[v] = pc[v]
        /\ UNCHANGED <<edits, fails, dispatched, emails, job, batch, seen>>
    BY <1>2 DEF SendOne, SendAll, TypeOK
  <2>2. c \in Asked' /\ Asked \subseteq Asked' \ {c} /\ Found' = Found
    BY <2>1 DEF Asked, Found
  <2>3. Causes + 1 <= Causes'
    <3>1. Cardinality(Asked) + 1 <= Cardinality(Asked')
      BY <2>2, SetsAreFinite, CardLoses
    <3> QED
      BY <2>1, <2>2, <3>1, CausesType DEF Causes, SweepsOfThis
  <2>4. Hands(p)' \subseteq Hands(p)
    BY <2>1 DEF Hands
  <2>5. Cardinality(Hands(p)') <= Cardinality(Hands(p))
    BY <2>4, SetsAreFinite, CardKeeps
  <2>6. CASE \E q \in Participants : SendOne(c, q)
    <3>1. Lists(p)' \subseteq Lists(p) /\ jobs'[p] <= jobs[p] + 1
      BY <2>6 DEF SendOne, Lists, TypeOK
    <3>2. Cardinality(Lists(p)') <= Cardinality(Lists(p))
      BY <3>1, SetsAreFinite, CardKeeps
    <3> QED
      BY <2>1, <2>3, <2>5, <3>1, <3>2, SpentType DEF Spent, Causing
  <2>7. CASE SendAll(c)
    <3>1. Lists(p)' \subseteq Lists(p) \union {c} /\ jobs' = jobs
      BY <2>7 DEF SendAll, Lists, TypeOK
    <3>2. Cardinality(Lists(p)') <= Cardinality(Lists(p)) + 1
      BY <3>1, SetsAreFinite, CardGains
    <3> QED
      BY <2>1, <2>3, <2>5, <3>1, <3>2, SpentType DEF Spent, Causing
  <2> QED
    BY <1>2, <2>6, <2>7
<1>3. CASE AnswerQueued(c)
  <2>1. /\ Lists(p)' \subseteq Lists(p) /\ Hands(p)' \subseteq Hands(p) /\ Asked \subseteq Asked'
        /\ UNCHANGED <<edits, fails, dispatched, seen, emails, jobs>>
    BY <1>3 DEF AnswerQueued, Lists, Hands, Asked, TypeOK
  <2>2. Causes <= Causes'
    <3>1. Found \subseteq Found'
      BY <2>1 DEF Found
    <3> QED
      BY <2>1, <3>1, CausesType, CausesKeep
  <2> QED
    BY <2>1, <2>2, SpentType, SpentKeeps DEF Passes
<1> QED
  BY <1>1, <1>2, <1>3 DEF Request

\* A job that stalls at its last write has been emailed and waits again; a sweep
\* that dies gives its finding back and may find the event once more.
LEMMA FaultCause ==
    ASSUME TypeOK, TypeOK', Fault, NEW p \in Participants
    PROVE  Passes(p) \/ Causing(p)
<1> USE ActorsDiffer, NilIsFresh
<1> DEFINE Held == /\ edits' = edits /\ dispatched' = dispatched /\ emails' = emails
                   /\ fails' = fails + 1 /\ Asked \subseteq Asked'
                   /\ Hands(p)' \subseteq Hands(p) /\ Lists(p)' \subseteq Lists(p)
<1>1. ASSUME NEW w \in Workers, FailSend(w) PROVE Passes(p)
  <2>1. Held /\ UNCHANGED <<jobs, seen>>
    BY <1>1 DEF FailSend, Drop, Asked, Hands, Lists, TypeOK
  <2>2. Found \subseteq Found'
    BY <2>1 DEF Found
  <2> QED
    BY <2>1, <2>2, CausesType, CausesKeep, SpentType, SpentKeeps DEF Passes
<1>2. ASSUME NEW w \in Workers, StallSend(w) PROVE Causing(p)
  <2>1. Held /\ UNCHANGED seen /\ jobs'[p] <= jobs[p] + 1
    BY <1>2 DEF StallSend, Drop, Asked, Hands, Lists, TypeOK
  <2>2. Found' = Found
    BY <2>1 DEF Found
  <2>3. /\ Cardinality(Hands(p)') <= Cardinality(Hands(p))
        /\ Cardinality(Lists(p)') <= Cardinality(Lists(p))
        /\ Cardinality(Asked) <= Cardinality(Asked')
    BY <2>1, SetsAreFinite, CardKeeps
  <2>4. Spent(p)' <= Spent(p) + 1
    BY <2>1, <2>3, SpentType DEF Spent
  <2>5. Causes + 1 <= Causes'
    BY <2>1, <2>2, <2>3, CausesType DEF Causes, SweepsOfThis
  <2> QED
    BY <2>4, <2>5 DEF Causing
<1>3. ASSUME NEW w \in Workers, FailSweep(w) PROVE Passes(p)
  <2>1. Held /\ UNCHANGED jobs
    BY <1>3 DEF FailSweep, Drop, Asked, Hands, Lists, TypeOK
  <2>2. Found \subseteq Found' \union {w}
    BY <1>3 DEF FailSweep, Found, TypeOK
  <2>3. /\ Cardinality(Found) <= Cardinality(Found') + 1
        /\ Cardinality(Asked) <= Cardinality(Asked')
    BY <2>1, <2>2, SetsAreFinite, CardGains, CardKeeps
  <2>4. Causes <= Causes'
    BY <2>1, <2>3, CausesType DEF Causes, SweepsOfThis
  <2> QED
    BY <2>1, <2>4, SpentType, SpentKeeps DEF Passes
<1>4. ASSUME NEW c \in Clerks, FailRequest(c) PROVE Passes(p)
  <2>1. Held /\ UNCHANGED <<jobs, seen>>
    BY <1>4 DEF FailRequest, Drop, Asked, Hands, Lists, TypeOK
  <2>2. Found \subseteq Found'
    BY <2>1 DEF Found
  <2> QED
    BY <2>1, <2>2, CausesType, CausesKeep, SpentType, SpentKeeps DEF Passes
<1> QED
  BY <1>1, <1>2, <1>3, <1>4 DEF Fault

\* An edit of the settings lets every process find the event again.
LEMMA EditCause ==
    ASSUME TypeOK, TypeOK', NEW m, UpdateDispatch(m), NEW p \in Participants
    PROVE  Passes(p)
<1>1. /\ edits' = edits + 1 /\ dispatched' = Nil /\ UNCHANGED <<fails, emails, jobs, pc, job, batch>>
  BY DEF UpdateDispatch
<1>2. Hands(p)' = Hands(p) /\ Lists(p)' = Lists(p) /\ Asked' = Asked
  BY <1>1 DEF Hands, Lists, Asked
<1>3. Cardinality(Workers) * edits' = Cardinality(Workers) * edits + Cardinality(Workers)
  BY <1>1, CausesType
<1>4. Causes <= Causes'
  BY <1>1, <1>2, <1>3, CausesType DEF Causes, SweepsOfThis
<1> QED
  BY <1>1, <1>2, <1>4, SpentType, SpentKeeps DEF Passes

LEMMA CauseStep == TypeOK /\ TypeOK' /\ CauseInv /\ [Next]_vars => CauseInv'
<1> SUFFICES ASSUME TypeOK, TypeOK', CauseInv, [Next]_vars, NEW p \in Participants
             PROVE  Spent(p)' <= Causes'
  BY DEF CauseInv
<1>1. Passes(p) \/ Causing(p)
  <2>1. ASSUME NEW w \in Workers, Send(w) \/ Sweep(w) PROVE Passes(p) \/ Causing(p)
    BY <2>1, SendCause, SweepCause
  <2>2. ASSUME NEW m \in {"MANUAL", "AUTO"}, UpdateDispatch(m) PROVE Passes(p)
    BY <2>2, EditCause
  <2>3. CASE \/ SweepDue \/ UpdateTemplate \/ ComeDue \/ UNCHANGED vars
             \/ \E q \in Flaggable, flag \in BOOLEAN : SetWillNotAttend(q, flag)
             \/ \E q \in Participants : Provision(q)
    <3>1. UNCHANGED <<edits, fails, dispatched, seen, emails, jobs, pc, job, batch>>
      BY <2>3 DEF SweepDue, UpdateTemplate, ComeDue, SetWillNotAttend, Provision, vars
    <3>2. /\ Hands(p)' = Hands(p) /\ Lists(p)' = Lists(p)
          /\ Asked' = Asked /\ Found' = Found
      BY <3>1 DEF Hands, Lists, Asked, Found
    <3> QED
      BY <3>1, <3>2, CausesType, CausesKeep, SpentType, SpentKeeps DEF Passes
  <2> QED
    BY <2>1, <2>2, <2>3, RequestCause, FaultCause DEF Next, Environment
<1>2. Spent(p) <= Causes
  BY DEF CauseInv
<1> QED
  <2>1. Spent(p) \in Nat /\ Spent(p)' \in Nat /\ Causes \in Nat
    BY SpentType, CausesType
  <2>2. Causes' \in Int
    <3>1. edits' \in Nat /\ Cardinality(Workers) \in Nat
      BY ActorsAreFinite, FS_CardinalityType, BoundsAreNumbers DEF TypeOK
    <3>2. Cardinality(Workers) * edits' \in Int
      BY <3>1
    <3> QED
      BY <3>2, CausesType
  <2> QED
    BY <1>1, <1>2, <2>1, <2>2 DEF Passes, Causing

LEMMA CauseInit == Init => CauseInv
<1> SUFFICES ASSUME Init, NEW p \in Participants PROVE Spent(p) <= Causes
  BY DEF CauseInv
<1>1. Hands(p) = {} /\ Lists(p) = {} /\ Asked = {} /\ Found = {}
  BY ActorsDiffer DEF Init, Hands, Lists, Asked, Found
<1>2. Cardinality(Workers) * 0 = 0
  BY ActorsAreFinite, FS_CardinalityType
<1>3. Spent(p) = 0 /\ Causes = 0
  BY <1>1, <1>2, FS_EmptySet DEF Init, Spent, Causes, SweepsOfThis
<1> QED
  BY <1>3

\* However many processes sweep, whoever clicks, whatever is edited or dies: an
\* attendee is sent at most one certificate per process and version of the
\* settings, and one more per death and per request by hand.
THEOREM EveryEmailHasACause == Spec => []EmailsHaveACause
<1>1. TypeOK /\ TypeOK' /\ CauseInv => EmailsHaveACause
  <2> SUFFICES ASSUME TypeOK, TypeOK', CauseInv, NEW p \in Participants
               PROVE  emails[p] <= Cardinality(Workers) * (edits + 1) + fails + Cardinality(Asked)
    BY DEF EmailsHaveACause, Asked
  <2>1. emails[p] <= Spent(p) /\ Spent(p) <= Causes
    BY SpentType DEF Spent, CauseInv
  <2>2. Cardinality(Workers) * (edits + 1) = Cardinality(Workers) * edits + Cardinality(Workers)
    BY CausesType
  <2> QED
    BY <2>1, <2>2, SpentType, CausesType DEF Causes, SweepsOfThis
<1> QED
  BY <1>1, CauseInit, CauseStep, TypeCorrect, PTL DEF Spec
=============================================================================
