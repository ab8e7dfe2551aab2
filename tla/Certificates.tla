---------------------------- MODULE Certificates ----------------------------
(***************************************************************************)
(* Sending certificates: backend/src/certificates/certificates.service.ts  *)
(* and certificates.worker.ts, for one event.                              *)
(*                                                                         *)
(* Workers take jobs from a BullMQ queue: "send" jobs for one participant, *)
(* and the repeatable "sweep" job that dispatches AUTO events.  Clerks are *)
(* HTTP requests of the organizer that only enqueue.  A step is one round  *)
(* trip to Postgres, Redis or the mail server.  BullMQ is external: a job  *)
(* that throws is failed and not retried (attempts is 1), a job whose      *)
(* worker dies stalls and is put back, or failed if it stalled before.     *)
(***************************************************************************)
EXTENDS Integers, FiniteSets

CONSTANTS
    Participants,
    Workers,        \* jobs processed at once, one per backend process
    Clerks,         \* sendOne and sendAll requests
    Early,          \* participants provisioned before the model starts
    Flaggable,      \* bound: participants whose willNotAttend is toggled
    MaxEdits,       \* bound: edits of the dispatch settings
    MaxFails,       \* bound: jobs and requests that throw or die
    Nil

ASSUME EarlyAreParticipants == Early \subseteq Participants
ASSUME BoundsAreNumbers == MaxEdits \in Nat /\ MaxFails \in Nat
ASSUME NilIsFresh == Nil \notin Nat /\ Nil \notin Participants
ASSUME ActorsDiffer == Workers \intersect Clerks = {}
ASSUME ActorsAreFinite == IsFiniteSet(Workers) /\ IsFiniteSet(Clerks)

VARIABLES
    known,        \* Postgres: the event's participants
    flagged,      \* Postgres: those with willNotAttend
    sentAt,       \* Postgres: those with certificateSentAt
    mode,         \* Postgres: certificateDispatchMode
    template,     \* Postgres: whether certificateTemplateUrl is set
    due,          \* whether the last day and the delay have passed
    edits,        \* counts the dispatch settings the event has had
    dispatched,   \* Postgres: certificatesDispatchedAt, as the settings the
                  \* sweep that wrote it had read
    jobs,         \* BullMQ: waiting send jobs of each participant
    sweepJob,     \* BullMQ: whether a sweep is waiting
    failed,       \* BullMQ: participants with a failed send job
    skipped,      \* the log: participants whose job found no template
    emails,       \* the mail server: certificates sent to each participant
    pc,           \* where each worker and clerk is
    job,          \* the participant of a worker's send job
    batch,        \* participants still to be enqueued by an actor
    seen,         \* the settings a worker's sweep has read
    fails

people == <<known, flagged>>
settings == <<mode, template, due, edits>>
queue == <<jobs, sweepJob, failed>>
actor == <<job, batch, seen>>
vars == <<people, sentAt, settings, dispatched, queue, skipped, emails, pc, actor, fails>>

----------------------------------------------------------------------------
Actors == Workers \union Clerks
Sending == {"read", "email", "mark"}
Sweeping == {"sweep", "list", "add"}

Init ==
    /\ known = Early
    /\ flagged = {}
    /\ sentAt = {}
    /\ mode \in {"MANUAL", "AUTO"}
    /\ template \in BOOLEAN
    /\ due = FALSE
    /\ edits = 0
    /\ dispatched = Nil
    /\ jobs = [p \in Participants |-> 0]
    /\ sweepJob = FALSE
    /\ failed = {}
    /\ skipped = {}
    /\ emails = [p \in Participants |-> 0]
    /\ pc = [a \in Actors |-> "idle"]
    /\ job = [w \in Workers |-> Nil]
    /\ batch = [a \in Actors |-> {}]
    /\ seen = [w \in Workers |-> Nil]
    /\ fails = 0

Move(a, from, to) == pc[a] = from /\ pc' = [pc EXCEPT ![a] = to]
Enqueue(p) == jobs' = [jobs EXCEPT ![p] = @ + 1]

\* enqueueEligibleParticipants: what its findMany selects.
Eligible == known \ (sentAt \union flagged)

(***************************************************************************)
(* Plausible slips; none is part of Next.                                  *)
(***************************************************************************)

\* The event is stamped before its participants are enqueued.
FindCandidateStamps(w) ==
    /\ Move(w, "sweep", "list")
    /\ mode = "AUTO" /\ template /\ due /\ dispatched = Nil
    /\ seen' = [seen EXCEPT ![w] = edits]
    /\ dispatched' = edits
    /\ UNCHANGED <<people, sentAt, settings, queue, skipped, emails, job, batch, fails>>

\* certificateSentAt is written before the email goes out.
ReadParticipantMarks(w) ==
    /\ Move(w, "read", "email")
    /\ template
    /\ sentAt' = sentAt \union {job[w]}
    /\ UNCHANGED <<people, settings, dispatched, queue, skipped, emails, actor, fails>>

\* The sweep that found a due event does not stamp it.
StampNothing(w) ==
    /\ Move(w, "add", "idle")
    /\ batch[w] = {}
    /\ seen' = [seen EXCEPT ![w] = Nil]
    /\ UNCHANGED <<people, sentAt, settings, dispatched, queue, skipped, emails, job, batch, fails>>

\* The worker goes on to another job with this one still in its hands.
MarkSentKeeps(w) ==
    /\ Move(w, "mark", "idle")
    /\ sentAt' = sentAt \union {job[w]}
    /\ UNCHANGED <<people, settings, dispatched, queue, skipped, emails, actor, fails>>

(***************************************************************************)
(* send, on a worker                                                       *)
(***************************************************************************)
TakeSend(w, p) ==
    /\ Move(w, "idle", "read")
    /\ jobs[p] > 0
    /\ jobs' = [jobs EXCEPT ![p] = @ - 1]
    /\ job' = [job EXCEPT ![w] = p]
    /\ UNCHANGED <<people, sentAt, settings, dispatched, sweepJob, failed, skipped, emails, batch, seen, fails>>

ReadParticipant(w) ==
    /\ Move(w, "read", "email")
    /\ template
    /\ UNCHANGED <<people, sentAt, settings, dispatched, queue, skipped, emails, actor, fails>>

\* The event has no template: the job completes without an email.
SkipParticipant(w) ==
    /\ Move(w, "read", "idle")
    /\ ~template
    /\ skipped' = skipped \union {job[w]}
    /\ job' = [job EXCEPT ![w] = Nil]
    /\ UNCHANGED <<people, sentAt, settings, dispatched, queue, emails, batch, seen, fails>>

\* Fetch the template, render, and send.
SendEmail(w) ==
    /\ Move(w, "email", "mark")
    /\ emails' = [emails EXCEPT ![job[w]] = @ + 1]
    /\ UNCHANGED <<people, sentAt, settings, dispatched, queue, skipped, actor, fails>>

MarkSent(w) ==
    /\ Move(w, "mark", "idle")
    /\ sentAt' = sentAt \union {job[w]}
    /\ job' = [job EXCEPT ![w] = Nil]
    /\ UNCHANGED <<people, settings, dispatched, queue, skipped, emails, batch, seen, fails>>

(***************************************************************************)
(* runAutoDispatchSweep, on a worker                                       *)
(***************************************************************************)

\* Every 15 minutes; a repeatable job is waiting at most once.
SweepDue ==
    /\ ~sweepJob
    /\ sweepJob' = TRUE
    /\ UNCHANGED <<people, sentAt, settings, dispatched, jobs, failed, skipped, emails, pc, actor, fails>>

TakeSweep(w) ==
    /\ Move(w, "idle", "sweep")
    /\ sweepJob
    /\ sweepJob' = FALSE
    /\ UNCHANGED <<people, sentAt, settings, dispatched, jobs, failed, skipped, emails, actor, fails>>

FindCandidate(w) ==
    /\ Move(w, "sweep", "list")
    /\ mode = "AUTO" /\ template /\ due /\ dispatched = Nil
    /\ seen' = [seen EXCEPT ![w] = edits]
    /\ UNCHANGED <<people, sentAt, settings, dispatched, queue, skipped, emails, job, batch, fails>>

FindNoCandidate(w) ==
    /\ Move(w, "sweep", "idle")
    /\ ~(mode = "AUTO" /\ template /\ due /\ dispatched = Nil)
    /\ UNCHANGED <<people, sentAt, settings, dispatched, queue, skipped, emails, actor, fails>>

ListEligible(a) ==
    /\ Move(a, "list", "add")
    /\ batch' = [batch EXCEPT ![a] = Eligible]
    /\ UNCHANGED <<people, sentAt, settings, dispatched, queue, skipped, emails, job, seen, fails>>

\* The queue.add calls of the Promise.all arrive in any order.
AddJob(a, p) ==
    /\ pc[a] = "add" /\ p \in batch[a]
    /\ Enqueue(p)
    /\ batch' = [batch EXCEPT ![a] = @ \ {p}]
    /\ UNCHANGED <<people, sentAt, settings, dispatched, sweepJob, failed, skipped, emails, pc, job, seen, fails>>

\* The sweep's last write, whatever happened to the event since it was read.
Stamp(w) ==
    /\ Move(w, "add", "idle")
    /\ batch[w] = {}
    /\ dispatched' = seen[w]
    /\ seen' = [seen EXCEPT ![w] = Nil]
    /\ UNCHANGED <<people, sentAt, settings, queue, skipped, emails, job, batch, fails>>

(***************************************************************************)
(* sendOne and sendAll, as HTTP requests                                   *)
(***************************************************************************)

\* sendOne does not look at certificateSentAt.
SendOne(c, p) ==
    /\ Move(c, "idle", "done")
    /\ p \in known
    /\ Enqueue(p)
    /\ UNCHANGED <<people, sentAt, settings, dispatched, sweepJob, failed, skipped, emails, actor, fails>>

SendAll(c) ==
    /\ Move(c, "idle", "list")
    /\ UNCHANGED <<people, sentAt, settings, dispatched, queue, skipped, emails, actor, fails>>

AnswerQueued(c) ==
    /\ Move(c, "add", "done")
    /\ batch[c] = {}
    /\ UNCHANGED <<people, sentAt, settings, dispatched, queue, skipped, emails, actor, fails>>

(***************************************************************************)
(* Other writers of the same rows, and the clock                           *)
(***************************************************************************)

\* updateCertificate with dispatchMode or autoDelayHours: the event becomes
\* eligible again, and the new delay may or may not have passed. A templateUrl
\* may come along, or null, which @IsOptional lets pass and clears it.
UpdateDispatch(m) ==
    /\ edits < MaxEdits
    /\ mode' = m
    /\ template' \in BOOLEAN
    /\ edits' = edits + 1
    /\ due' \in BOOLEAN
    /\ dispatched' = Nil
    /\ UNCHANGED <<people, sentAt, queue, skipped, emails, pc, actor, fails>>

\* updateCertificate with a templateUrl or a position only: no stamp is cleared.
UpdateTemplate ==
    /\ template' \in BOOLEAN
    /\ UNCHANGED <<people, sentAt, mode, due, edits, dispatched, queue, skipped, emails, pc, actor, fails>>

ComeDue ==
    /\ due' = TRUE
    /\ UNCHANGED <<people, sentAt, mode, template, edits, dispatched, queue, skipped, emails, pc, actor, fails>>

SetWillNotAttend(p, flag) ==
    /\ p \in known
    /\ flagged' = IF flag THEN flagged \union {p} ELSE flagged \ {p}
    /\ UNCHANGED <<known, sentAt, settings, dispatched, queue, skipped, emails, pc, actor, fails>>

\* Checkout provisions one more attendee.
Provision(p) ==
    /\ known' = known \union {p}
    /\ UNCHANGED <<flagged, sentAt, settings, dispatched, queue, skipped, emails, pc, actor, fails>>

(***************************************************************************)
(* Faults                                                                  *)
(***************************************************************************)
Drop(a) ==
    /\ fails < MaxFails
    /\ fails' = fails + 1
    /\ pc' = [pc EXCEPT ![a] = IF a \in Workers THEN "idle" ELSE "done"]
    /\ batch' = [batch EXCEPT ![a] = {}]
    /\ UNCHANGED <<people, sentAt, settings, dispatched, skipped, emails>>

\* A send job throws, or stalls for the second time: it is failed.
FailSend(w) ==
    /\ pc[w] \in Sending
    /\ Drop(w)
    /\ failed' = failed \union {job[w]}
    /\ job' = [job EXCEPT ![w] = Nil]
    /\ UNCHANGED <<jobs, sweepJob, seen>>

\* The worker dies: its send job stalls and is put back.
StallSend(w) ==
    /\ pc[w] \in Sending
    /\ Drop(w)
    /\ Enqueue(job[w])
    /\ job' = [job EXCEPT ![w] = Nil]
    /\ UNCHANGED <<sweepJob, failed, seen>>

\* The sweep throws or its worker dies; another sweep comes with the clock.
FailSweep(w) ==
    /\ pc[w] \in Sweeping
    /\ Drop(w)
    /\ seen' = [seen EXCEPT ![w] = Nil]
    /\ UNCHANGED <<queue, job>>

FailRequest(c) ==
    /\ pc[c] \in {"list", "add"}
    /\ Drop(c)
    /\ UNCHANGED <<queue, job, seen>>

----------------------------------------------------------------------------
Send(w) ==
    \/ \E p \in Participants : TakeSend(w, p)
    \/ ReadParticipant(w) \/ SkipParticipant(w) \/ SendEmail(w) \/ MarkSent(w)

EnqueueEligible(a) == ListEligible(a) \/ \E p \in Participants : AddJob(a, p)

Sweep(w) ==
    \/ TakeSweep(w) \/ FindCandidate(w) \/ FindNoCandidate(w)
    \/ EnqueueEligible(w) \/ Stamp(w)

Request(c) ==
    \/ \E p \in Participants : SendOne(c, p)
    \/ SendAll(c) \/ EnqueueEligible(c) \/ AnswerQueued(c)

Environment ==
    \/ \E m \in {"MANUAL", "AUTO"} : UpdateDispatch(m)
    \/ UpdateTemplate
    \/ ComeDue
    \/ \E p \in Flaggable, flag \in BOOLEAN : SetWillNotAttend(p, flag)
    \/ \E p \in Participants : Provision(p)

Fault ==
    \/ \E w \in Workers : FailSend(w) \/ StallSend(w) \/ FailSweep(w)
    \/ \E c \in Clerks : FailRequest(c)

Next ==
    \/ \E w \in Workers : Send(w) \/ Sweep(w)
    \/ \E c \in Clerks : Request(c)
    \/ SweepDue
    \/ Environment
    \/ Fault

Spec == Init /\ [][Next]_vars

\* The clock keeps adding sweeps, a worker takes them in between send jobs,
\* and the calls of a job that was taken are answered.
FairSpec ==
    /\ Spec
    /\ WF_vars(SweepDue)
    /\ SF_vars(\E w \in Workers : TakeSweep(w))
    /\ \A w \in Workers : WF_vars(pc[w] # "idle" /\ (Send(w) \/ Sweep(w)))

----------------------------------------------------------------------------
(***************************************************************************)
(* Properties                                                              *)
(***************************************************************************)
Working(w) == pc[w] \in Sending

\* Every variable has the shape the code gives it.
TypeOK ==
    /\ known \subseteq Participants
    /\ flagged \subseteq Flaggable
    /\ sentAt \subseteq Participants
    /\ mode \in {"MANUAL", "AUTO"}
    /\ template \in BOOLEAN /\ due \in BOOLEAN
    /\ edits \in 0 .. MaxEdits
    /\ dispatched \in 0 .. MaxEdits \union {Nil}
    /\ jobs \in [Participants -> Nat]
    /\ sweepJob \in BOOLEAN
    /\ failed \subseteq Participants
    /\ skipped \subseteq Participants
    /\ emails \in [Participants -> Nat]
    /\ pc \in [Actors -> {"idle", "done"} \union Sending \union Sweeping]
    /\ job \in [Workers -> Participants \union {Nil}]
    /\ batch \in [Actors -> SUBSET Participants]
    /\ seen \in [Workers -> 0 .. MaxEdits \union {Nil}]
    /\ fails \in 0 .. MaxFails
    /\ \A w \in Workers : (Working(w) <=> job[w] # Nil) /\ pc[w] # "done"
    /\ \A w \in Workers : pc[w] \in {"list", "add"} <=> seen[w] # Nil

\* The participant has been sent the certificate, or a job for it is waiting,
\* being worked on, listed as failed for the organizer to see, or logged as
\* skipped because the template was gone.
Covered(p) ==
    \/ emails[p] > 0
    \/ jobs[p] > 0
    \/ \E w \in Workers : job[w] = p
    \/ p \in failed \union skipped

\* Whatever dies midway, an event is stamped as dispatched only when each
\* attendee it had is covered, and so the sweep may skip it from then on.
DispatchCovers ==
    dispatched # Nil => \A p \in Early \ Flaggable : Covered(p)

\* certificateSentAt, which keeps an attendee out of every later dispatch, is
\* never written without an email.
SentWasEmailed == \A p \in sentAt : emails[p] > 0

\* However sweeps, clicks, edits and deaths overlap, every certificate an
\* attendee is sent beyond the first has a cause: another process whose sweep
\* found the event before the first had stamped it, once per edit of the
\* settings; a job or request that died; or a request by hand. The stamp keeps
\* every later sweep away, and a job taken is in the queue no more.
EmailsHaveACause ==
    \A p \in Participants :
        emails[p] <= Cardinality(Workers) * (edits + 1) + fails
                     + Cardinality({c \in Clerks : pc[c] # "idle"})

\* A due AUTO event with a template is dispatched in the end, unless its
\* settings change.
DueIsDispatched ==
    (mode = "AUTO" /\ template /\ due) ~>
        (dispatched # Nil \/ mode = "MANUAL" \/ ~template \/ ~due)

\* backend/README.md:58-60: an edit of the dispatch settings makes the event
\* eligible for the sweep again, so a stamp is never older than the settings.
EditReopens == dispatched \in {Nil, edits}
=============================================================================
