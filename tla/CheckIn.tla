------------------------------ MODULE CheckIn ------------------------------
(***************************************************************************)
(* Registering attendance: backend/src/attendance/attendance.service.ts.   *)
(*                                                                         *)
(* Several requests run at once, in one or more Node processes.  Each is a *)
(* sequence of awaits: between two of them any other request may run.  A   *)
(* step of the model is one round trip to Postgres or to Redis, so the     *)
(* model has exactly the interleavings the awaits allow.                   *)
(*                                                                         *)
(* Postgres keeps one attendance row per participant and day (rows), Redis *)
(* keeps the 5 s scan lock (lock) and the two counters of a day (total and *)
(* present, Nil when the key does not exist).                              *)
(***************************************************************************)
EXTENDS Integers, FiniteSets

CONSTANTS
    Requests,       \* calls of checkIn and of getDaySummary
    Participants,   \* participant ids a request may name
    Days,           \* the event's days
    Registered,     \* participants provisioned before the model starts
    Attended,       \* the registered ones already PRESENT on every day
    WarmStart,      \* whether Redis holds both counters of every day at first
    Flaggable,      \* bound: participants whose willNotAttend is toggled
    MaxFails,       \* bound: requests that die with an exception or a crash
    MaxRestarts,    \* bound: times Redis loses its keys
    Nil             \* an absent key, an unset local

ASSUME RequestsFinite == IsFiniteSet(Requests)
ASSUME ParticipantsFinite == IsFiniteSet(Participants)
ASSUME InitialRows == Attended \subseteq Registered /\ Registered \subseteq Participants
ASSUME FlaggableAreParticipants == Flaggable \subseteq Participants
ASSUME BoundsAreNumbers == MaxFails \in Nat /\ MaxRestarts \in Nat
ASSUME WarmStartIsBoolean == WarmStart \in BOOLEAN
ASSUME NilIsFresh == Nil \notin Nat /\ Nil \notin Participants /\ Nil \notin Days

VARIABLES
    rows,      \* Postgres: status of the attendance row of <<participant, day>>
    willNot,   \* Postgres: participants with willNotAttend = true
    lock,      \* Redis: the checkin-lock keys that exist
    total,     \* Redis: attendance:total:<day>
    present,   \* Redis: attendance:present:<day>
    pc,        \* where each request is
    back,      \* where warmSummaryCache returns to
    who, day,  \* the request's participant and day
    cTotal,    \* the request's local copies of the two numbers
    cPresent,
    reply,     \* what the request answered
    orphaned,  \* history: keys whose request died between its lock and its UPDATE
    fails, restarts

db == <<rows, willNot>>
redis == <<total, present>>
args == <<who, day>>
locals == <<cTotal, cPresent>>
faults == <<orphaned, fails, restarts>>
vars == <<db, lock, redis, pc, back, args, locals, reply, faults>>

----------------------------------------------------------------------------
Keys == Participants \X Days
Key(r) == <<who[r], day[r]>>

RowsOf(d) == {p \in Participants : rows[<<p, d>>] # "NONE"}
PresentOn(d) == {p \in Participants : rows[<<p, d>>] = "PRESENT"}
Provisioned(p) == \E d \in Days : rows[<<p, d>>] # "NONE"

\* Number(value ?? 0)
OrZero(n) == IF n = Nil THEN 0 ELSE n

Locations == {"idle", "lock", "warm", "counting", "fillPresent", "update",
              "status", "incr", "broadcast", "reread", "read", "done"}
Replies == {"none", "checked_in", "already_checked_in", "not_found",
            "summary", "error"}

\* Inside warmSummaryCache.
Filling == {"warm", "counting", "fillPresent"}

\* Started, and not answered yet.
Live(r) == pc[r] \notin {"idle", "done"}

\* Between taking the lock and the UPDATE: this request may still flip its row.
BeforeUpdate(r) ==
    \/ pc[r] = "update"
    \/ pc[r] \in Filling /\ back[r] = "update"

\* The UPDATE matched, and the counter has not been incremented for it yet.
Uncounted(r) ==
    pc[r] \in Filling \union {"incr"} /\ back[r] = "incr"

InitialRow(k) == IF k[1] \in Attended THEN "PRESENT"
                 ELSE IF k[1] \in Registered THEN "PENDING" ELSE "NONE"

Init ==
    /\ rows = [k \in Keys |-> InitialRow(k)]
    /\ willNot = {}
    /\ lock = {}
    /\ total = [d \in Days |-> IF WarmStart THEN Cardinality(Registered) ELSE Nil]
    /\ present = [d \in Days |-> IF WarmStart THEN Cardinality(Attended) ELSE Nil]
    /\ pc = [r \in Requests |-> "idle"]
    /\ back = [r \in Requests |-> "none"]
    /\ who = [r \in Requests |-> Nil]
    /\ day = [r \in Requests |-> Nil]
    /\ cTotal = [r \in Requests |-> Nil]
    /\ cPresent = [r \in Requests |-> Nil]
    /\ reply = [r \in Requests |-> "none"]
    /\ orphaned = {}
    /\ fails = 0
    /\ restarts = 0

----------------------------------------------------------------------------
Move(r, from, to) == pc[r] = from /\ pc' = [pc EXCEPT ![r] = to]
Answer(r, from, what) == Move(r, from, "done") /\ reply' = [reply EXCEPT ![r] = what]

(***************************************************************************)
(* Plausible slips in the handlers below.  None is part of Next: each      *)
(* takes the place of the action it is named after, to see that the        *)
(* properties notice.                                                      *)
(***************************************************************************)

\* The UPDATE loses its WHERE status = 'PENDING'.
UpdateRowUnguarded(r) ==
    /\ Move(r, "update", "warm")
    /\ rows' = [rows EXCEPT ![Key(r)] = "PRESENT"]
    /\ back' = [back EXCEPT ![r] = "incr"]
    /\ UNCHANGED <<willNot, lock, redis, args, locals, reply, faults>>

\* The UPDATE is not awaited, and rolled back.
UpdateRowRolledBack(r) ==
    /\ Move(r, "update", "warm")
    /\ rows[Key(r)] = "PENDING"
    /\ back' = [back EXCEPT ![r] = "incr"]
    /\ UNCHANGED <<db, lock, redis, args, locals, reply, faults>>

\* The early return for count === 0 is missing.
UpdateMissCounts(r) ==
    /\ Move(r, "update", "warm")
    /\ rows[Key(r)] # "PENDING"
    /\ back' = [back EXCEPT ![r] = "incr"]
    /\ UNCHANGED <<db, lock, redis, args, locals, reply, faults>>

\* currentStatus does not look for a missing row.
CurrentStatusUnchecked(r) ==
    /\ Answer(r, "status", IF rows[Key(r)] = "PRESENT"
                           THEN "already_checked_in" ELSE "checked_in")
    /\ UNCHANGED <<db, lock, redis, back, args, locals, faults>>

\* The two COUNTs are not awaited.
FillTotalEarly(r) ==
    /\ Move(r, "counting", "fillPresent")
    /\ total' = IF total[day[r]] = Nil
                THEN [total EXCEPT ![day[r]] = cTotal[r]] ELSE total
    /\ UNCHANGED <<db, lock, present, back, args, locals, reply, faults>>

\* SET present without NX.
FillPresentOverwrites(r) ==
    /\ Move(r, "fillPresent", back[r])
    /\ present' = [present EXCEPT ![day[r]] = cPresent[r]]
    /\ cTotal' = [cTotal EXCEPT ![r] = Nil]
    /\ cPresent' = [cPresent EXCEPT ![r] = Nil]
    /\ UNCHANGED <<db, lock, total, back, args, reply, faults>>

(***************************************************************************)
(* checkIn                                                                 *)
(***************************************************************************)

\* The event is the tenant's and the QR body, if any, is valid for it.
StartCheckIn(r, p, d) ==
    /\ Move(r, "idle", "lock")
    /\ who' = [who EXCEPT ![r] = p]
    /\ day' = [day EXCEPT ![r] = d]
    /\ UNCHANGED <<db, lock, redis, back, locals, reply, faults>>

\* assertEventOwnership or resolveParticipantFromQr throws.
RejectCheckIn(r) ==
    /\ Answer(r, "idle", "error")
    /\ UNCHANGED <<db, lock, redis, back, args, locals, faults>>

\* SET NX EX 5 acquired.
TakeLock(r) ==
    /\ Move(r, "lock", "warm")
    /\ Key(r) \notin lock
    /\ lock' = lock \union {Key(r)}
    /\ back' = [back EXCEPT ![r] = "update"]
    /\ UNCHANGED <<db, redis, args, locals, reply, faults>>

\* SET NX EX 5 refused: the request only reports the row.
LockBusy(r) ==
    /\ Move(r, "lock", "status")
    /\ Key(r) \in lock
    /\ UNCHANGED <<db, lock, redis, back, args, locals, reply, faults>>

\* UPDATE ... WHERE status = 'PENDING' matched the row.
UpdateRow(r) ==
    /\ Move(r, "update", "warm")
    /\ rows[Key(r)] = "PENDING"
    /\ rows' = [rows EXCEPT ![Key(r)] = "PRESENT"]
    /\ back' = [back EXCEPT ![r] = "incr"]
    /\ UNCHANGED <<willNot, lock, redis, args, locals, reply, faults>>

\* The UPDATE matched no row.
UpdateMiss(r) ==
    /\ Move(r, "update", "status")
    /\ rows[Key(r)] # "PENDING"
    /\ UNCHANGED <<db, lock, redis, back, args, locals, reply, faults>>

\* Any row that is not PRESENT is reported as freshly checked in.
StatusReply == [NONE |-> "not_found", PENDING |-> "checked_in",
                PRESENT |-> "already_checked_in"]

CurrentStatus(r) ==
    /\ Answer(r, "status", StatusReply[rows[Key(r)]])
    /\ UNCHANGED <<db, lock, redis, back, args, locals, faults>>

\* INCR creates a missing key with the value 1.
IncrementPresent(r) ==
    LET n == OrZero(present[day[r]]) + 1 IN
    /\ Move(r, "incr", "broadcast")
    /\ present' = [present EXCEPT ![day[r]] = n]
    /\ cPresent' = [cPresent EXCEPT ![r] = n]
    /\ UNCHANGED <<db, lock, total, back, args, cTotal, reply, faults>>

\* GET total, then broadcastSummary in the same turn of the event loop.
Broadcast(r) ==
    /\ Move(r, "broadcast", "reread")
    /\ cTotal' = [cTotal EXCEPT ![r] = OrZero(total[day[r]])]
    /\ UNCHANGED <<db, lock, redis, back, args, cPresent, reply, faults>>

\* findUniqueOrThrow, and the answer.
Confirm(r) ==
    /\ Answer(r, "reread", "checked_in")
    /\ UNCHANGED <<db, lock, redis, back, args, locals, faults>>

(***************************************************************************)
(* warmSummaryCache, called before the UPDATE, after it by                 *)
(* incrementPresent, and by getDaySummary                                  *)
(***************************************************************************)

\* EXISTS total: only this key decides whether the counters are warm.
WarmHit(r) ==
    /\ Move(r, "warm", back[r])
    /\ total[day[r]] # Nil
    /\ UNCHANGED <<db, lock, redis, back, args, locals, reply, faults>>

WarmMiss(r) ==
    /\ Move(r, "warm", "counting")
    /\ total[day[r]] = Nil
    /\ UNCHANGED <<db, lock, redis, back, args, locals, reply, faults>>

\* The two COUNTs of the Promise.all use separate connections.
CountTotal(r) ==
    /\ pc[r] = "counting" /\ cTotal[r] = Nil
    /\ cTotal' = [cTotal EXCEPT ![r] = Cardinality(RowsOf(day[r]))]
    /\ UNCHANGED <<db, lock, redis, pc, back, args, cPresent, reply, faults>>

CountPresent(r) ==
    /\ pc[r] = "counting" /\ cPresent[r] = Nil
    /\ cPresent' = [cPresent EXCEPT ![r] = Cardinality(PresentOn(day[r]))]
    /\ UNCHANGED <<db, lock, redis, pc, back, args, cTotal, reply, faults>>

\* SET total NX
FillTotal(r) ==
    /\ cTotal[r] # Nil /\ cPresent[r] # Nil
    /\ Move(r, "counting", "fillPresent")
    /\ total' = IF total[day[r]] = Nil
                THEN [total EXCEPT ![day[r]] = cTotal[r]] ELSE total
    /\ UNCHANGED <<db, lock, present, back, args, locals, reply, faults>>

\* SET present NX, and return to the caller.
FillPresent(r) ==
    /\ Move(r, "fillPresent", back[r])
    /\ present' = IF present[day[r]] = Nil
                  THEN [present EXCEPT ![day[r]] = cPresent[r]] ELSE present
    /\ cTotal' = [cTotal EXCEPT ![r] = Nil]
    /\ cPresent' = [cPresent EXCEPT ![r] = Nil]
    /\ UNCHANGED <<db, lock, total, back, args, reply, faults>>

(***************************************************************************)
(* getSummary: one request per day, as its Promise.all runs them           *)
(***************************************************************************)
StartSummary(r, d) ==
    /\ Move(r, "idle", "warm")
    /\ back' = [back EXCEPT ![r] = "read"]
    /\ day' = [day EXCEPT ![r] = d]
    /\ UNCHANGED <<db, lock, redis, who, locals, reply, faults>>

\* MGET total present; missing = total - present.
ReadSummary(r) ==
    /\ Answer(r, "read", "summary")
    /\ cTotal' = [cTotal EXCEPT ![r] = OrZero(total[day[r]])]
    /\ cPresent' = [cPresent EXCEPT ![r] = OrZero(present[day[r]])]
    /\ UNCHANGED <<db, lock, redis, back, args, faults>>

(***************************************************************************)
(* Other writers of the same rows                                          *)
(***************************************************************************)

\* checkout.service.ts: the webhook's transaction creates the participant and
\* a PENDING row for every day.  The id is generated there, so no request can
\* have named it before.
Provision(p) ==
    /\ ~Provisioned(p)
    /\ \A r \in Requests : who[r] # p
    /\ rows' = [k \in Keys |-> IF k[1] = p THEN "PENDING" ELSE rows[k]]
    /\ UNCHANGED <<willNot, lock, redis, pc, back, args, locals, reply, faults>>

SetWillNotAttend(p, flag) ==
    /\ Provisioned(p)
    /\ willNot' = IF flag THEN willNot \union {p} ELSE willNot \ {p}
    /\ UNCHANGED <<rows, lock, redis, pc, back, args, locals, reply, faults>>

(***************************************************************************)
(* Time and faults                                                         *)
(***************************************************************************)

\* EX 5: the lock goes by itself, whether or not its request has finished.
LockExpires(k) ==
    /\ k \in lock
    /\ lock' = lock \ {k}
    /\ UNCHANGED <<db, redis, pc, back, args, locals, reply, faults>>

\* What R leaves locked and not recorded if it dies now.
Orphans(R) == {Key(r) : r \in {s \in R : BeforeUpdate(s)}}

\* An await of the request throws, or its connection drops.
Fail(r) ==
    /\ fails < MaxFails
    /\ Live(r)
    /\ pc' = [pc EXCEPT ![r] = "done"]
    /\ reply' = [reply EXCEPT ![r] = "error"]
    /\ orphaned' = orphaned \union Orphans({r})
    /\ fails' = fails + 1
    /\ UNCHANGED <<db, lock, redis, back, args, locals, restarts>>

\* The backend process dies with every request it was serving.
Crash ==
    /\ fails < MaxFails
    /\ \E r \in Requests : Live(r)
    /\ pc' = [r \in Requests |-> IF Live(r) THEN "done" ELSE pc[r]]
    /\ reply' = [r \in Requests |-> IF Live(r) THEN "error" ELSE reply[r]]
    /\ orphaned' = orphaned \union Orphans(Requests)
    /\ fails' = fails + 1
    /\ UNCHANGED <<db, lock, redis, back, args, locals, restarts>>

\* Redis comes back empty.
RestartRedis ==
    /\ restarts < MaxRestarts
    /\ lock' = {}
    /\ total' = [d \in Days |-> Nil]
    /\ present' = [d \in Days |-> Nil]
    /\ restarts' = restarts + 1
    /\ UNCHANGED <<db, pc, back, args, locals, reply, orphaned, fails>>

----------------------------------------------------------------------------
Start(r) ==
    \/ \E p \in Participants, d \in Days : StartCheckIn(r, p, d)
    \/ \E d \in Days : StartSummary(r, d)
    \/ RejectCheckIn(r)

Warm(r) ==
    \/ WarmHit(r) \/ WarmMiss(r)
    \/ CountTotal(r) \/ CountPresent(r)
    \/ FillTotal(r) \/ FillPresent(r)

Step(r) ==
    \/ TakeLock(r) \/ LockBusy(r)
    \/ Warm(r)
    \/ UpdateRow(r) \/ UpdateMiss(r) \/ CurrentStatus(r)
    \/ IncrementPresent(r) \/ Broadcast(r) \/ Confirm(r)
    \/ ReadSummary(r)

Environment ==
    \/ \E p \in Participants : Provision(p)
    \/ \E p \in Flaggable, flag \in BOOLEAN : SetWillNotAttend(p, flag)
    \/ \E k \in Keys : LockExpires(k)
    \/ \E r \in Requests : Fail(r)
    \/ Crash
    \/ RestartRedis

Next ==
    \/ \E r \in Requests : Start(r) \/ Step(r)
    \/ Environment

Spec == Init /\ [][Next]_vars

\* Postgres and Redis answer: a request that has started keeps moving.
FairSpec == Spec /\ \A r \in Requests : WF_vars(Step(r))

----------------------------------------------------------------------------
(***************************************************************************)
(* Properties                                                              *)
(***************************************************************************)
Acked(r) == reply[r] \in {"checked_in", "already_checked_in"}

\* Requests of day d that are between their UPDATE and their INCR, and
\* participants whose confirming request is past its INCR (or died after its
\* UPDATE).
Pending(d) == {r \in Requests : Uncounted(r) /\ day[r] = d}
CountedOn(d) ==
    {p \in Participants : \E r \in Requests :
        back[r] = "incr" /\ Key(r) = <<p, d>> /\ ~Uncounted(r)}

\* Where a request is, by the call of warmSummaryCache it last made.
WellPlaced(r) ==
    \/ back[r] = "none" /\ pc[r] \in {"idle", "lock", "status"}
    \/ back[r] = "update" /\ pc[r] \in Filling \union {"update", "status"}
    \/ back[r] = "incr" /\ pc[r] \in Filling \union {"incr", "broadcast", "reread"}
    \/ back[r] = "read" /\ pc[r] \in Filling \union {"read"}
    \/ pc[r] = "done"

\* Every variable has the shape the code gives it; a request past its start
\* knows its day, and its participant unless it is a summary.
TypeOK ==
    /\ rows \in [Keys -> {"NONE", "PENDING", "PRESENT"}]
    /\ willNot \subseteq Participants
    /\ lock \subseteq Keys
    /\ total \in [Days -> Nat \union {Nil}]
    /\ present \in [Days -> Nat \union {Nil}]
    /\ pc \in [Requests -> Locations]
    /\ back \in [Requests -> {"none", "update", "incr", "read"}]
    /\ who \in [Requests -> Participants \union {Nil}]
    /\ day \in [Requests -> Days \union {Nil}]
    /\ cTotal \in [Requests -> Nat \union {Nil}]
    /\ cPresent \in [Requests -> Nat \union {Nil}]
    /\ reply \in [Requests -> Replies]
    /\ orphaned \subseteq Keys
    /\ fails \in 0 .. MaxFails
    /\ restarts \in 0 .. MaxRestarts
    /\ \A r \in Requests :
          /\ Live(r) \/ back[r] # "none" => day[r] \in Days
          /\ Live(r) /\ back[r] = "none" => who[r] \in Participants
          /\ back[r] \in {"update", "incr"} => who[r] \in Participants
          /\ pc[r] = "fillPresent" => cTotal[r] # Nil /\ cPresent[r] # Nil
          /\ reply[r] = "none" <=> pc[r] # "done"
          /\ WellPlaced(r)

\* However the lock expires or is lost, one row is confirmed (and so counted
\* and answered with a fresh 'checked_in') by at most one request: the UPDATE
\* ... WHERE status = 'PENDING' backs the lock up.
ConfirmedOnce ==
    \A r, s \in Requests :
        back[r] = "incr" /\ back[s] = "incr" /\ Key(r) = Key(s) => r = s

\* The cached count of a day is the number of PRESENT rows, less the requests
\* that are between their UPDATE and their INCR.
Exact(d) ==
    /\ present[d] # Nil
    /\ present[d] + Cardinality(Pending(d)) = Cardinality(PresentOn(d))

\* Once the cached count of a day is exact it stays exact, whatever fills,
\* check-ins and provisionings interleave, until a request dies or Redis
\* loses its keys: SET NX never overwrites and every confirmation is one INCR.
ExactStaysExact ==
    [][\A d \in Days :
          Exact(d) /\ UNCHANGED faults => Exact(d)']_vars

\* A cold or lost cache may be refilled with a COUNT that already sees rows
\* whose INCR is still to come, but no attendee is ever counted more than
\* twice: once by the COUNT and once by the INCR of its own confirmation.
CountedAtMostTwice ==
    \A d \in Days :
        present[d] # Nil =>
            present[d] <= Cardinality(PresentOn(d)) + Cardinality(CountedOn(d))

\* A request that answered success without confirming the row itself (the lock
\* was taken, or the row already PRESENT) did so because the row is PRESENT or
\* another live request is about to make it so.  The one exception is the
\* code's own: a request died between its lock and its UPDATE of this very row.
AckIsCovered ==
    \A r \in Requests :
        Acked(r) =>
            \/ rows[Key(r)] = "PRESENT"
            \/ \E s \in Requests : Key(s) = Key(r) /\ BeforeUpdate(s)
            \/ Key(r) \in orphaned

\* The keys a live request is about to confirm, and those told success about.
Promised == {k \in Keys : \E r \in Requests : BeforeUpdate(r) /\ Key(r) = k}
Told == {k \in Keys : \E r \in Requests : Acked(r) /\ Key(r) = k}

\* A scan answered with success ends up recorded, whatever fails, unless a
\* request died between its lock and its UPDATE of the same row.
AckedIsRecorded ==
    \A k \in Keys : (k \in Told) ~> (rows[k] = "PRESENT" \/ k \in orphaned)

Promise == INSTANCE Presence
    WITH Keys <- Keys, FirstRows <- [k \in Keys |-> InitialRow(k)],
         rows <- rows, promised <- Promised, broken <- orphaned, told <- Told

\* Check-in implements its abstract promise: success is told only about rows
\* that are PRESENT or about to be, a promise is kept until its row is PRESENT,
\* and it breaks only with a request that dies between its lock and its UPDATE.
PromiseKept == Promise!Spec
=============================================================================
