--------------------------- MODULE CheckInProofs ---------------------------
(***************************************************************************)
(* Theorems about CheckIn, for every set of requests, participants and     *)
(* days and every bound on the faults.                                     *)
(***************************************************************************)
EXTENDS CheckIn, FiniteSetTheorems, TLAPS

----------------------------------------------------------------------------
(***************************************************************************)
(* Type correctness                                                        *)
(***************************************************************************)

LEMMA CountsAreNumbers ==
    ASSUME NEW d
    PROVE  /\ IsFiniteSet(RowsOf(d)) /\ Cardinality(RowsOf(d)) \in Nat
           /\ IsFiniteSet(PresentOn(d)) /\ Cardinality(PresentOn(d)) \in Nat
<1>1. RowsOf(d) \subseteq Participants /\ PresentOn(d) \subseteq Participants
  BY DEF RowsOf, PresentOn
<1> QED
  BY <1>1, ParticipantsFinite, FS_Subset, FS_CardinalityType

LEMMA TypeInit == Init => TypeOK
<1> SUFFICES ASSUME Init PROVE TypeOK
  OBVIOUS
<1>1. Cardinality(Registered) \in Nat /\ Cardinality(Attended) \in Nat
  BY InitialRows, ParticipantsFinite, FS_Subset, FS_CardinalityType
<1> QED
  BY <1>1, BoundsAreNumbers DEF Init, TypeOK, InitialRow, Locations, Replies, Live, WellPlaced

LEMMA OrphansAreKeys ==
    ASSUME TypeOK, NEW R \in SUBSET Requests
    PROVE  Orphans(R) \subseteq Keys
<1>1. ASSUME NEW r \in Requests, BeforeUpdate(r)
      PROVE  Key(r) \in Keys
  BY <1>1 DEF BeforeUpdate, TypeOK, WellPlaced, Live, Filling, Key, Keys
<1> QED
  BY <1>1 DEF Orphans

LEMMA TypeStep == TypeOK /\ [Next]_vars => TypeOK'
<1> SUFFICES ASSUME TypeOK, [Next]_vars PROVE TypeOK'
  OBVIOUS
<1> USE DEF TypeOK, Move, Answer, Live, WellPlaced, Filling, Locations, Replies,
            db, redis, args, locals, faults
<1>1. ASSUME NEW r \in Requests, NEW p \in Participants, NEW d \in Days, StartCheckIn(r, p, d)
      PROVE  TypeOK'
  BY <1>1 DEF StartCheckIn
<1>2. ASSUME NEW r \in Requests, NEW d \in Days, StartSummary(r, d)
      PROVE  TypeOK'
  BY <1>2 DEF StartSummary
<1>3. ASSUME NEW r \in Requests, RejectCheckIn(r)
      PROVE  TypeOK'
  BY <1>3 DEF RejectCheckIn
<1>4. ASSUME NEW r \in Requests, TakeLock(r)
      PROVE  TypeOK'
  BY <1>4 DEF TakeLock, Keys, Key
<1>5. ASSUME NEW r \in Requests, LockBusy(r)
      PROVE  TypeOK'
  BY <1>5 DEF LockBusy
<1>6. ASSUME NEW r \in Requests, WarmHit(r)
      PROVE  TypeOK'
  BY <1>6 DEF WarmHit
<1>7. ASSUME NEW r \in Requests, WarmMiss(r)
      PROVE  TypeOK'
  BY <1>7 DEF WarmMiss
<1>8. ASSUME NEW r \in Requests, CountTotal(r)
      PROVE  TypeOK'
  BY <1>8, CountsAreNumbers DEF CountTotal
<1>9. ASSUME NEW r \in Requests, CountPresent(r)
      PROVE  TypeOK'
  BY <1>9, CountsAreNumbers DEF CountPresent
<1>10. ASSUME NEW r \in Requests, FillTotal(r)
       PROVE  TypeOK'
  BY <1>10 DEF FillTotal
<1>11. ASSUME NEW r \in Requests, FillPresent(r)
       PROVE  TypeOK'
  BY <1>11 DEF FillPresent
<1>12. ASSUME NEW r \in Requests, UpdateRow(r)
       PROVE  TypeOK'
  BY <1>12 DEF UpdateRow, Keys, Key
<1>13. ASSUME NEW r \in Requests, UpdateMiss(r)
       PROVE  TypeOK'
  BY <1>13 DEF UpdateMiss
<1>14. ASSUME NEW r \in Requests, CurrentStatus(r)
       PROVE  TypeOK'
  <2>1. Key(r) \in Keys
    BY <1>14 DEF CurrentStatus, WellPlaced, Key, Keys
  <2>2. StatusReply[rows[Key(r)]] \in Replies \ {"none"}
    BY <2>1 DEF StatusReply
  <2> QED
    BY <1>14, <2>2 DEF CurrentStatus
<1>15. ASSUME NEW r \in Requests, IncrementPresent(r)
       PROVE  TypeOK'
  BY <1>15 DEF IncrementPresent, OrZero
<1>16. ASSUME NEW r \in Requests, Broadcast(r)
       PROVE  TypeOK'
  BY <1>16 DEF Broadcast, OrZero
<1>17. ASSUME NEW r \in Requests, Confirm(r)
       PROVE  TypeOK'
  BY <1>17 DEF Confirm
<1>18. ASSUME NEW r \in Requests, ReadSummary(r)
       PROVE  TypeOK'
  BY <1>18 DEF ReadSummary, OrZero
<1>19. ASSUME NEW p \in Participants, Provision(p)
       PROVE  TypeOK'
  BY <1>19 DEF Provision
<1>20. ASSUME NEW p \in Participants, NEW flag \in BOOLEAN, SetWillNotAttend(p, flag)
       PROVE  TypeOK'
  BY <1>20 DEF SetWillNotAttend
<1>21. ASSUME NEW k \in Keys, LockExpires(k)
       PROVE  TypeOK'
  BY <1>21 DEF LockExpires
<1>22. ASSUME NEW r \in Requests, Fail(r)
       PROVE  TypeOK'
  BY <1>22, BoundsAreNumbers, OrphansAreKeys DEF Fail
<1>23. CASE Crash
  BY <1>23, BoundsAreNumbers, OrphansAreKeys DEF Crash
<1>24. CASE RestartRedis
  BY <1>24, BoundsAreNumbers DEF RestartRedis
<1>25. CASE UNCHANGED vars
  BY <1>25 DEF vars
<1> HIDE DEF TypeOK, Move, Answer, Live, WellPlaced, Filling, Locations, Replies,
             db, redis, args, locals, faults
<1>26. ASSUME NEW r \in Requests, Start(r) PROVE TypeOK'
  BY <1>1, <1>2, <1>3, <1>26 DEF Start
<1>27. ASSUME NEW r \in Requests, Step(r) PROVE TypeOK'
  BY <1>4, <1>5, <1>6, <1>7, <1>8, <1>9, <1>10, <1>11, <1>12, <1>13, <1>14, <1>15,
     <1>16, <1>17, <1>18, <1>27
  DEF Step, Warm
<1>28. CASE Environment
  BY <1>19, <1>20, <1>21, <1>22, <1>23, <1>24, <1>28, FlaggableAreParticipants DEF Environment
<1> QED
  BY <1>25, <1>26, <1>27, <1>28 DEF Next

\* What the death of requests does to each of them, and leaves alone.
LEMMA DeathFrame ==
    ASSUME TypeOK, Crash \/ \E r \in Requests : Fail(r)
    PROVE  /\ UNCHANGED <<rows, willNot, lock, total, present, back, who, day, cTotal, cPresent, restarts>>
           /\ fails' = fails + 1
           /\ \A s \in Requests :
                 \/ pc'[s] = pc[s] /\ reply'[s] = reply[s]
                 \/ Live(s) /\ pc'[s] = "done" /\ reply'[s] = "error"
<1> USE DEF TypeOK, db, redis, args, locals
<1>1. CASE Crash
  BY <1>1 DEF Crash
<1>2. ASSUME NEW r \in Requests, Fail(r)
      PROVE  /\ UNCHANGED <<rows, willNot, lock, total, present, back, who, day, cTotal, cPresent, restarts>>
             /\ fails' = fails + 1
             /\ \A s \in Requests :
                   \/ pc'[s] = pc[s] /\ reply'[s] = reply[s]
                   \/ Live(s) /\ pc'[s] = "done" /\ reply'[s] = "error"
  BY <1>2 DEF Fail
<1> QED
  BY <1>1, <1>2

\* Every reachable state is well typed, and a request is only where the calls
\* it made can have brought it.
THEOREM TypeCorrect == Spec => []TypeOK
<1> QED
  BY TypeInit, TypeStep, PTL DEF Spec

----------------------------------------------------------------------------
(***************************************************************************)
(* One confirmation per row.  ConfirmedOnce is not inductive: it also      *)
(* takes that a confirmed row is PRESENT, so that no UPDATE matches it.    *)
(***************************************************************************)
ConfirmedIsPresent == \A r \in Requests : back[r] = "incr" => rows[Key(r)] = "PRESENT"
OnceInv == ConfirmedIsPresent /\ ConfirmedOnce

\* Which steps touch a row, a request's arguments or the set of confirmed
\* requests, and how.
LEMMA ConfirmationFrame ==
    ASSUME TypeOK, [Next]_vars
    PROVE  \/ \E r \in Requests : UpdateRow(r)
           \/ \E p \in Participants : Provision(p)
           \/ \E r \in Requests, p \in Participants, d \in Days : StartCheckIn(r, p, d)
           \/ \E r \in Requests, d \in Days : StartSummary(r, d)
           \/ /\ UNCHANGED <<rows, who, day>>
              /\ \A s \in Requests : back'[s] = "incr" <=> back[s] = "incr"
<1> USE DEF Move, Answer, db, redis, args, locals, faults
<1>1. ASSUME NEW r \in Requests, Step(r), ~UpdateRow(r)
      PROVE  /\ UNCHANGED <<rows, who, day>>
             /\ \A s \in Requests : back'[s] = "incr" <=> back[s] = "incr"
  <2>1. CASE TakeLock(r)
    BY <2>1 DEF TakeLock, TypeOK, WellPlaced, Filling
  <2>2. CASE Warm(r)
    BY <2>2 DEF Warm, WarmHit, WarmMiss, CountTotal, CountPresent, FillTotal, FillPresent
  <2>3. CASE LockBusy(r) \/ UpdateMiss(r) \/ CurrentStatus(r) \/ Confirm(r)
    BY <2>3 DEF LockBusy, UpdateMiss, CurrentStatus, Confirm
  <2>4. CASE IncrementPresent(r) \/ Broadcast(r) \/ ReadSummary(r)
    BY <2>4 DEF IncrementPresent, Broadcast, ReadSummary
  <2> QED
    BY <1>1, <2>1, <2>2, <2>3, <2>4 DEF Step
<1>2. ASSUME Environment, \A p \in Participants : ~Provision(p)
      PROVE  UNCHANGED <<rows, who, day, back>>
  BY <1>2 DEF Environment, SetWillNotAttend, LockExpires, Fail, Crash, RestartRedis
<1>3. ASSUME NEW r \in Requests, RejectCheckIn(r)
      PROVE  UNCHANGED <<rows, who, day, back>>
  BY <1>3 DEF RejectCheckIn
<1>4. CASE UNCHANGED vars
  BY <1>4 DEF vars
<1> QED
  BY <1>1, <1>2, <1>3, <1>4 DEF Next, Start

LEMMA OnceStep == TypeOK /\ OnceInv /\ [Next]_vars => OnceInv'
<1> SUFFICES ASSUME TypeOK, OnceInv, [Next]_vars PROVE OnceInv'
  OBVIOUS
<1> USE DEF OnceInv, ConfirmedIsPresent, ConfirmedOnce
<1>0. \A s \in Requests : back[s] = "incr" => Key(s) \in Keys
  BY DEF TypeOK, Key, Keys
<1>1. ASSUME NEW r \in Requests, UpdateRow(r)
      PROVE  OnceInv'
  <2>1. Key(r) \in Keys
    BY <1>1 DEF UpdateRow, Move, TypeOK, Live, WellPlaced, Filling, Key, Keys
  <2>2. /\ \A s \in Requests : Key(s)' = Key(s)
        /\ rows' = [rows EXCEPT ![Key(r)] = "PRESENT"]
        /\ \A s \in Requests : back'[s] = "incr" => s = r \/ back[s] = "incr"
    BY <1>1 DEF UpdateRow, Key, args, TypeOK
  <2>3. \A s \in Requests : back[s] = "incr" => Key(s) # Key(r)
    BY <1>1 DEF UpdateRow
  <2>4. rows \in [Keys -> {"NONE", "PENDING", "PRESENT"}]
    BY DEF TypeOK
  <2>5. ConfirmedIsPresent'
    BY <1>0, <2>1, <2>2, <2>4
  <2>6. ConfirmedOnce'
    BY <2>2, <2>3
  <2> QED
    BY <2>5, <2>6
<1>2. ASSUME NEW p \in Participants, Provision(p)
      PROVE  OnceInv'
  <2>1. UNCHANGED back /\ \A s \in Requests : Key(s)' = Key(s)
    BY <1>2 DEF Provision, args, Key
  <2>2. \A s \in Requests : Key(s) \in Keys => rows'[Key(s)] = rows[Key(s)]
    BY <1>2 DEF Provision, Key, Keys
  <2> QED
    BY <1>0, <2>1, <2>2
<1>3. ASSUME NEW r \in Requests, NEW p \in Participants, NEW d \in Days, StartCheckIn(r, p, d)
      PROVE  OnceInv'
  <2>1. back[r] # "incr"
    BY <1>3 DEF StartCheckIn, Move, TypeOK, WellPlaced, Filling
  <2>2. /\ UNCHANGED <<rows, back>>
        /\ \A s \in Requests : s # r => Key(s)' = Key(s)
    BY <1>3 DEF StartCheckIn, db, Key, TypeOK
  <2> QED
    BY <2>1, <2>2
<1>4. ASSUME NEW r \in Requests, NEW d \in Days, StartSummary(r, d)
      PROVE  OnceInv'
  <2>1. back[r] # "incr" /\ UNCHANGED rows
    BY <1>4 DEF StartSummary, Move, TypeOK, WellPlaced, Filling, db
  <2>2. \A s \in Requests : s # r => Key(s)' = Key(s) /\ back'[s] = back[s]
    BY <1>4 DEF StartSummary, Key, TypeOK
  <2>3. back'[r] = "read"
    BY <1>4 DEF StartSummary, TypeOK
  <2> QED
    BY <2>1, <2>2, <2>3
<1>5. ASSUME UNCHANGED <<rows, who, day>>,
             \A s \in Requests : back'[s] = "incr" <=> back[s] = "incr"
      PROVE  OnceInv'
  BY <1>5 DEF Key
<1> QED
  BY <1>1, <1>2, <1>3, <1>4, <1>5, ConfirmationFrame

\* Whatever expires, restarts or dies, the guarded UPDATE lets at most one
\* request confirm a row.
THEOREM ConfirmedAtMostOnce == Spec => []ConfirmedOnce
<1>1. Init => OnceInv
  BY DEF Init, OnceInv, ConfirmedIsPresent, ConfirmedOnce
<1>2. OnceInv => ConfirmedOnce
  BY DEF OnceInv
<1> QED
  BY <1>1, <1>2, OnceStep, TypeCorrect, PTL DEF Spec

----------------------------------------------------------------------------
(***************************************************************************)
(* A success that was answered is covered.  The invariant also speaks of   *)
(* the requests that still have to answer: while a key is locked, or a     *)
(* request is about to report its row, a PENDING row has a live request    *)
(* that will flip it.                                                      *)
(***************************************************************************)
Covered(k) == \E s \in Requests : Key(s) = k /\ BeforeUpdate(s)
Safe(k) == rows[k] = "PENDING" => Covered(k) \/ k \in orphaned

AckInv ==
    /\ \A r \in Requests : pc[r] = "idle" => who[r] = Nil
    /\ \A k \in lock : \E r \in Requests : who[r] = k[1]
    /\ \A r \in Requests : Acked(r) => Key(r) \in Keys
    /\ \A k \in lock : Safe(k)
    /\ \A r \in Requests : pc[r] = "status" => Safe(Key(r))
    /\ \A r \in Requests :
          Acked(r) => rows[Key(r)] # "NONE" /\ Safe(Key(r))

\* A row changes only by its confirmation or by being provisioned.
LEMMA RowsFrame ==
    ASSUME TypeOK, [Next]_vars, NEW k \in Keys
    PROVE  \/ rows'[k] = rows[k]
           \/ rows[k] = "PENDING" /\ rows'[k] = "PRESENT"
           \/ rows[k] = "NONE" /\ \E p \in Participants : Provision(p) /\ k[1] = p
<1>1. ASSUME NEW r \in Requests, UpdateRow(r)
      PROVE  rows'[k] = rows[k] \/ (rows[k] = "PENDING" /\ rows'[k] = "PRESENT")
  BY <1>1 DEF UpdateRow, TypeOK
<1>2. ASSUME NEW p \in Participants, Provision(p), k[1] = p
      PROVE  rows[k] = "NONE"
  BY <1>2 DEF Provision, Provisioned, Keys
<1>3. ASSUME NEW p \in Participants, Provision(p), k[1] # p
      PROVE  rows'[k] = rows[k]
  BY <1>3 DEF Provision
<1>4. ASSUME UNCHANGED rows
      PROVE  rows'[k] = rows[k]
  BY <1>4
<1> QED
  BY <1>1, <1>2, <1>3, <1>4, ConfirmationFrame DEF StartCheckIn, StartSummary, db

\* A request that may still flip its row does so, finds that it cannot, or
\* stays as it is, unless it dies and leaves its key orphaned.
LEMMA BeforeUpdateFrame ==
    ASSUME TypeOK, [Next]_vars,
           NEW s \in Requests, BeforeUpdate(s), ~UpdateRow(s), ~UpdateMiss(s)
    PROVE  \/ BeforeUpdate(s)' /\ Key(s)' = Key(s)
           \/ Key(s) \in orphaned' /\ (Crash \/ \E r \in Requests : Fail(r))
<1> USE DEF BeforeUpdate, Key, Filling, db, redis, args, locals, faults
<1>1. ASSUME NEW r \in Requests, Start(r)
      PROVE  BeforeUpdate(s)' /\ Key(s)' = Key(s)
  <2>1. pc[r] = "idle" /\ r # s
    BY <1>1 DEF Start, StartCheckIn, StartSummary, RejectCheckIn, Move, Answer
  <2> QED
    BY <1>1, <2>1 DEF Start, StartCheckIn, StartSummary, RejectCheckIn, Move, Answer, TypeOK
<1>2. ASSUME NEW r \in Requests, Step(r), r # s
      PROVE  BeforeUpdate(s)' /\ Key(s)' = Key(s)
  <2> USE <1>2 DEF Move, Answer, TypeOK
  <2>1. CASE Warm(r)
    BY <2>1 DEF Warm, WarmHit, WarmMiss, CountTotal, CountPresent, FillTotal, FillPresent
  <2>2. CASE TakeLock(r) \/ LockBusy(r) \/ UpdateRow(r) \/ UpdateMiss(r)
    BY <2>2 DEF TakeLock, LockBusy, UpdateRow, UpdateMiss
  <2>3. CASE CurrentStatus(r) \/ Confirm(r) \/ IncrementPresent(r) \/ Broadcast(r) \/ ReadSummary(r)
    BY <2>3 DEF CurrentStatus, Confirm, IncrementPresent, Broadcast, ReadSummary
  <2> QED
    BY <2>1, <2>2, <2>3 DEF Step
<1>3. CASE Step(s)
  <2> USE DEF Move, Answer, TypeOK
  <2>1. CASE Warm(s)
    BY <2>1 DEF Warm, WarmHit, WarmMiss, CountTotal, CountPresent, FillTotal, FillPresent
  <2>2. ~TakeLock(s) /\ ~LockBusy(s)
    BY DEF TakeLock, LockBusy
  <2>3. ~CurrentStatus(s) /\ ~Confirm(s) /\ ~IncrementPresent(s) /\ ~Broadcast(s) /\ ~ReadSummary(s)
    BY DEF CurrentStatus, Confirm, IncrementPresent, Broadcast, ReadSummary
  <2> QED
    BY <1>3, <2>1, <2>2, <2>3 DEF Step
<1>4. CASE Environment
  <2>1. ASSUME NEW r \in Requests, Fail(r), r # s
        PROVE  BeforeUpdate(s)' /\ Key(s)' = Key(s)
    BY <2>1 DEF Fail, TypeOK
  <2>2. Crash \/ Fail(s) => Key(s) \in orphaned'
    BY DEF Crash, Fail, Orphans
  <2> QED
    BY <1>4, <2>1, <2>2 DEF Environment, Provision, SetWillNotAttend, LockExpires, RestartRedis
<1>5. CASE UNCHANGED vars
  BY <1>5 DEF vars
<1> QED
  BY <1>1, <1>2, <1>3, <1>4, <1>5 DEF Next

\* Only a request that dies orphans a key, and an orphan stays one.
LEMMA OrphansFrame ==
    ASSUME TypeOK, [Next]_vars
    PROVE  /\ orphaned \subseteq orphaned'
           /\ orphaned' = orphaned \/ Crash \/ \E r \in Requests : Fail(r)
<1> USE DEF Move, Answer, faults
<1>1. ASSUME NEW r \in Requests, Start(r) PROVE UNCHANGED orphaned
  BY <1>1 DEF Start, StartCheckIn, StartSummary, RejectCheckIn
<1>2. ASSUME NEW r \in Requests, Step(r) PROVE UNCHANGED orphaned
  BY <1>2 DEF Step, Warm, WarmHit, WarmMiss, CountTotal, CountPresent, FillTotal,
     FillPresent, TakeLock, LockBusy, UpdateRow, UpdateMiss, CurrentStatus,
     IncrementPresent, Broadcast, Confirm, ReadSummary
<1>3. CASE Environment
  BY <1>3 DEF Environment, Provision, SetWillNotAttend, LockExpires, Fail, Crash, RestartRedis
<1>4. CASE UNCHANGED vars
  BY <1>4 DEF vars
<1> QED
  BY <1>1, <1>2, <1>3, <1>4 DEF Next

\* A safe key stays safe.
LEMMA SafeStep ==
    ASSUME TypeOK, [Next]_vars, NEW k \in Keys, Safe(k),
           \A p \in Participants : Provision(p) => p # k[1]
    PROVE  Safe(k)'
<1> SUFFICES ASSUME rows'[k] = "PENDING", k \notin orphaned' PROVE Covered(k)'
  BY DEF Safe
<1>1. rows[k] = "PENDING" /\ k \notin orphaned
  BY RowsFrame, OrphansFrame
<1>2. PICK s \in Requests : Key(s) = k /\ BeforeUpdate(s)
  BY <1>1 DEF Safe, Covered
<1>3. ~UpdateRow(s)
  BY <1>2 DEF UpdateRow, TypeOK
<1>4. ~UpdateMiss(s)
  BY <1>1, <1>2 DEF UpdateMiss
<1>5. BeforeUpdate(s)' /\ Key(s)' = Key(s)
  BY <1>2, <1>3, <1>4, BeforeUpdateFrame
<1> QED
  BY <1>2, <1>5 DEF Covered

\* The same for the key of a request.
LEMMA SafeKeyStep ==
    ASSUME TypeOK, [Next]_vars, NEW r \in Requests,
           Key(r) \in Keys, Key(r)' = Key(r), Safe(Key(r))
    PROVE  Safe(Key(r))'
<1>1. PICK k \in Keys : k = Key(r)
  OBVIOUS
<1>2. \A p \in Participants : Provision(p) => p # k[1]
  BY <1>1 DEF Provision, Key
<1>3. Safe(k)
  BY <1>1
<1>4. Safe(k)'
  BY <1>2, <1>3, SafeStep
<1>5. Key(r)' = k
  BY <1>1
<1> QED
  BY <1>4, <1>5 DEF Safe, Covered

\* Where the obligations of AckInv come from: a key is locked, a request goes
\* to report a row, or answers success, by one of these steps only.
LEMMA AckFrame ==
    ASSUME TypeOK, [Next]_vars, NEW s \in Requests
    PROVE  /\ Acked(s)' => Acked(s) \/ CurrentStatus(s) \/ Confirm(s)
           /\ pc'[s] = "status" => pc[s] = "status" \/ LockBusy(s) \/ UpdateMiss(s)
           /\ Key(s)' = Key(s) \/ pc[s] = "idle"
           /\ who'[s] = who[s]
                 \/ \E p \in Participants, d \in Days : StartCheckIn(s, p, d)
           /\ pc'[s] = "idle" => pc[s] = "idle" /\ UNCHANGED <<who[s], reply[s]>>
<1> USE DEF Acked, Key, Filling, Move, Answer, TypeOK, db, redis, args, locals, faults
<1>1. ASSUME NEW r \in Requests, Start(r)
      PROVE  /\ Acked(s)' => Acked(s)
             /\ pc'[s] = "status" => pc[s] = "status"
             /\ Key(s)' = Key(s) \/ pc[s] = "idle"
             /\ who'[s] = who[s]
                   \/ \E p \in Participants, d \in Days : StartCheckIn(s, p, d)
             /\ pc'[s] = "idle" => pc[s] = "idle" /\ UNCHANGED <<who[s], reply[s]>>
  <2>1. CASE RejectCheckIn(r)
    BY <2>1 DEF RejectCheckIn
  <2>2. ASSUME NEW d \in Days, StartSummary(r, d)
        PROVE  /\ UNCHANGED <<who, reply>> /\ (pc'[s] # pc[s] => pc'[s] = "warm")
               /\ Key(s)' = Key(s) \/ pc[s] = "idle"
    BY <2>2 DEF StartSummary
  <2>3. ASSUME NEW p \in Participants, NEW d \in Days, StartCheckIn(r, p, d), r # s
        PROVE  UNCHANGED <<who[s], day[s], reply[s], pc[s]>>
    BY <2>3 DEF StartCheckIn
  <2>4. ASSUME NEW p \in Participants, NEW d \in Days, StartCheckIn(s, p, d)
        PROVE  pc[s] = "idle" /\ pc'[s] = "lock" /\ UNCHANGED reply
    BY <2>4 DEF StartCheckIn
  <2> QED
    BY <1>1, <2>1, <2>2, <2>3, <2>4 DEF Start
<1>2. ASSUME NEW r \in Requests, Step(r)
      PROVE  /\ UNCHANGED args
             /\ Acked(s)' => Acked(s) \/ CurrentStatus(s) \/ Confirm(s)
             /\ pc'[s] = "status" => pc[s] = "status" \/ LockBusy(s) \/ UpdateMiss(s)
             /\ pc'[s] = "idle" => pc[s] = "idle" /\ UNCHANGED reply[s]
  <2>1. CASE WarmHit(r) \/ FillPresent(r)
    BY <2>1 DEF WarmHit, FillPresent, WellPlaced
  <2>2. CASE WarmMiss(r) \/ CountTotal(r) \/ CountPresent(r) \/ FillTotal(r)
    BY <2>2 DEF WarmMiss, CountTotal, CountPresent, FillTotal
  <2>3. CASE TakeLock(r) \/ LockBusy(r) \/ UpdateRow(r) \/ UpdateMiss(r)
    BY <2>3 DEF TakeLock, LockBusy, UpdateRow, UpdateMiss
  <2>4. CASE CurrentStatus(r) \/ Confirm(r)
    BY <2>4 DEF CurrentStatus, Confirm
  <2>5. CASE IncrementPresent(r) \/ Broadcast(r) \/ ReadSummary(r)
    BY <2>5 DEF IncrementPresent, Broadcast, ReadSummary
  <2> QED
    BY <1>2, <2>1, <2>2, <2>3, <2>4, <2>5 DEF Step, Warm
<1>3. CASE Environment
  <2>1. CASE Crash \/ \E r \in Requests : Fail(r)
    BY <2>1, DeathFrame DEF Live
  <2> QED
    BY <1>3, <2>1 DEF Environment, Provision, SetWillNotAttend, LockExpires, RestartRedis
<1>4. CASE UNCHANGED vars
  BY <1>4 DEF vars
<1> QED
  BY <1>1, <1>2, <1>3, <1>4 DEF Next

\* Only TakeLock adds a key to the lock.
LEMMA LockFrame ==
    ASSUME TypeOK, [Next]_vars, NEW k \in lock', k \notin lock
    PROVE  \E r \in Requests : TakeLock(r) /\ k = Key(r)
<1> USE DEF Move, Answer, db, redis, args, locals, faults
<1>1. ASSUME NEW r \in Requests, Start(r) PROVE UNCHANGED lock
  BY <1>1 DEF Start, StartCheckIn, StartSummary, RejectCheckIn
<1>2. ASSUME NEW r \in Requests, Step(r), ~TakeLock(r) PROVE UNCHANGED lock
  BY <1>2 DEF Step, Warm, WarmHit, WarmMiss, CountTotal, CountPresent, FillTotal,
     FillPresent, LockBusy, UpdateRow, UpdateMiss, CurrentStatus, IncrementPresent,
     Broadcast, Confirm, ReadSummary
<1>3. CASE Environment
  BY <1>3 DEF Environment, Provision, SetWillNotAttend, LockExpires, Fail, Crash, RestartRedis
<1>4. CASE UNCHANGED vars
  BY <1>4 DEF vars
<1> QED
  BY <1>1, <1>2, <1>3, <1>4 DEF Next, TakeLock

LEMMA AckStep == TypeOK /\ OnceInv /\ AckInv /\ [Next]_vars => AckInv'
<1> SUFFICES ASSUME TypeOK, OnceInv, AckInv, [Next]_vars PROVE AckInv'
  OBVIOUS
<1>1. \A r \in Requests : (pc[r] = "idle" => who[r] = Nil)'
  BY AckFrame DEF AckInv, Acked, StartCheckIn, Move, TypeOK
<1>2. ASSUME NEW k \in lock'
      PROVE  \E r \in Requests : who'[r] = k[1]
  <2>1. ASSUME k \in lock
        PROVE  \E r \in Requests : who'[r] = k[1]
    <3>1. PICK r \in Requests : who[r] = k[1] /\ k \in Keys
      BY <2>1 DEF AckInv, TypeOK
    <3>2. pc[r] # "idle"
      BY <3>1, NilIsFresh DEF AckInv, Keys
    <3> QED
      BY <3>1, <3>2, AckFrame DEF StartCheckIn, Move
  <2>2. ASSUME NEW r \in Requests, TakeLock(r), k = Key(r)
        PROVE  who'[r] = k[1]
    BY <2>2 DEF TakeLock, Key, args
  <2> QED
    BY <2>1, <2>2, LockFrame
<1>3. ASSUME NEW r \in Requests, Acked(r)'
      PROVE  Key(r)' \in Keys /\ Key(r)' = Key(r) /\ pc[r] # "idle"
  <2>1. CASE Acked(r)
    <3>1. pc[r] = "done"
      BY <2>1 DEF Acked, TypeOK
    <3> QED
      BY <2>1, <3>1, AckFrame DEF AckInv
  <2>2. CASE CurrentStatus(r)
    BY <2>2 DEF CurrentStatus, Answer, Move, TypeOK, WellPlaced, Live, Filling, Key, Keys, args
  <2>3. CASE Confirm(r)
    BY <2>3 DEF Confirm, Answer, Move, TypeOK, WellPlaced, Live, Filling, Key, Keys, args
  <2> QED
    BY <1>3, <2>1, <2>2, <2>3, AckFrame
<1>4. /\ \A k \in lock' : Safe(k)'
      /\ \A r \in Requests : (pc[r] = "status" => Safe(Key(r)))'
      /\ \A r \in Requests :
            (Acked(r) => rows[Key(r)] # "NONE" /\ Safe(Key(r)))'
  <2>2. ASSUME NEW k \in lock'
        PROVE  Safe(k)'
    <3>1. CASE k \in lock
      <4>1. Safe(k) /\ k \in Keys
        BY <3>1 DEF AckInv, TypeOK
      <4>2. \A p \in Participants : Provision(p) => p # k[1]
        BY <3>1 DEF AckInv, Provision
      <4> QED
        BY <4>1, <4>2, SafeStep
    <3>2. ASSUME NEW r \in Requests, TakeLock(r), k = Key(r)
          PROVE  Safe(k)'
      BY <3>2 DEF Safe, Covered, TakeLock, Key, args, BeforeUpdate, Filling, Move, TypeOK
    <3> QED
      BY <3>1, <3>2, LockFrame
  <2>3. ASSUME NEW r \in Requests, pc'[r] = "status"
        PROVE  Safe(Key(r))'
    <3>1. Key(r)' = Key(r)
      BY <2>3, AckFrame DEF LockBusy, UpdateMiss, Move, StartCheckIn
    <3>2. Key(r) \in Keys
      BY <2>3, AckFrame DEF LockBusy, UpdateMiss, Move, TypeOK, WellPlaced, Live, Filling, Key, Keys
    <3>3. Safe(Key(r))
      BY <2>3, AckFrame DEF AckInv, LockBusy, UpdateMiss, Safe
    <3> QED
      BY <3>1, <3>2, <3>3, SafeKeyStep
  <2>4. ASSUME NEW r \in Requests, Acked(r)'
        PROVE  (rows[Key(r)] # "NONE" /\ Safe(Key(r)))'
    <3>1. Key(r) \in Keys /\ Key(r)' = Key(r)
      BY <1>3, <2>4
    <3>2. rows[Key(r)] # "NONE" /\ Safe(Key(r))
      <4>1. CASE Acked(r)
        BY <4>1 DEF AckInv
      <4>2. CASE CurrentStatus(r)
        BY <2>4, <3>1, <4>2
        DEF AckInv, CurrentStatus, Answer, Move, Acked, StatusReply, TypeOK
      <4>3. CASE Confirm(r)
        BY <4>3 DEF Confirm, Answer, Move, Safe, TypeOK, WellPlaced, Filling,
           OnceInv, ConfirmedIsPresent
      <4> QED
        BY <2>4, <4>1, <4>2, <4>3, AckFrame
    <3>3. rows'[Key(r)] # "NONE"
      BY <3>1, <3>2, RowsFrame
    <3>4. Safe(Key(r))'
      BY <3>1, <3>2, SafeKeyStep
    <3> QED
      BY <3>1, <3>3, <3>4
  <2> QED
    BY <2>2, <2>3, <2>4
<1> QED
  BY <1>1, <1>2, <1>3, <1>4 DEF AckInv

\* Success is answered only about a row that is PRESENT, that a live request is
\* about to flip, or whose request died between its lock and its UPDATE.
THEOREM AnswersAreCovered == Spec => []AckIsCovered
<1>1. Init => OnceInv /\ AckInv
  BY DEF Init, OnceInv, ConfirmedIsPresent, ConfirmedOnce, AckInv, Acked
<1>2. TypeOK /\ AckInv => AckIsCovered
  BY DEF AckInv, AckIsCovered, Safe, Covered, TypeOK
<1> QED
  BY <1>1, <1>2, OnceStep, AckStep, TypeCorrect, PTL DEF Spec

----------------------------------------------------------------------------
(***************************************************************************)
(* CheckIn implements Presence, whose Break is a request that dies.        *)
(***************************************************************************)

\* One request moves at a time.
LEMMA OneMover ==
    ASSUME TypeOK, NEW r \in Requests, NEW s \in Requests, NEW a, NEW b, NEW c, NEW d,
           Move(r, a, b), Move(s, c, d), a # b
    PROVE  r = s /\ a = c
BY DEF Move, TypeOK

LEMMA BeforeUpdateOrigin ==
    ASSUME TypeOK, [Next]_vars, NEW s \in Requests, BeforeUpdate(s)', ~TakeLock(s)
    PROVE  BeforeUpdate(s) /\ Key(s)' = Key(s)
<1> USE DEF BeforeUpdate, Key, Filling, TypeOK, Move, Answer, db, redis, args, locals, faults
<1>1. ASSUME NEW r \in Requests, Start(r)
      PROVE  BeforeUpdate(s) /\ Key(s)' = Key(s)
  BY <1>1 DEF Start, StartCheckIn, StartSummary, RejectCheckIn, WellPlaced
<1>2. ASSUME NEW r \in Requests, Warm(r)
      PROVE  BeforeUpdate(s) /\ Key(s)' = Key(s)
  BY <1>2 DEF Warm, WarmHit, WarmMiss, CountTotal, CountPresent, FillTotal, FillPresent
<1>3. ASSUME NEW r \in Requests, LockBusy(r) \/ UpdateRow(r) \/ UpdateMiss(r) \/ TakeLock(r)
      PROVE  BeforeUpdate(s) /\ Key(s)' = Key(s)
  BY <1>3 DEF TakeLock, LockBusy, UpdateRow, UpdateMiss
<1>4. ASSUME NEW r \in Requests, CurrentStatus(r) \/ Confirm(r) \/ IncrementPresent(r)
                                   \/ Broadcast(r) \/ ReadSummary(r)
      PROVE  BeforeUpdate(s) /\ Key(s)' = Key(s)
  BY <1>4 DEF CurrentStatus, Confirm, IncrementPresent, Broadcast, ReadSummary
<1>5. CASE Environment
  <2>1. CASE Crash \/ \E r \in Requests : Fail(r)
    BY <2>1, DeathFrame
  <2> QED
    BY <1>5, <2>1 DEF Environment, Provision, SetWillNotAttend, LockExpires, RestartRedis
<1>6. CASE UNCHANGED vars
  BY <1>6 DEF vars
<1> QED
  BY <1>1, <1>2, <1>3, <1>4, <1>5, <1>6 DEF Next, Step

\* An answer is final.
LEMMA AckedStays ==
    ASSUME TypeOK, [Next]_vars, NEW s \in Requests, Acked(s)
    PROVE  Acked(s)' /\ Key(s)' = Key(s)
<1>1. pc[s] = "done"
  BY DEF Acked, TypeOK
<1> USE <1>1 DEF Acked, Key, Filling, TypeOK, Move, Answer, db, redis, args, locals, faults
<1>2. ASSUME NEW r \in Requests, Start(r)
      PROVE  Acked(s)' /\ Key(s)' = Key(s)
  BY <1>2 DEF Start, StartCheckIn, StartSummary, RejectCheckIn
<1>3. ASSUME NEW r \in Requests, Warm(r) \/ TakeLock(r) \/ LockBusy(r) \/ UpdateRow(r)
                                   \/ UpdateMiss(r) \/ IncrementPresent(r) \/ Broadcast(r)
      PROVE  Acked(s)' /\ Key(s)' = Key(s)
  BY <1>3 DEF Warm, WarmHit, WarmMiss, CountTotal, CountPresent, FillTotal, FillPresent,
     TakeLock, LockBusy, UpdateRow, UpdateMiss, IncrementPresent, Broadcast
<1>4. ASSUME NEW r \in Requests, CurrentStatus(r) \/ Confirm(r) \/ ReadSummary(r)
      PROVE  Acked(s)' /\ Key(s)' = Key(s)
  BY <1>4 DEF CurrentStatus, Confirm, ReadSummary
<1>5. CASE Environment
  <2>1. CASE Crash \/ \E r \in Requests : Fail(r)
    BY <2>1, DeathFrame DEF Live
  <2> QED
    BY <1>5, <2>1 DEF Environment, Provision, SetWillNotAttend, LockExpires, RestartRedis
<1>6. CASE UNCHANGED vars
  BY <1>6 DEF vars
<1> QED
  BY <1>2, <1>3, <1>4, <1>5, <1>6 DEF Next, Step

LEMMA PromisedFrame ==
    ASSUME TypeOK, [Next]_vars, NEW k \in Keys
    PROVE  /\ k \in Promised' => \/ k \in Promised
                                 \/ \E r \in Requests : TakeLock(r) /\ Key(r) = k
           /\ k \in Promised => \/ k \in Promised'
                                \/ \E r \in Requests :
                                      (UpdateRow(r) \/ UpdateMiss(r)) /\ Key(r) = k
                                \/ Crash \/ \E r \in Requests : Fail(r)
<1>1. ASSUME k \in Promised'
      PROVE  k \in Promised \/ \E r \in Requests : TakeLock(r) /\ Key(r) = k
  <2>1. PICK s \in Requests : BeforeUpdate(s)' /\ Key(s)' = k
    BY <1>1 DEF Promised
  <2>2. CASE TakeLock(s)
    BY <2>1, <2>2 DEF TakeLock, Key, args
  <2>3. CASE ~TakeLock(s)
    BY <2>1, <2>3, BeforeUpdateOrigin DEF Promised
  <2> QED
    BY <2>2, <2>3
<1>2. ASSUME k \in Promised
      PROVE  \/ k \in Promised'
             \/ \E r \in Requests : (UpdateRow(r) \/ UpdateMiss(r)) /\ Key(r) = k
             \/ Crash \/ \E r \in Requests : Fail(r)
  <2>1. PICK s \in Requests : BeforeUpdate(s) /\ Key(s) = k
    BY <1>2 DEF Promised
  <2>2. CASE ~UpdateRow(s) /\ ~UpdateMiss(s)
    BY <2>1, <2>2, BeforeUpdateFrame DEF Promised
  <2> QED
    BY <2>1, <2>2
<1> QED
  BY <1>1, <1>2

LEMMA ToldFrame ==
    ASSUME TypeOK, [Next]_vars, NEW k \in Keys
    PROVE  /\ k \in Told => k \in Told'
           /\ k \in Told' => \/ k \in Told
                             \/ \E r \in Requests :
                                   (CurrentStatus(r) \/ Confirm(r)) /\ Key(r) = k /\ Acked(r)'
<1>1. ASSUME k \in Told PROVE k \in Told'
  BY <1>1, AckedStays DEF Told
<1>2. ASSUME k \in Told', k \notin Told
      PROVE  \E r \in Requests : (CurrentStatus(r) \/ Confirm(r)) /\ Key(r) = k /\ Acked(r)'
  <2>1. PICK r \in Requests : Acked(r)' /\ Key(r)' = k
    BY <1>2 DEF Told
  <2>2. ~Acked(r)
    BY <1>2, <2>1, AckedStays DEF Told
  <2>3. CurrentStatus(r) \/ Confirm(r)
    BY <2>1, <2>2, AckFrame
  <2>4. Key(r)' = Key(r)
    BY <2>3 DEF CurrentStatus, Confirm, Key, args
  <2> QED
    BY <2>1, <2>3, <2>4
<1> QED
  BY <1>1, <1>2

LEMMA PromiseStep ==
    ASSUME TypeOK, OnceInv, AckInv, [Next]_vars, ~Crash, \A r \in Requests : ~Fail(r)
    PROVE  [Promise!Next]_(Promise!vars)
<1> USE DEF Promise!Next, Promise!vars
<1>1. orphaned' = orphaned
  BY OrphansFrame
<1>2. Promised \subseteq Keys /\ Told \subseteq Keys /\ Promised' \subseteq Keys /\ Told' \subseteq Keys
  BY DEF Promised, Told, Keys
<1>3. ASSUME NEW r \in Requests, UpdateRow(r)
      PROVE  Promise!Next
  <2>1. \A s \in Requests : ~TakeLock(s) /\ ~CurrentStatus(s) /\ ~Confirm(s)
                               /\ (UpdateRow(s) \/ UpdateMiss(s) => s = r)
    BY <1>3, OneMover DEF UpdateRow, UpdateMiss, TakeLock, CurrentStatus, Confirm, Answer
  <2>2. Told' = Told
    BY <1>2, <2>1, ToldFrame
  <2>3. Promised' \in {Promised, Promised \ {Key(r)}}
    BY <1>2, <2>1, PromisedFrame
  <2>4. Key(r) \in Promised
    BY <1>3 DEF UpdateRow, Move, Promised, BeforeUpdate, Filling, TypeOK, WellPlaced, Live, Key, Keys
  <2> QED
    BY <1>1, <1>2, <1>3, <2>2, <2>3, <2>4 DEF Promise!Fulfil, UpdateRow
<1>4. ASSUME NEW p \in Participants, Provision(p)
      PROVE  Promise!Next
  <2>1. \A s \in Requests : ~TakeLock(s) /\ ~CurrentStatus(s) /\ ~Confirm(s)
                               /\ ~UpdateRow(s) /\ ~UpdateMiss(s)
    BY <1>4 DEF Provision, UpdateRow, UpdateMiss, TakeLock, CurrentStatus, Confirm, Answer, Move, TypeOK
  <2>2. Told' = Told /\ Promised' = Promised
    BY <1>2, <2>1, ToldFrame, PromisedFrame
  <2> DEFINE K == {k \in Keys : k[1] = p}
  <2>3. \A k \in K : rows[k] = "NONE"
    BY <1>4 DEF Provision, Provisioned, Keys
  <2>4. \A k \in K : k \notin Promised \union Told
    BY <1>4 DEF Provision, Promised, Told, Key
  <2>5. rows' = [k \in Keys |-> IF k \in K THEN "PENDING" ELSE rows[k]]
    BY <1>4 DEF Provision
  <2>6. K \in SUBSET Keys
    OBVIOUS
  <2> HIDE DEF K
  <2> QED
    BY <1>1, <2>2, <2>3, <2>4, <2>5, <2>6 DEF Promise!Enrol, Provision
<1>5. ASSUME NEW r \in Requests, TakeLock(r)
      PROVE  Promise!Next
  <2>1. \A s \in Requests : ~UpdateRow(s) /\ ~UpdateMiss(s) /\ ~CurrentStatus(s) /\ ~Confirm(s)
                               /\ (TakeLock(s) => s = r)
    BY <1>5, OneMover DEF UpdateRow, UpdateMiss, TakeLock, CurrentStatus, Confirm, Answer
  <2>2. Told' = Told
    BY <1>2, <2>1, ToldFrame
  <2>3. Key(r) \in Keys /\ Key(r) \in Promised'
    BY <1>5 DEF TakeLock, Move, Promised, BeforeUpdate, Filling, TypeOK, WellPlaced, Live, Key, Keys, args
  <2>4. Promised' = Promised \union {Key(r)}
    BY <1>2, <2>1, <2>3, PromisedFrame
  <2> QED
    BY <1>1, <1>5, <2>2, <2>3, <2>4 DEF Promise!Accept, TakeLock, db
<1>6. ASSUME NEW r \in Requests, UpdateMiss(r)
      PROVE  Promise!Next \/ UNCHANGED Promise!vars
  <2>1. \A s \in Requests : ~TakeLock(s) /\ ~UpdateRow(s) /\ ~CurrentStatus(s) /\ ~Confirm(s)
                               /\ (UpdateMiss(s) => s = r)
    BY <1>6, OneMover DEF UpdateRow, UpdateMiss, TakeLock, CurrentStatus, Confirm, Answer
  <2>2. Told' = Told
    BY <1>2, <2>1, ToldFrame
  <2>3. Promised' \in {Promised, Promised \ {Key(r)}}
    BY <1>2, <2>1, PromisedFrame
  <2>4. Key(r) \in Keys
    BY <1>6 DEF UpdateMiss, Move, TypeOK, WellPlaced, Live, Filling, Key, Keys
  <2> QED
    BY <1>1, <1>6, <2>2, <2>3, <2>4 DEF Promise!Settle, Promise!Next, Promise!vars, UpdateMiss, db
<1>7. ASSUME NEW r \in Requests, CurrentStatus(r) \/ Confirm(r), Acked(r)'
      PROVE  Promise!Next
  <2>1. \A s \in Requests : ~TakeLock(s) /\ ~UpdateRow(s) /\ ~UpdateMiss(s)
                               /\ (CurrentStatus(s) \/ Confirm(s) => s = r)
    BY <1>7, OneMover DEF UpdateRow, UpdateMiss, TakeLock, CurrentStatus, Confirm, Answer
  <2>2. Promised' = Promised
    BY <1>2, <2>1, PromisedFrame
  <2>3. Key(r) \in Keys /\ Key(r)' = Key(r)
    BY <1>7 DEF CurrentStatus, Confirm, Answer, Move, TypeOK, WellPlaced, Live, Filling, Key, Keys, args
  <2>4. Told' = Told \union {Key(r)}
    BY <1>2, <1>7, <2>1, <2>3, ToldFrame DEF Told
  <2>5. rows[Key(r)] = "PRESENT" \/ (rows[Key(r)] = "PENDING" /\ Key(r) \in Promised \union orphaned)
    <3>1. CASE CurrentStatus(r)
      BY <1>7, <2>3, <3>1
      DEF CurrentStatus, Answer, Move, Acked, StatusReply, AckInv, Safe, Covered, Promised, TypeOK
    <3>2. CASE Confirm(r)
      BY <3>2 DEF Confirm, Answer, Move, OnceInv, ConfirmedIsPresent, TypeOK, WellPlaced, Filling
    <3> QED
      BY <1>7, <3>1, <3>2
  <2>6. UNCHANGED rows
    BY <1>7 DEF CurrentStatus, Confirm, db
  <2> QED
    BY <1>1, <2>2, <2>3, <2>4, <2>5, <2>6 DEF Promise!Tell
<1>8. ASSUME \A r \in Requests : /\ ~UpdateRow(r) /\ ~UpdateMiss(r) /\ ~TakeLock(r)
                                 /\ ~((CurrentStatus(r) \/ Confirm(r)) /\ Acked(r)'),
             \A p \in Participants : ~Provision(p)
      PROVE  UNCHANGED Promise!vars
  <2>1. UNCHANGED rows
    BY <1>8, ConfirmationFrame DEF StartCheckIn, StartSummary, db
  <2>2. Promised' = Promised
    BY <1>2, <1>8, PromisedFrame
  <2>3. Told' = Told
    BY <1>2, <1>8, ToldFrame
  <2> QED
    BY <1>1, <2>1, <2>2, <2>3
<1> QED
  BY <1>3, <1>4, <1>5, <1>6, <1>7, <1>8

\* The death of requests breaks the promises of those between lock and UPDATE.
LEMMA PromiseBreaks ==
    ASSUME TypeOK, [Next]_vars, Crash \/ \E r \in Requests : Fail(r)
    PROVE  \E K \in SUBSET Keys : Promise!Break(K)
<1>1. PICK R \in SUBSET Requests :
          /\ orphaned' = orphaned \union Orphans(R)
          /\ \A s \in Requests \ R : pc'[s] = pc[s]
  <2>1. CASE Crash
    BY <2>1 DEF Crash
  <2>2. ASSUME NEW r \in Requests, Fail(r)
        PROVE  \E R \in SUBSET Requests :
                   /\ orphaned' = orphaned \union Orphans(R)
                   /\ \A s \in Requests \ R : pc'[s] = pc[s]
    <3>1. orphaned' = orphaned \union Orphans({r})
      BY <2>2 DEF Fail
    <3>2. \A s \in Requests \ {r} : pc'[s] = pc[s]
      BY <2>2 DEF Fail, TypeOK
    <3> QED
      BY <3>1, <3>2
  <2> QED
    BY <2>1, <2>2
<1>2. UNCHANGED rows /\ \A s \in Requests : Key(s)' = Key(s)
  BY DeathFrame DEF Key
<1>3. \A s \in Requests : Acked(s)' <=> Acked(s)
  BY DeathFrame DEF Acked, TypeOK, Live
<1>4. \A s \in Requests : BeforeUpdate(s)' => BeforeUpdate(s)
  BY DeathFrame DEF BeforeUpdate, Filling
<1>5. \A s \in Requests \ R : BeforeUpdate(s)' <=> BeforeUpdate(s)
  BY <1>1, DeathFrame DEF BeforeUpdate
<1>6. Told' = Told
  BY <1>2, <1>3 DEF Told, Keys
<1>7. Orphans(R) \subseteq Keys /\ Orphans(R) \subseteq Promised
  BY OrphansAreKeys DEF Orphans, Promised
<1>8. Promised' = Promised \ (Promised \ Promised')
  BY <1>2, <1>4 DEF Promised, Keys
<1>9. Promised \ Promised' \subseteq Orphans(R)
  BY <1>2, <1>5 DEF Promised, Orphans, Keys
<1> QED
  BY <1>1, <1>2, <1>6, <1>7, <1>8, <1>9 DEF Promise!Break

\* Check-in implements its abstract promise, whatever interleaves, expires,
\* dies and is lost.
THEOREM CheckInKeepsPromise == Spec => PromiseKept
<1>1. Init => Promise!Init
  <2>1. Init => Promised = {} /\ Told = {}
    BY DEF Init, Promised, Told, BeforeUpdate, Filling, Acked
  <2> QED
    BY <2>1 DEF Init, Promise!Init
<1>2. Init => OnceInv /\ AckInv
  BY DEF Init, OnceInv, ConfirmedIsPresent, ConfirmedOnce, AckInv, Acked
<1>3. TypeOK /\ OnceInv /\ AckInv /\ [Next]_vars => [Promise!Next]_(Promise!vars)
  BY PromiseStep, PromiseBreaks DEF Promise!Next
<1> QED
  BY <1>1, <1>2, <1>3, OnceStep, AckStep, TypeCorrect, PTL DEF Spec, PromiseKept, Promise!Spec

----------------------------------------------------------------------------
(***************************************************************************)
(* The cached counters                                                     *)
(***************************************************************************)

LEMMA PendingIsFinite ==
    ASSUME NEW d
    PROVE  /\ IsFiniteSet(Pending(d)) /\ Cardinality(Pending(d)) \in Nat
           /\ IsFiniteSet(CountedOn(d)) /\ Cardinality(CountedOn(d)) \in Nat
<1>1. Pending(d) \subseteq Requests /\ CountedOn(d) \subseteq Participants
  BY DEF Pending, CountedOn
<1> QED
  BY <1>1, RequestsFinite, ParticipantsFinite, FS_Subset, FS_CardinalityType

\* A cached count is changed only by an INCR, by a fill, or by losing the key.
LEMMA PresentFrame ==
    ASSUME TypeOK, [Next]_vars, NEW d \in Days
    PROVE  \/ present'[d] = present[d]
           \/ \E r \in Requests : IncrementPresent(r) /\ day[r] = d
           \/ \E r \in Requests : FillPresent(r) /\ day[r] = d /\ present[d] = Nil
           \/ present'[d] = Nil /\ restarts' # restarts
<1> USE DEF Move, Answer, db, redis, args, locals, faults, TypeOK
<1>1. ASSUME NEW r \in Requests, Start(r) PROVE UNCHANGED present
  BY <1>1 DEF Start, StartCheckIn, StartSummary, RejectCheckIn
<1>2. ASSUME NEW r \in Requests, Step(r), ~IncrementPresent(r), ~FillPresent(r)
      PROVE  UNCHANGED present
  BY <1>2 DEF Step, Warm, WarmHit, WarmMiss, CountTotal, CountPresent, FillTotal,
     TakeLock, LockBusy, UpdateRow, UpdateMiss, CurrentStatus, Broadcast, Confirm, ReadSummary
<1>3. ASSUME NEW r \in Requests, IncrementPresent(r) \/ FillPresent(r), day[r] # d
      PROVE  present'[d] = present[d]
  BY <1>3 DEF IncrementPresent, FillPresent
<1>4. ASSUME NEW r \in Requests, FillPresent(r), day[r] = d, present[d] # Nil
      PROVE  present'[d] = present[d]
  BY <1>4 DEF FillPresent
<1>5. CASE RestartRedis
  BY <1>5 DEF RestartRedis
<1>6. ASSUME Environment, ~RestartRedis PROVE UNCHANGED present
  BY <1>6 DEF Environment, Provision, SetWillNotAttend, LockExpires, Fail, Crash
<1>7. CASE UNCHANGED vars
  BY <1>7 DEF vars
<1> QED
  BY <1>1, <1>2, <1>3, <1>4, <1>5, <1>6, <1>7 DEF Next

\* Only UPDATEs add to the PRESENT rows, one row at a time.
LEMMA PresentOnFrame ==
    ASSUME TypeOK, [Next]_vars, NEW d \in Days
    PROVE  /\ PresentOn(d) \subseteq PresentOn(d)'
           /\ \/ PresentOn(d)' = PresentOn(d)
              \/ \E r \in Requests : UpdateRow(r) /\ day[r] = d
<1>1. ASSUME NEW p \in Participants
      PROVE  /\ p \in PresentOn(d) => p \in PresentOn(d)'
             /\ p \in PresentOn(d)' =>
                   \/ p \in PresentOn(d)
                   \/ \E r \in Requests : UpdateRow(r) /\ day[r] = d
  <2>1. <<p, d>> \in Keys
    BY DEF Keys
  <2>2. p \in PresentOn(d) => p \in PresentOn(d)'
    BY <2>1, RowsFrame DEF PresentOn
  <2>3. ASSUME p \in PresentOn(d)', p \notin PresentOn(d)
        PROVE  \E r \in Requests : UpdateRow(r) /\ day[r] = d
    <3>1. rows'[<<p, d>>] = "PRESENT" /\ rows[<<p, d>>] # "PRESENT"
      BY <2>3 DEF PresentOn
    <3>2. ~ \E q \in Participants : Provision(q)
      BY <2>1, <3>1 DEF Provision, TypeOK
    <3>3. PICK r \in Requests : UpdateRow(r)
      BY <3>1, <3>2, ConfirmationFrame DEF StartCheckIn, StartSummary, db
    <3>4. Key(r) = <<p, d>>
      BY <2>1, <3>1, <3>3 DEF UpdateRow, TypeOK
    <3> QED
      BY <3>3, <3>4 DEF Key
  <2> QED
    BY <2>2, <2>3
<1> QED
  BY <1>1 DEF PresentOn

\* A confirmed request leaves the uncounted ones by its INCR, or by dying.
LEMMA UncountedFrame ==
    ASSUME TypeOK, [Next]_vars, NEW s \in Requests
    PROVE  /\ Uncounted(s) =>
                 \/ Uncounted(s)' /\ Key(s)' = Key(s)
                 \/ IncrementPresent(s)
                 \/ fails' # fails
           /\ Uncounted(s)' =>
                 \/ Uncounted(s) /\ Key(s)' = Key(s)
                 \/ UpdateRow(s)
<1> USE DEF Uncounted, Key, Filling, TypeOK, Move, Answer, db, redis, args, locals, faults
<1>1. ASSUME NEW r \in Requests, Start(r)
      PROVE  Uncounted(s)' = Uncounted(s) /\ (Uncounted(s) => Key(s)' = Key(s))
  BY <1>1 DEF Start, StartCheckIn, StartSummary, RejectCheckIn, WellPlaced
<1>2. ASSUME NEW r \in Requests, Step(r), r # s
      PROVE  Uncounted(s)' = Uncounted(s) /\ Key(s)' = Key(s)
  <2>1. CASE Warm(r)
    BY <1>2, <2>1 DEF Warm, WarmHit, WarmMiss, CountTotal, CountPresent, FillTotal, FillPresent
  <2>2. CASE TakeLock(r) \/ LockBusy(r) \/ UpdateRow(r) \/ UpdateMiss(r)
    BY <1>2, <2>2 DEF TakeLock, LockBusy, UpdateRow, UpdateMiss
  <2>3. CASE CurrentStatus(r) \/ Confirm(r) \/ IncrementPresent(r) \/ Broadcast(r) \/ ReadSummary(r)
    BY <1>2, <2>3 DEF CurrentStatus, Confirm, IncrementPresent, Broadcast, ReadSummary
  <2> QED
    BY <1>2, <2>1, <2>2, <2>3 DEF Step
<1>3. ASSUME Step(s), ~UpdateRow(s), ~IncrementPresent(s)
      PROVE  Uncounted(s)' = Uncounted(s) /\ Key(s)' = Key(s)
  <2>1. CASE Warm(s)
    BY <2>1 DEF Warm, WarmHit, WarmMiss, CountTotal, CountPresent, FillTotal, FillPresent
  <2>2. CASE TakeLock(s) \/ LockBusy(s) \/ UpdateMiss(s)
    BY <2>2 DEF TakeLock, LockBusy, UpdateMiss, WellPlaced
  <2>3. CASE CurrentStatus(s) \/ Confirm(s) \/ Broadcast(s) \/ ReadSummary(s)
    BY <2>3 DEF CurrentStatus, Confirm, Broadcast, ReadSummary
  <2> QED
    BY <1>3, <2>1, <2>2, <2>3 DEF Step
<1>4. CASE UpdateRow(s)
  BY <1>4 DEF UpdateRow
<1>5. CASE IncrementPresent(s)
  BY <1>5 DEF IncrementPresent
<1>6. CASE Environment
  <2>1. CASE Crash \/ \E r \in Requests : Fail(r)
    BY <2>1, DeathFrame, BoundsAreNumbers DEF Live
  <2> QED
    BY <1>6, <2>1 DEF Environment, Provision, SetWillNotAttend, LockExpires, RestartRedis
<1>7. CASE UNCHANGED vars
  BY <1>7 DEF vars
<1> QED
  BY <1>1, <1>2, <1>3, <1>4, <1>5, <1>6, <1>7 DEF Next

LEMMA ExactStep ==
    ASSUME TypeOK, [Next]_vars, NEW d \in Days, Exact(d), UNCHANGED faults
    PROVE  Exact(d)'
<1> USE DEF Exact
<1>1. /\ IsFiniteSet(Pending(d)) /\ Cardinality(Pending(d)) \in Nat
      /\ IsFiniteSet(PresentOn(d)) /\ Cardinality(PresentOn(d)) \in Nat
      /\ present[d] \in Nat
  BY CountsAreNumbers, PendingIsFinite DEF TypeOK
<1>2. \A s \in Requests :
          /\ s \in Pending(d)' /\ s \notin Pending(d) => UpdateRow(s)
          /\ s \in Pending(d) /\ s \notin Pending(d)' => IncrementPresent(s)
  BY UncountedFrame DEF Pending, faults, Key
<1>3. Pending(d) \subseteq Requests /\ Pending(d)' \subseteq Requests
  BY DEF Pending
<1>4. ASSUME NEW r \in Requests, UpdateRow(r)
      PROVE  Exact(d)'
  <2>1. \A s \in Requests : ~IncrementPresent(s) /\ ~FillPresent(s) /\ (UpdateRow(s) => s = r)
    BY <1>4, OneMover DEF UpdateRow, IncrementPresent, FillPresent
  <2>2. present' = present
    BY <1>4 DEF UpdateRow, redis
  <2>3. CASE day[r] = d
    <3>1. Pending(d)' = Pending(d) \union {r} /\ r \notin Pending(d)
      <4>1. r \in Pending(d)' /\ r \notin Pending(d)
        BY <1>4, <2>3 DEF UpdateRow, Move, Pending, Uncounted, Filling, TypeOK, args
      <4> QED
        BY <1>2, <1>3, <2>1, <4>1
    <3>2. PresentOn(d)' = PresentOn(d) \union {who[r]} /\ who[r] \notin PresentOn(d)
      <4>1. Key(r) = <<who[r], d>> /\ Key(r) \in Keys
        BY <1>4, <2>3 DEF UpdateRow, Move, TypeOK, WellPlaced, Filling, Live, Key, Keys
      <4> QED
        BY <1>4, <4>1 DEF UpdateRow, PresentOn, TypeOK, Keys
    <3>3. /\ Cardinality(Pending(d)') = Cardinality(Pending(d)) + 1
          /\ Cardinality(PresentOn(d)') = Cardinality(PresentOn(d)) + 1
      BY <1>1, <3>1, <3>2, FS_AddElement
    <3> QED
      BY <1>1, <2>2, <3>3
  <2>4. CASE day[r] # d
    <3>1. PresentOn(d)' = PresentOn(d)
      BY <2>1, <2>4, <1>4, PresentOnFrame
    <3>2. Pending(d)' = Pending(d)
      BY <1>2, <1>3, <1>4, <2>1, <2>4 DEF Pending, UpdateRow, args
    <3> QED
      BY <2>2, <3>1, <3>2
  <2> QED
    BY <2>3, <2>4
<1>5. ASSUME NEW r \in Requests, IncrementPresent(r), day[r] = d
      PROVE  Exact(d)'
  <2>1. \A s \in Requests : ~UpdateRow(s) /\ (IncrementPresent(s) => s = r)
    BY <1>5, OneMover DEF UpdateRow, IncrementPresent
  <2>2. r \in Pending(d) /\ r \notin Pending(d)'
    BY <1>5 DEF IncrementPresent, Move, Pending, Uncounted, Filling, TypeOK, WellPlaced
  <2>3. Pending(d)' = Pending(d) \ {r}
    BY <1>2, <1>3, <2>1, <2>2
  <2>4. Cardinality(Pending(d)') = Cardinality(Pending(d)) - 1
    BY <1>1, <2>2, <2>3, FS_RemoveElement
  <2>5. PresentOn(d)' = PresentOn(d)
    BY <2>1, PresentOnFrame
  <2>6. present'[d] = present[d] + 1
    BY <1>1, <1>5 DEF IncrementPresent, OrZero, TypeOK
  <2> QED
    BY <1>1, <2>4, <2>5, <2>6, NilIsFresh
<1>6. ASSUME \A r \in Requests : ~UpdateRow(r) /\ ~(IncrementPresent(r) /\ day[r] = d)
      PROVE  Exact(d)'
  <2>1. PresentOn(d)' = PresentOn(d)
    BY <1>6, PresentOnFrame
  <2>2. present'[d] = present[d]
    BY <1>1, <1>6, PresentFrame, NilIsFresh DEF faults
  <2>3. Pending(d)' = Pending(d)
    BY <1>2, <1>3, <1>6 DEF Pending
  <2> QED
    BY <2>1, <2>2, <2>3
<1> QED
  BY <1>4, <1>5, <1>6

\* From any start, once a day's cached count is exact, no interleaving of
\* fills, check-ins and provisionings makes it wrong.
THEOREM ExactCountStaysExact == Spec => ExactStaysExact
<1>1. TypeOK /\ [Next]_vars =>
          [\A d \in Days : Exact(d) /\ UNCHANGED faults => Exact(d)']_vars
  BY ExactStep
<1> QED
  BY <1>1, TypeCorrect, PTL DEF Spec, ExactStaysExact

\* Behind CountedAtMostTwice: a COUNT a fill still holds is no larger than the
\* PRESENT rows, which only grow.
HeldCount(r) ==
    /\ pc[r] \in {"idle", "lock", "warm", "update"} => cPresent[r] = Nil
    /\ pc[r] \in {"counting", "fillPresent"} /\ cPresent[r] # Nil =>
          cPresent[r] <= Cardinality(PresentOn(day[r]))
CountInv == CountedAtMostTwice /\ \A r \in Requests : HeldCount(r)

LEMMA PresentOnGrows ==
    ASSUME TypeOK, [Next]_vars, NEW d \in Days
    PROVE  Cardinality(PresentOn(d)) <= Cardinality(PresentOn(d)')
<1>1. IsFiniteSet(PresentOn(d)')
  <2>1. PresentOn(d)' \subseteq Participants
    BY DEF PresentOn
  <2> QED
    BY <2>1, ParticipantsFinite, FS_Subset
<1> QED
  BY <1>1, PresentOnFrame, FS_Subset

\* A participant whose confirmation was counted stays so; an INCR adds one.
LEMMA CountedOnGrows ==
    ASSUME TypeOK, [Next]_vars, NEW d \in Days
    PROVE  /\ CountedOn(d) \subseteq CountedOn(d)'
           /\ Cardinality(CountedOn(d)) <= Cardinality(CountedOn(d)')
           /\ Cardinality(CountedOn(d)') \in Nat
<1>1. ASSUME NEW r \in Requests, back[r] = "incr", ~Uncounted(r)
      PROVE  (back[r] = "incr" /\ ~Uncounted(r))' /\ Key(r)' = Key(r)
  <2>1. pc[r] # "idle"
    BY <1>1 DEF TypeOK, WellPlaced, Filling
  <2>2. ~UpdateRow(r)
    BY <1>1, <2>1 DEF UpdateRow, Move, TypeOK, WellPlaced, Filling
  <2>3. ~Uncounted(r)'
    BY <1>1, <2>2, UncountedFrame
  <2>4. back'[r] = "incr" /\ Key(r)' = Key(r)
    <3>1. ASSUME NEW s \in Requests, UpdateRow(s) PROVE back'[r] = "incr" /\ Key(r)' = Key(r)
      BY <1>1, <3>1 DEF UpdateRow, Key, args, TypeOK
    <3>2. ASSUME NEW p \in Participants, Provision(p) PROVE back'[r] = "incr" /\ Key(r)' = Key(r)
      BY <1>1, <3>2 DEF Provision, Key, args
    <3>3. ASSUME NEW s \in Requests, NEW p \in Participants, NEW e \in Days, StartCheckIn(s, p, e)
          PROVE  back'[r] = "incr" /\ Key(r)' = Key(r)
      <4>1. s # r
        BY <2>1, <3>3 DEF StartCheckIn, Move
      <4> QED
        BY <1>1, <3>3, <4>1 DEF StartCheckIn, Key, TypeOK
    <3>4. ASSUME NEW s \in Requests, NEW e \in Days, StartSummary(s, e)
          PROVE  back'[r] = "incr" /\ Key(r)' = Key(r)
      <4>1. s # r
        BY <2>1, <3>4 DEF StartSummary, Move
      <4> QED
        BY <1>1, <3>4, <4>1 DEF StartSummary, Key, TypeOK
    <3>5. ASSUME UNCHANGED <<rows, who, day>>, \A s \in Requests : back'[s] = "incr" <=> back[s] = "incr"
          PROVE  back'[r] = "incr" /\ Key(r)' = Key(r)
      BY <1>1, <3>5 DEF Key
    <3> QED
      BY <3>1, <3>2, <3>3, <3>4, <3>5, ConfirmationFrame
  <2> QED
    BY <2>3, <2>4
<1>2. CountedOn(d) \subseteq CountedOn(d)'
  BY <1>1 DEF CountedOn
<1>3. CountedOn(d)' \subseteq Participants
  BY DEF CountedOn
<1>4. IsFiniteSet(CountedOn(d)') /\ Cardinality(CountedOn(d)') \in Nat
  BY <1>3, ParticipantsFinite, FS_Subset, FS_CardinalityType
<1> QED
  BY <1>2, <1>4, FS_Subset

\* A step leaves a request's held count alone, takes it afresh, or drops it.
LEMMA HeldCountFrame ==
    ASSUME TypeOK, [Next]_vars, NEW s \in Requests, HeldCount(s)
    PROVE  \/ CountPresent(s)
           \/ /\ pc'[s] \in {"idle", "lock", "warm", "update"} => cPresent'[s] = Nil
              /\ pc'[s] \in {"counting", "fillPresent"} /\ cPresent'[s] # Nil =>
                    /\ pc[s] \in {"counting", "fillPresent"}
                    /\ cPresent'[s] = cPresent[s]
                    /\ day'[s] = day[s]
<1>0. pc \in [Requests -> Locations] /\ day \in [Requests -> Days \union {Nil}]
  BY DEF TypeOK
<1>1. ASSUME NEW r \in Requests, Start(r)
      PROVE  /\ pc'[s] = pc[s] \/ (pc'[s] \in {"lock", "warm", "done"} /\ pc[s] = "idle")
             /\ UNCHANGED cPresent
             /\ pc[s] # "idle" => day'[s] = day[s]
  <2>1. ASSUME NEW p \in Participants, NEW d \in Days, StartCheckIn(r, p, d)
        PROVE  /\ pc'[s] = pc[s] \/ (pc'[s] = "lock" /\ pc[s] = "idle")
               /\ UNCHANGED cPresent
               /\ pc[s] # "idle" => day'[s] = day[s]
    BY <1>0, <2>1 DEF StartCheckIn, Move, locals
  <2>2. ASSUME NEW d \in Days, StartSummary(r, d)
        PROVE  /\ pc'[s] = pc[s] \/ (pc'[s] = "warm" /\ pc[s] = "idle")
               /\ UNCHANGED cPresent
               /\ pc[s] # "idle" => day'[s] = day[s]
    BY <1>0, <2>2 DEF StartSummary, Move, locals
  <2>3. CASE RejectCheckIn(r)
    BY <1>0, <2>3 DEF RejectCheckIn, Answer, Move, locals, args
  <2> QED
    BY <1>1, <2>1, <2>2, <2>3 DEF Start
<1> USE DEF HeldCount, Filling, TypeOK, WellPlaced, Move, Answer, db, redis, args, locals, faults
<1>2. ASSUME NEW r \in Requests, Step(r), r # s
      PROVE  UNCHANGED <<pc[s], cPresent[s], day[s]>>
  <2>1. CASE Warm(r)
    BY <1>2, <2>1 DEF Warm, WarmHit, WarmMiss, CountTotal, CountPresent, FillTotal, FillPresent
  <2>2. CASE TakeLock(r) \/ LockBusy(r) \/ UpdateRow(r) \/ UpdateMiss(r)
    BY <1>2, <2>2 DEF TakeLock, LockBusy, UpdateRow, UpdateMiss
  <2>3. CASE CurrentStatus(r) \/ Confirm(r) \/ IncrementPresent(r) \/ Broadcast(r) \/ ReadSummary(r)
    BY <1>2, <2>3 DEF CurrentStatus, Confirm, IncrementPresent, Broadcast, ReadSummary
  <2> QED
    BY <1>2, <2>1, <2>2, <2>3 DEF Step
<1>3. ASSUME Step(s), ~CountPresent(s)
      PROVE  /\ pc'[s] \in {"idle", "lock", "warm", "update"} => cPresent'[s] = Nil
             /\ pc'[s] \in {"counting", "fillPresent"} /\ cPresent'[s] # Nil =>
                   /\ pc[s] \in {"counting", "fillPresent"}
                   /\ cPresent'[s] = cPresent[s]
                   /\ day'[s] = day[s]
  <2>1. CASE WarmHit(s)
    BY <2>1 DEF WarmHit
  <2>2. CASE WarmMiss(s) \/ CountTotal(s) \/ FillTotal(s)
    BY <2>2 DEF WarmMiss, CountTotal, FillTotal
  <2>3. CASE FillPresent(s)
    BY <2>3 DEF FillPresent
  <2>4. CASE TakeLock(s) \/ LockBusy(s) \/ UpdateRow(s) \/ UpdateMiss(s)
    BY <2>4 DEF TakeLock, LockBusy, UpdateRow, UpdateMiss
  <2>5. CASE CurrentStatus(s) \/ Confirm(s) \/ IncrementPresent(s) \/ Broadcast(s) \/ ReadSummary(s)
    BY <2>5 DEF CurrentStatus, Confirm, IncrementPresent, Broadcast, ReadSummary
  <2> QED
    BY <1>3, <2>1, <2>2, <2>3, <2>4, <2>5 DEF Step, Warm
<1>4. CASE Environment
  <2>1. CASE Crash \/ \E r \in Requests : Fail(r)
    BY <2>1, DeathFrame DEF Live
  <2> QED
    BY <1>4, <2>1 DEF Environment, Provision, SetWillNotAttend, LockExpires, RestartRedis
<1>5. CASE UNCHANGED vars
  BY <1>5 DEF vars
<1> QED
  BY <1>1, <1>2, <1>3, <1>4, <1>5 DEF Next

LEMMA HeldCountStep ==
    ASSUME TypeOK, TypeOK', [Next]_vars, NEW s \in Requests, HeldCount(s)
    PROVE  HeldCount(s)'
<1>1. CASE CountPresent(s)
  <2>1. cPresent'[s] = Cardinality(PresentOn(day[s])) /\ pc'[s] = "counting"
    BY <1>1 DEF CountPresent, TypeOK
  <2>2. PresentOn(day[s])' = PresentOn(day[s])
    BY <1>1 DEF CountPresent, PresentOn, db, args
  <2> QED
    BY <2>1, <2>2, CountsAreNumbers DEF HeldCount
<1>2. ASSUME pc'[s] \in {"counting", "fillPresent"}, cPresent'[s] # Nil, ~CountPresent(s)
      PROVE  cPresent'[s] <= Cardinality(PresentOn(day[s])')
  <2>1. /\ pc[s] \in {"counting", "fillPresent"}
        /\ cPresent'[s] = cPresent[s] /\ day'[s] = day[s]
    BY <1>2, HeldCountFrame
  <2>2. PICK d \in Days : day[s] = d
    BY <2>1 DEF TypeOK, Live
  <2>3. cPresent[s] <= Cardinality(PresentOn(d)) /\ cPresent[s] \in Nat
    BY <1>2, <2>1, <2>2 DEF HeldCount, TypeOK
  <2>4. Cardinality(PresentOn(d)) <= Cardinality(PresentOn(d)')
    BY PresentOnGrows
  <2>5. PresentOn(d)' \subseteq Participants
    BY DEF PresentOn
  <2>6. Cardinality(PresentOn(d)') \in Nat
    BY <2>5, ParticipantsFinite, FS_Subset, FS_CardinalityType
  <2>7. day[s]' = d
    BY <2>1, <2>2
  <2>8. cPresent'[s] <= Cardinality(PresentOn(d)')
    BY <2>1, <2>3, <2>4, <2>6, CountsAreNumbers
  <2> QED
    BY <2>7, <2>8 DEF PresentOn
<1>3. CASE ~CountPresent(s)
  BY <1>2, <1>3, HeldCountFrame DEF HeldCount
<1> QED
  BY <1>1, <1>3

\* An INCR adds the participant it confirmed to those counted.
LEMMA IncrementIsCounted ==
    ASSUME TypeOK, OnceInv, [Next]_vars, NEW r \in Requests, NEW d \in Days,
           IncrementPresent(r), day[r] = d
    PROVE  Cardinality(CountedOn(d)') >= Cardinality(CountedOn(d)) + 1
<1>1. pc[r] = "incr" /\ back[r] = "incr" /\ Uncounted(r)
  BY DEF IncrementPresent, Move, TypeOK, WellPlaced, Uncounted, Filling
<1>2. PICK q \in Participants : q = who[r]
  BY <1>1 DEF TypeOK
<1>3. q \notin CountedOn(d)
  <2>1. ASSUME NEW s \in Requests, back[s] = "incr", Key(s) = <<q, d>>, ~Uncounted(s)
        PROVE  FALSE
    <3>1. Key(r) = Key(s)
      BY <1>2, <2>1 DEF Key
    <3>2. r = s
      BY <1>1, <2>1, <3>1 DEF OnceInv, ConfirmedOnce
    <3> QED
      BY <1>1, <2>1, <3>2
  <2> QED
    BY <2>1 DEF CountedOn
<1>4. q \in CountedOn(d)'
  <2>1. pc'[r] = "broadcast" /\ UNCHANGED <<back, who, day>>
    BY DEF IncrementPresent, Move, TypeOK, args
  <2>2. (back[r] = "incr" /\ Key(r) = <<q, d>> /\ ~Uncounted(r))'
    BY <1>1, <1>2, <2>1 DEF Key, Uncounted, Filling
  <2> QED
    BY <1>2, <2>2 DEF CountedOn
<1>5. CountedOn(d) \union {q} \subseteq CountedOn(d)'
  BY <1>4, CountedOnGrows
<1>6. IsFiniteSet(CountedOn(d)')
  <2>1. CountedOn(d)' \subseteq Participants
    BY DEF CountedOn
  <2> QED
    BY <2>1, ParticipantsFinite, FS_Subset
<1>7. Cardinality(CountedOn(d) \union {q}) = Cardinality(CountedOn(d)) + 1
  BY <1>3, PendingIsFinite, FS_AddElement
<1>8. Cardinality(CountedOn(d) \union {q}) <= Cardinality(CountedOn(d)')
  BY <1>5, <1>6, FS_Subset
<1> QED
  BY <1>7, <1>8, PendingIsFinite, CountedOnGrows

LEMMA CountStep ==
    TypeOK /\ TypeOK' /\ OnceInv /\ CountInv /\ [Next]_vars => CountInv'
<1> SUFFICES ASSUME TypeOK, TypeOK', OnceInv, CountInv, [Next]_vars
             PROVE  CountInv'
  OBVIOUS
<1>1. ASSUME NEW r \in Requests
      PROVE  HeldCount(r)'
  BY HeldCountStep DEF CountInv
<1>2. ASSUME NEW d \in Days, present'[d] # Nil
      PROVE  present'[d] <= Cardinality(PresentOn(d)') + Cardinality(CountedOn(d)')
  <2>1. /\ Cardinality(PresentOn(d)) \in Nat /\ Cardinality(CountedOn(d)) \in Nat
        /\ Cardinality(PresentOn(d)) <= Cardinality(PresentOn(d)')
        /\ Cardinality(CountedOn(d)) <= Cardinality(CountedOn(d)')
        /\ Cardinality(CountedOn(d)') \in Nat
    BY CountsAreNumbers, PendingIsFinite, PresentOnGrows, CountedOnGrows
  <2>2. Cardinality(PresentOn(d)') \in Nat
    <3>1. PresentOn(d)' \subseteq Participants
      BY DEF PresentOn
    <3> QED
      BY <3>1, ParticipantsFinite, FS_Subset, FS_CardinalityType
  <2>3. present[d] # Nil =>
            /\ present[d] \in Nat
            /\ present[d] <= Cardinality(PresentOn(d)) + Cardinality(CountedOn(d))
    BY DEF CountInv, CountedAtMostTwice, TypeOK
  <2>4. CASE present'[d] = present[d]
    BY <1>2, <2>1, <2>2, <2>3, <2>4
  <2>5. ASSUME NEW r \in Requests, IncrementPresent(r), day[r] = d
        PROVE  present'[d] <= Cardinality(PresentOn(d)') + Cardinality(CountedOn(d)')
    <3>1. present'[d] = OrZero(present[d]) + 1
      BY <2>5 DEF IncrementPresent, TypeOK
    <3>2. OrZero(present[d]) <= Cardinality(PresentOn(d)) + Cardinality(CountedOn(d))
      BY <2>1, <2>3 DEF OrZero
    <3>3. Cardinality(CountedOn(d)') >= Cardinality(CountedOn(d)) + 1
      BY <2>5, IncrementIsCounted
    <3>4. OrZero(present[d]) \in Nat
      BY <2>3 DEF OrZero
    <3> QED
      BY <2>1, <2>2, <3>1, <3>2, <3>3, <3>4
  <2>6. ASSUME NEW r \in Requests, FillPresent(r), day[r] = d, present[d] = Nil
        PROVE  present'[d] <= Cardinality(PresentOn(d)') + Cardinality(CountedOn(d)')
    <3>1. pc[r] = "fillPresent" /\ cPresent[r] # Nil /\ present'[d] = cPresent[r]
      BY <2>6 DEF FillPresent, Move, TypeOK
    <3>2. cPresent[r] <= Cardinality(PresentOn(d)) /\ cPresent[r] \in Nat
      BY <2>6, <3>1 DEF CountInv, HeldCount, TypeOK
    <3> QED
      BY <2>1, <2>2, <3>1, <3>2
  <2> QED
    BY <1>2, <2>4, <2>5, <2>6, PresentFrame
<1> QED
  BY <1>1, <1>2 DEF CountInv, CountedAtMostTwice

\* At first a warm cache holds the very count of the rows.
LEMMA CountInit == Init => CountInv
<1> SUFFICES ASSUME Init PROVE CountInv
  OBVIOUS
<1>1. ASSUME NEW d \in Days
      PROVE  PresentOn(d) = Attended
  BY InitialRows DEF Init, PresentOn, InitialRow, Keys
<1>2. ASSUME NEW d \in Days, present[d] # Nil
      PROVE  present[d] <= Cardinality(PresentOn(d)) + Cardinality(CountedOn(d))
  <2>1. present[d] = Cardinality(Attended)
    BY <1>2 DEF Init
  <2> QED
    BY <1>1, <2>1, CountsAreNumbers, PendingIsFinite
<1>3. ASSUME NEW r \in Requests
      PROVE  HeldCount(r)
  BY DEF Init, HeldCount
<1> QED
  BY <1>2, <1>3 DEF CountInv, CountedAtMostTwice

\* Whatever refills, restarts and dying requests interleave, nobody is counted
\* more than twice: once by a COUNT that saw the row, once by its own INCR.
THEOREM EachCountedAtMostTwice == Spec => []CountedAtMostTwice
<1>1. Init => OnceInv
  BY DEF Init, OnceInv, ConfirmedIsPresent, ConfirmedOnce
<1>2. CountInv => CountedAtMostTwice
  BY DEF CountInv
<1> QED
  BY <1>1, <1>2, OnceStep, CountInit, CountStep, TypeCorrect, PTL DEF Spec
=============================================================================
