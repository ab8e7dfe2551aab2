------------------------- MODULE OfflineQueueProofs -------------------------
(* Theorems about OfflineQueue, for any number of scans, tabs and requests. *)
EXTENDS OfflineQueue, TLAPS

USE DEF store, browser, server, data

USE DEF faults

LEMMA TypeInit == Init => TypeOK
BY BoundsAreNumbers DEF Init, TypeOK

LEMMA OnlineStep ==
    ASSUME TypeOK, [Next]_vars
    PROVE  online' \in BOOLEAN
<1>1. online \in BOOLEAN
  BY DEF TypeOK
<1>2. online' = online \/ online' = FALSE \/ online' = TRUE
  BY DEF Next, vars, Flush, StartFlush, Post, RejectPost, LosePost, ApplyResult, EndFlush,
         BatchSync, RefuseItem, BusyItem, LockItem, RecordItem, MissItem, AnswerItem, Respond,
         Environment, SubmitScan, DropConnection, CloseTab, GoOffline, GoOnline,
         LockExpires, ThrowItem, CrashServer
<1> QED
  BY <1>1, <1>2

\* An item's result leaves the request with its tab, at the next item.
LEMMA PushShape ==
    ASSUME TypeOK, NEW r \in Requests, NEW s \in Scans, NEW success \in BOOLEAN,
           at[r] # "free", PushResult(r, s, success)
    PROVE  /\ at' = [at EXCEPT ![r] = "item"]
           /\ owner' = owner
           /\ left' \in [Requests -> SUBSET Scans]
           /\ accepted' \in [Requests -> SUBSET Scans]
           /\ \A q \in Requests : at[q] = "free" => left'[q] = left[q] /\ accepted'[q] = accepted[q]
BY DEF PushResult, TypeOK

LEMMA TypePush ==
    ASSUME TypeOK, online' \in BOOLEAN, NEW r \in Requests, NEW s \in Scans,
           NEW success \in BOOLEAN, at[r] # "free", PushResult(r, s, success),
           UNCHANGED <<online, browser, data, drops>>, fails' \in 0 .. MaxFails,
           orphaned' \subseteq Rows
    PROVE  TypeOK'
BY PushShape DEF TypeOK

LEMMA TypeFlush ==
    ASSUME TypeOK, online' \in BOOLEAN, NEW t \in Tabs, Flush(t)
    PROVE  TypeOK'
<1>1. CASE StartFlush(t)
  BY <1>1 DEF StartFlush, TypeOK
<1>2. ASSUME NEW r \in Requests, Post(t, r) PROVE TypeOK'
  BY <1>2, NilIsFresh DEF Post, TypeOK
<1>3. CASE RejectPost(t) \/ EndFlush(t)
  BY <1>3 DEF RejectPost, EndFlush, Finish, TypeOK
<1>4. CASE LosePost(t)
  BY <1>4, BoundsAreNumbers DEF LosePost, Finish, TypeOK
<1>5. ASSUME NEW s \in Scans, ApplyResult(t, s) PROVE TypeOK'
  BY <1>5 DEF ApplyResult, TypeOK
<1> QED
  BY <1>1, <1>2, <1>3, <1>4, <1>5 DEF Flush

LEMMA TypeBatchSync ==
    ASSUME TypeOK, online' \in BOOLEAN, NEW r \in Requests, BatchSync(r)
    PROVE  TypeOK'
<1>1. ASSUME NEW s \in Scans, RefuseItem(r, s) \/ BusyItem(r, s) \/ MissItem(r, s) \/ AnswerItem(r, s)
      PROVE  TypeOK'
  <2>1. at[r] # "free"
    BY <1>1 DEF RefuseItem, BusyItem, MissItem, AnswerItem, Turn
  <2>2. \E success \in BOOLEAN : PushResult(r, s, success)
    BY <1>1 DEF RefuseItem, BusyItem, MissItem, AnswerItem
  <2>3. UNCHANGED <<online, browser, data, drops>> /\ fails' \in 0 .. MaxFails /\ orphaned' \subseteq Rows
    BY <1>1 DEF RefuseItem, BusyItem, MissItem, AnswerItem, TypeOK
  <2> QED
    BY <2>1, <2>2, <2>3, TypePush
<1>2. ASSUME NEW s \in Scans, LockItem(r, s) PROVE TypeOK'
  BY <1>2, ScansNameTargets DEF LockItem, Turn, TypeOK
<1>3. ASSUME NEW s \in Scans, RecordItem(r, s) PROVE TypeOK'
  BY <1>3, ScansNameTargets DEF RecordItem, Turn, TypeOK
<1>4. CASE Respond(r)
  BY <1>4, NilIsFresh DEF Respond, Return, Waiting, TypeOK
<1> QED
  BY <1>1, <1>2, <1>3, <1>4 DEF BatchSync

LEMMA TypeEnvironment ==
    ASSUME TypeOK, online' \in BOOLEAN, Environment
    PROVE  TypeOK'
<1>1. ASSUME NEW s \in Scans, SubmitScan(s) PROVE TypeOK'
  BY <1>1 DEF SubmitScan, TypeOK
<1>2. ASSUME NEW t \in Tabs, DropConnection(t) \/ CloseTab(t) PROVE TypeOK'
  BY <1>2, BoundsAreNumbers DEF DropConnection, CloseTab, Finish, TypeOK
<1>3. CASE GoOffline \/ GoOnline
  BY <1>3, BoundsAreNumbers DEF GoOffline, GoOnline, TypeOK
<1>4. ASSUME NEW k \in Targets, LockExpires(k) PROVE TypeOK'
  BY <1>4 DEF LockExpires, TypeOK
<1>5. ASSUME NEW r \in Requests, NEW s \in Scans, ThrowItem(r, s) PROVE TypeOK'
  <2>1. at[r] # "free" /\ PushResult(r, s, FALSE)
    BY <1>5 DEF ThrowItem, Turn
  <2>2. UNCHANGED <<online, browser, data, drops>> /\ fails' \in 0 .. MaxFails /\ orphaned' \subseteq Rows
    BY <1>5, BoundsAreNumbers DEF ThrowItem, TypeOK
  <2>3. FALSE \in BOOLEAN
    OBVIOUS
  <2> QED
    BY <2>1, <2>2, <2>3, TypePush
<1>6. CASE CrashServer
  BY <1>6, BoundsAreNumbers DEF CrashServer, Promised, TypeOK
<1> QED
  BY <1>1, <1>2, <1>3, <1>4, <1>5, <1>6 DEF Environment

LEMMA TypeStep == TypeOK /\ [Next]_vars => TypeOK'
BY OnlineStep, TypeFlush, TypeBatchSync, TypeEnvironment DEF Next, vars, TypeOK

\* Every reachable state is well shaped; in particular no answer of a batch
\* ever reaches a tab that is not waiting for it.
THEOREM TypeCorrect == Spec => []TypeOK
BY TypeInit, TypeStep, PTL DEF Spec

----------------------------------------------------------------------------
(***************************************************************************)
(* Nothing is dropped before it is recorded.  What leaves the store was in *)
(* some tab's todo, what is there was in some request's accepted, and what *)
(* is there had been recorded, or found its lock taken: each of these and  *)
(* each lock stands for a row that is kept.                                *)
(***************************************************************************)
StoreKept == \A s \in submitted \ queue : Kept(TargetOf[s])
TodoCovered == \A t \in Tabs : phase[t] = "apply" => \A s \in todo[t] : Kept(TargetOf[s])
AcceptedCovered == \A r \in Requests : \A s \in accepted[r] : Kept(TargetOf[s])
LockCovered == \A k \in lock \cap Rows : Kept(k)
DoneIsPresent ==
    \A r \in Requests, s \in Scans : Turn(r, s, "recorded") => TargetOf[s] \in present
Covered == StoreKept /\ TodoCovered /\ AcceptedCovered /\ LockCovered
KeepInv == DoneIsPresent /\ Covered

\* A request is at one item at a time.
LEMMA OneTurn ==
    ASSUME TypeOK, NEW r \in Requests, NEW s \in Scans, NEW u \in Scans,
           Least(s, left[r]), Least(u, left[r])
    PROVE  s = u
BY ScansAreOrdered DEF Least, TypeOK

\* A request that holds the lock of a row changes only by recording the row or
\* failing.
LEMMA TurnStays ==
    ASSUME TypeOK, [Next]_vars,
           NEW r \in Requests, NEW s \in Scans, Turn(r, s, "locked"),
           TargetOf[s] \in Rows, ~RecordItem(r, s), ~ThrowItem(r, s), ~CrashServer
    PROVE  Turn(r, s, "locked")'
<1> SUFFICES at'[r] = at[r] /\ left'[r] = left[r]
  BY DEF Turn, Least
<1>0. at[r] = "locked"
  BY DEF Turn
<1>1. ASSUME NEW t \in Tabs, Flush(t) PROVE at'[r] = at[r] /\ left'[r] = left[r]
  BY <1>0, <1>1 DEF Flush, StartFlush, Post, RejectPost, LosePost, ApplyResult, EndFlush, TypeOK
<1>2. ASSUME NEW q \in Requests, BatchSync(q) PROVE at'[r] = at[r] /\ left'[r] = left[r]
  <2>1. ASSUME NEW u \in Scans, RefuseItem(q, u) \/ BusyItem(q, u) \/ AnswerItem(q, u)
        PROVE  at'[r] = at[r] /\ left'[r] = left[r]
    BY <1>0, <2>1 DEF RefuseItem, BusyItem, AnswerItem, PushResult, Turn, TypeOK
  <2>2. ASSUME NEW u \in Scans, LockItem(q, u) PROVE at'[r] = at[r] /\ left'[r] = left[r]
    BY <1>0, <2>2 DEF LockItem, Turn, TypeOK
  <2>3. ASSUME NEW u \in Scans, RecordItem(q, u) PROVE at'[r] = at[r] /\ left'[r] = left[r]
    <3>1. q # r
      BY <2>3, OneTurn DEF RecordItem, Turn
    <3> QED
      BY <2>3, <3>1 DEF RecordItem, TypeOK
  <2>4. CASE Respond(q)
    BY <1>0, <2>4 DEF Respond, Return, TypeOK
  <2>5. ASSUME NEW u \in Scans, MissItem(q, u) PROVE at'[r] = at[r] /\ left'[r] = left[r]
    <3>1. q # r
      BY <1>0, <2>5, OneTurn DEF MissItem, Turn
    <3> QED
      BY <2>5, <3>1 DEF MissItem, PushResult, TypeOK
  <2> QED
    BY <1>2, <2>1, <2>2, <2>3, <2>4, <2>5 DEF BatchSync
<1>3. CASE Environment
  <2>1. ASSUME NEW q \in Requests, NEW u \in Scans, ThrowItem(q, u)
        PROVE  at'[r] = at[r] /\ left'[r] = left[r]
    <3>1. q # r
      <4>1. ASSUME q = r PROVE FALSE
        <5>1. u = s
          BY <2>1, <4>1, OneTurn DEF ThrowItem, Turn
        <5> QED
          BY <2>1, <4>1, <5>1
      <4> QED
        BY <4>1
    <3> QED
      BY <2>1, <3>1 DEF ThrowItem, PushResult, TypeOK
  <2> QED
    BY <1>3, <2>1 DEF Environment, SubmitScan, DropConnection, CloseTab, GoOffline, GoOnline, LockExpires
<1>4. CASE UNCHANGED vars
  BY <1>4 DEF vars
<1> QED
  BY <1>1, <1>2, <1>3, <1>4 DEF Next

\* Rows stay PRESENT: nothing in the code resets one.
LEMMA PresentStays ==
    ASSUME [Next]_vars
    PROVE  present \subseteq present'
BY DEF Next, vars, Flush, StartFlush, Post, RejectPost, LosePost, ApplyResult, EndFlush,
       BatchSync, RefuseItem, BusyItem, LockItem, RecordItem, MissItem, AnswerItem, Respond,
       Environment, SubmitScan, DropConnection, CloseTab, GoOffline, GoOnline,
       LockExpires, ThrowItem, CrashServer

\* Only a check-in that dies orphans a row, and an orphan stays one.
LEMMA OrphansFrame ==
    ASSUME [Next]_vars
    PROVE  /\ orphaned \subseteq orphaned'
           /\ \/ orphaned' = orphaned
              \/ CrashServer
              \/ \E r \in Requests, s \in Scans : ThrowItem(r, s)
<1>1. ASSUME NEW t \in Tabs, Flush(t) PROVE UNCHANGED orphaned
  BY <1>1 DEF Flush, StartFlush, Post, RejectPost, LosePost, ApplyResult, EndFlush
<1>2. ASSUME NEW r \in Requests, BatchSync(r) PROVE UNCHANGED orphaned
  BY <1>2 DEF BatchSync, RefuseItem, BusyItem, LockItem, RecordItem, MissItem, AnswerItem, Respond
<1>3. CASE Environment
  BY <1>3 DEF Environment, SubmitScan, DropConnection, CloseTab, GoOffline, GoOnline,
     LockExpires, ThrowItem, CrashServer
<1>4. CASE UNCHANGED vars
  BY <1>4 DEF vars
<1> QED
  BY <1>1, <1>2, <1>3, <1>4 DEF Next

\* A row stays kept: its lock holder records it, or dies and leaves it orphaned.
LEMMA KeptStays ==
    ASSUME TypeOK, [Next]_vars, NEW k, Kept(k)
    PROVE  Kept(k)'
<1>1. CASE k \in present \union orphaned
  BY <1>1, PresentStays, OrphansFrame DEF Kept
<1>2. ASSUME NEW r \in Requests, NEW s \in Scans, Turn(r, s, "locked"), TargetOf[s] = k, k \in Rows
      PROVE  Kept(k)'
  <2>1. CASE RecordItem(r, s)
    BY <1>2, <2>1 DEF RecordItem, Kept
  <2>2. CASE CrashServer
    BY <1>2, <2>2 DEF CrashServer, Promised, Kept
  <2>3. CASE ThrowItem(r, s)
    BY <1>2, <2>3 DEF ThrowItem, Turn, Kept
  <2>4. CASE ~RecordItem(r, s) /\ ~CrashServer /\ ~ThrowItem(r, s)
    BY <1>2, <2>4, TurnStays DEF Kept, Promised
  <2> QED
    BY <2>1, <2>2, <2>3, <2>4
<1> QED
  BY <1>1, <1>2 DEF Kept, Promised

----------------------------------------------------------------------------
LEMMA KeepInit == Init => KeepInv
BY DEF Init, KeepInv, DoneIsPresent, Turn, Covered, StoreKept, TodoCovered,
       AcceptedCovered, LockCovered

\* A request past its UPDATE has its row PRESENT.
LEMMA DoneStep ==
    ASSUME TypeOK, [Next]_vars, DoneIsPresent
    PROVE  DoneIsPresent'
<1> SUFFICES ASSUME NEW r \in Requests, NEW s \in Scans, Turn(r, s, "recorded")'
             PROVE  TargetOf[s] \in present'
  BY DEF DoneIsPresent
<1>1. Turn(r, s, "recorded") => TargetOf[s] \in present'
  BY PresentStays DEF DoneIsPresent
<1>2. SUFFICES (at'[r] = at[r] /\ left'[r] = left[r]) \/ RecordItem(r, s)
  BY <1>1 DEF Turn, Least, RecordItem
<1>3. ASSUME NEW t \in Tabs, Flush(t) PROVE at'[r] = at[r] /\ left'[r] = left[r]
  BY <1>3 DEF Flush, StartFlush, Post, RejectPost, LosePost, ApplyResult, EndFlush, Turn, TypeOK
<1>4. ASSUME NEW q \in Requests, BatchSync(q)
      PROVE  (at'[r] = at[r] /\ left'[r] = left[r]) \/ RecordItem(r, s)
  <2>1. ASSUME NEW u \in Scans, RefuseItem(q, u) \/ BusyItem(q, u) \/ MissItem(q, u) \/ AnswerItem(q, u)
        PROVE  at'[r] = at[r] /\ left'[r] = left[r]
    BY <2>1 DEF RefuseItem, BusyItem, MissItem, AnswerItem, PushResult, Turn, TypeOK
  <2>2. ASSUME NEW u \in Scans, LockItem(q, u) PROVE at'[r] = at[r] /\ left'[r] = left[r]
    BY <2>2 DEF LockItem, Turn, TypeOK
  <2>3. ASSUME NEW u \in Scans, RecordItem(q, u)
        PROVE  (at'[r] = at[r] /\ left'[r] = left[r]) \/ RecordItem(r, s)
    <3>1. CASE q # r
      BY <2>3, <3>1 DEF RecordItem, TypeOK
    <3>2. CASE q = r
      BY <2>3, <3>2, OneTurn DEF RecordItem, Turn, Least
    <3> QED
      BY <3>1, <3>2
  <2>4. CASE Respond(q)
    BY <2>4 DEF Respond, Return, Turn, TypeOK
  <2> QED
    BY <1>4, <2>1, <2>2, <2>3, <2>4 DEF BatchSync
<1>5. CASE Environment
  <2>1. ASSUME NEW q \in Requests, NEW u \in Scans, ThrowItem(q, u)
        PROVE  at'[r] = at[r] /\ left'[r] = left[r]
    BY <2>1 DEF ThrowItem, PushResult, Turn, TypeOK
  <2>2. CASE CrashServer
    BY <2>2 DEF CrashServer, Turn
  <2> QED
    BY <1>5, <2>1, <2>2 DEF Environment, SubmitScan, DropConnection, CloseTab, GoOffline, GoOnline, LockExpires
<1>6. CASE UNCHANGED vars
  BY <1>6 DEF vars
<1> QED
  BY <1>3, <1>4, <1>5, <1>6 DEF Next

\* What is kept stays so: each part of Covered only has to be checked for the
\* scans and locks that are new to it.
LEMMA CoveredStep ==
    ASSUME TypeOK, [Next]_vars, DoneIsPresent, Covered
    PROVE  Covered'
<1>1. \A k : Kept(k) => Kept(k)'
  BY KeptStays
<1>3. CASE CrashServer
  BY <1>1, <1>3 DEF CrashServer, Covered, StoreKept, TodoCovered, AcceptedCovered, LockCovered, TypeOK
<1>4. ASSUME NEW r \in Requests, NEW s \in Scans, ThrowItem(r, s) PROVE Covered'
  BY <1>1, <1>4 DEF ThrowItem, PushResult, Covered, StoreKept, TodoCovered, AcceptedCovered,
                    LockCovered, TypeOK
<1>5. ASSUME NEW t \in Tabs, Flush(t) PROVE Covered'
  <2>1. CASE StartFlush(t) \/ \E r \in Requests : Post(t, r)
    BY <1>1, <2>1 DEF StartFlush, Post, Covered, StoreKept, TodoCovered, AcceptedCovered, LockCovered, TypeOK
  <2>2. CASE RejectPost(t) \/ LosePost(t) \/ EndFlush(t)
    BY <1>1, <2>2 DEF RejectPost, LosePost, EndFlush, Finish, Covered, StoreKept,
                      TodoCovered, AcceptedCovered, LockCovered, TypeOK
  <2>3. ASSUME NEW s \in Scans, ApplyResult(t, s) PROVE Covered'
    <3>1. Kept(TargetOf[s])
      BY <2>3 DEF ApplyResult, Least, Covered, TodoCovered
    <3> QED
      BY <1>1, <2>3, <3>1 DEF ApplyResult, Covered, StoreKept, TodoCovered, AcceptedCovered, LockCovered, TypeOK
  <2> QED
    BY <1>5, <2>1, <2>2, <2>3 DEF Flush
<1>6. ASSUME NEW r \in Requests, BatchSync(r) PROVE Covered'
  <2>1. ASSUME NEW s \in Scans, RefuseItem(r, s) \/ MissItem(r, s) PROVE Covered'
    BY <1>1, <2>1 DEF RefuseItem, MissItem, PushResult, Covered, StoreKept, TodoCovered, AcceptedCovered, LockCovered, TypeOK
  <2>2. ASSUME NEW s \in Scans, BusyItem(r, s) \/ AnswerItem(r, s) PROVE Covered'
    <3>1. Kept(TargetOf[s])
      BY <2>2 DEF BusyItem, AnswerItem, Covered, LockCovered, DoneIsPresent, Kept
    <3>2. accepted' = [accepted EXCEPT ![r] = @ \union {s}] /\ UNCHANGED <<store, phase, todo, lock>>
      BY <2>2 DEF BusyItem, AnswerItem, PushResult
    <3> QED
      BY <1>1, <3>1, <3>2 DEF Covered, StoreKept, TodoCovered, AcceptedCovered, LockCovered, TypeOK
  <2>3. ASSUME NEW s \in Scans, LockItem(r, s) PROVE Covered'
    <3>1. Turn(r, s, "locked")'
      BY <2>3 DEF LockItem, Turn, Least, TypeOK
    <3>2. TargetOf[s] \in Rows => Kept(TargetOf[s])'
      BY <3>1 DEF Kept, Promised
    <3> QED
      BY <1>1, <2>3, <3>2 DEF LockItem, Covered, StoreKept, TodoCovered, AcceptedCovered, LockCovered
  <2>4. ASSUME NEW s \in Scans, RecordItem(r, s) PROVE Covered'
    BY <1>1, <2>4 DEF RecordItem, Covered, StoreKept, TodoCovered, AcceptedCovered, LockCovered
  <2>5. CASE Respond(r)
    <3>1. \A s \in accepted[r] : Kept(TargetOf[s])
      BY DEF Covered, AcceptedCovered
    <3>2. /\ \A q \in Requests : accepted'[q] \subseteq accepted[q]
          /\ \A t \in Tabs : phase'[t] = "apply" =>
                todo'[t] = accepted[r] \/ (phase[t] = "apply" /\ todo'[t] = todo[t])
          /\ UNCHANGED <<store, lock>>
      BY <2>5 DEF Respond, Return, TypeOK
    <3> QED
      BY <1>1, <3>1, <3>2 DEF Covered, StoreKept, TodoCovered, AcceptedCovered, LockCovered
  <2> QED
    BY <1>6, <2>1, <2>2, <2>3, <2>4, <2>5 DEF BatchSync
<1>7. ASSUME Environment PROVE Covered'
  <2>1. ASSUME NEW s \in Scans, SubmitScan(s) PROVE Covered'
    BY <1>1, <2>1 DEF SubmitScan, Covered, StoreKept, TodoCovered, AcceptedCovered, LockCovered
  <2>2. ASSUME NEW t \in Tabs, DropConnection(t) \/ CloseTab(t) PROVE Covered'
    BY <1>1, <2>2 DEF DropConnection, CloseTab, Finish, Covered, StoreKept, TodoCovered,
                      AcceptedCovered, LockCovered, TypeOK
  <2>3. CASE GoOffline \/ GoOnline \/ \E k \in Targets : LockExpires(k)
    BY <1>1, <2>3 DEF GoOffline, GoOnline, LockExpires, Covered, StoreKept, TodoCovered,
                      AcceptedCovered, LockCovered
  <2> QED
    BY <1>3, <1>4, <1>7, <2>1, <2>2, <2>3 DEF Environment
<1>8. CASE UNCHANGED vars
  BY <1>1, <1>8 DEF vars, Covered, StoreKept, TodoCovered, AcceptedCovered, LockCovered
<1> QED
  BY <1>5, <1>6, <1>7, <1>8 DEF Next

LEMMA KeepStep == TypeOK /\ KeepInv /\ [Next]_vars => KeepInv'
BY DoneStep, CoveredStep DEF KeepInv

\* However many tabs flush the same store, however often answers are lost and
\* batches replayed, a scan leaves the store only once its row is recorded, or
\* when a check-in of it died between its lock and its UPDATE.
THEOREM ScansAreKept == Spec => []KeptUntilRecorded
<1>1. KeepInv => KeptUntilRecorded
  BY DEF KeepInv, Covered, StoreKept, KeptUntilRecorded
<1> QED
  BY <1>1, TypeCorrect, KeepInit, KeepStep, PTL DEF Spec

----------------------------------------------------------------------------
(***************************************************************************)
(* The browser and its batches implement Presence                          *)
(***************************************************************************)

\* A request comes to hold a lock by taking it.
LEMMA LockOrigin ==
    ASSUME TypeOK, [Next]_vars, NEW r \in Requests, NEW s \in Scans, Turn(r, s, "locked")'
    PROVE  Turn(r, s, "locked") \/ LockItem(r, s)
<1> SUFFICES (at'[r] = at[r] /\ left'[r] = left[r]) \/ LockItem(r, s)
  BY DEF Turn, Least
<1>0. at'[r] = "locked"
  BY DEF Turn
<1>1. ASSUME NEW t \in Tabs, Flush(t) PROVE at'[r] = at[r] /\ left'[r] = left[r]
  BY <1>0, <1>1 DEF Flush, StartFlush, Post, RejectPost, LosePost, ApplyResult, EndFlush, TypeOK
<1>2. ASSUME NEW q \in Requests, BatchSync(q)
      PROVE  (at'[r] = at[r] /\ left'[r] = left[r]) \/ LockItem(r, s)
  <2>1. ASSUME NEW u \in Scans, RefuseItem(q, u) \/ BusyItem(q, u) \/ MissItem(q, u) \/ AnswerItem(q, u)
        PROVE  at'[r] = at[r] /\ left'[r] = left[r]
    BY <1>0, <2>1 DEF RefuseItem, BusyItem, MissItem, AnswerItem, PushResult, TypeOK
  <2>2. ASSUME NEW u \in Scans, LockItem(q, u)
        PROVE  (at'[r] = at[r] /\ left'[r] = left[r]) \/ LockItem(r, s)
    <3>1. CASE q # r
      BY <2>2, <3>1 DEF LockItem, TypeOK
    <3>2. CASE q = r
      <4>1. Least(u, left[r]) /\ Least(s, left[r])
        BY <2>2, <3>2 DEF LockItem, Turn, Least
      <4> QED
        BY <2>2, <3>2, <4>1, OneTurn
    <3> QED
      BY <3>1, <3>2
  <2>3. ASSUME NEW u \in Scans, RecordItem(q, u) PROVE at'[r] = at[r] /\ left'[r] = left[r]
    BY <1>0, <2>3 DEF RecordItem, TypeOK
  <2>4. CASE Respond(q)
    BY <1>0, <2>4 DEF Respond, Return, TypeOK
  <2> QED
    BY <1>2, <2>1, <2>2, <2>3, <2>4 DEF BatchSync
<1>3. CASE Environment
  <2>1. ASSUME NEW q \in Requests, NEW u \in Scans, ThrowItem(q, u)
        PROVE  at'[r] = at[r] /\ left'[r] = left[r]
    BY <1>0, <2>1 DEF ThrowItem, PushResult, TypeOK
  <2>2. ~CrashServer
    BY <1>0 DEF CrashServer
  <2> QED
    BY <1>3, <2>1, <2>2 DEF Environment, SubmitScan, DropConnection, CloseTab, GoOffline, GoOnline, LockExpires
<1>4. CASE UNCHANGED vars
  BY <1>4 DEF vars
<1> QED
  BY <1>1, <1>2, <1>3, <1>4 DEF Next

\* A promise comes with a lock and goes with its record.
LEMMA PromisedFrame ==
    ASSUME TypeOK, [Next]_vars, NEW k \in Rows
    PROVE  /\ k \in Promised' => \/ k \in Promised
                                 \/ \E r \in Requests, s \in Scans : LockItem(r, s) /\ TargetOf[s] = k
           /\ k \in Promised => \/ k \in Promised'
                                \/ \E r \in Requests, s \in Scans : RecordItem(r, s) /\ TargetOf[s] = k
                                \/ CrashServer
                                \/ \E r \in Requests, s \in Scans : ThrowItem(r, s)
<1>1. ASSUME k \in Promised'
      PROVE  k \in Promised \/ \E r \in Requests, s \in Scans : LockItem(r, s) /\ TargetOf[s] = k
  <2>1. PICK r \in Requests, s \in Scans : Turn(r, s, "locked")' /\ TargetOf[s] = k
    BY <1>1 DEF Promised
  <2> QED
    BY <2>1, LockOrigin DEF Promised
<1>2. ASSUME k \in Promised
      PROVE  \/ k \in Promised'
             \/ \E r \in Requests, s \in Scans : RecordItem(r, s) /\ TargetOf[s] = k
             \/ CrashServer
             \/ \E r \in Requests, s \in Scans : ThrowItem(r, s)
  <2>1. PICK r \in Requests, s \in Scans : Turn(r, s, "locked") /\ TargetOf[s] = k
    BY <1>2 DEF Promised
  <2> QED
    BY <2>1, TurnStays DEF Promised
<1> QED
  BY <1>1, <1>2

\* Only a flush that applies results takes scans out of the store.
LEMMA ToldFrame ==
    ASSUME TypeOK, [Next]_vars
    PROVE  Told' = Told \/ \E t \in Tabs, s \in Scans : ApplyResult(t, s)
<1> DEFINE Same == submitted' \ queue' = submitted \ queue
<1>1. ASSUME NEW t \in Tabs, Flush(t), ~\E s \in Scans : ApplyResult(t, s)
      PROVE  UNCHANGED store
  BY <1>1 DEF Flush, StartFlush, Post, RejectPost, LosePost, EndFlush, store
<1>2. ASSUME NEW r \in Requests, BatchSync(r) PROVE UNCHANGED store
  <2>1. CASE \E s \in Scans : RefuseItem(r, s) \/ BusyItem(r, s) \/ MissItem(r, s)
    BY <2>1 DEF RefuseItem, BusyItem, MissItem, browser
  <2>2. CASE \E s \in Scans : LockItem(r, s) \/ RecordItem(r, s) \/ AnswerItem(r, s)
    BY <2>2 DEF LockItem, RecordItem, MissItem, AnswerItem, browser
  <2>3. CASE Respond(r)
    BY <2>3 DEF Respond
  <2> QED
    BY <1>2, <2>1, <2>2, <2>3 DEF BatchSync
<1>3. ASSUME NEW s \in Scans, SubmitScan(s) PROVE Same
  BY <1>3 DEF SubmitScan, TypeOK
<1>4. ASSUME Environment, ~\E s \in Scans : SubmitScan(s) PROVE UNCHANGED store
  <2>1. ASSUME NEW r \in Requests, NEW s \in Scans, ThrowItem(r, s) PROVE UNCHANGED store
    BY <2>1 DEF ThrowItem, browser
  <2>2. CASE CrashServer
    BY <2>2 DEF CrashServer
  <2>3. CASE \E t \in Tabs : DropConnection(t) \/ CloseTab(t)
    BY <2>3 DEF DropConnection, CloseTab
  <2>4. CASE GoOffline \/ GoOnline \/ \E k \in Targets : LockExpires(k)
    BY <2>4 DEF GoOffline, GoOnline, LockExpires, browser
  <2> QED
    BY <1>4, <2>1, <2>2, <2>3, <2>4 DEF Environment
<1>5. UNCHANGED vars => UNCHANGED store
  BY DEF vars, browser
<1>6. UNCHANGED store => Same
  BY DEF store
<1>7. Same \/ \E t \in Tabs, s \in Scans : ApplyResult(t, s)
  BY <1>1, <1>2, <1>3, <1>4, <1>5, <1>6 DEF Next
<1> QED
  BY <1>7 DEF Told

LEMMA PresentFrame ==
    ASSUME [Next]_vars
    PROVE  present' = present \/ \E r \in Requests, s \in Scans : RecordItem(r, s)
BY DEF Next, vars, Flush, StartFlush, Post, RejectPost, LosePost, ApplyResult, EndFlush,
       BatchSync, RefuseItem, BusyItem, LockItem, MissItem, AnswerItem, Respond,
       Environment, SubmitScan, DropConnection, CloseTab, GoOffline, GoOnline,
       LockExpires, ThrowItem, CrashServer

\* One step of the queue is one of the promise, or none.
LEMMA PromiseStep ==
    ASSUME TypeOK, KeepInv, [Next]_vars, ~CrashServer,
           \A r \in Requests, s \in Scans : ~ThrowItem(r, s)
    PROVE  [Promise!Next]_(Promise!vars)
<1> DEFINE Status == [k \in Rows |-> IF k \in present THEN "PRESENT" ELSE "PENDING"]
<1>1. orphaned' = orphaned
  BY OrphansFrame
<1>2. /\ Promised \subseteq Rows /\ Promised' \subseteq Rows /\ Rows \subseteq Targets
      /\ \A s \in Scans : TargetOf[s] \in Targets
  BY ScansNameTargets DEF Promised
<1>3. ASSUME NEW r \in Requests, NEW s \in Scans, LockItem(r, s)
      PROVE  \/ TargetOf[s] \in Rows /\ Promise!Accept(TargetOf[s])
             \/ UNCHANGED Promise!vars
  <2>1. UNCHANGED <<present, submitted, queue>> /\ lock' # lock
    BY <1>3, <1>2 DEF LockItem
  <2>2. Status' = Status /\ Told' = Told
    BY <2>1 DEF Told
  <2>3. \A q \in Requests, u \in Scans :
            ~RecordItem(q, u) /\ (LockItem(q, u) => TargetOf[u] = TargetOf[s])
    BY <1>3, <2>1 DEF RecordItem, LockItem
  <2>4. Turn(r, s, "locked")'
    BY <1>3 DEF LockItem, Turn, Least, TypeOK
  <2>5. Promised' = Promised \union ({TargetOf[s]} \cap Rows)
    BY <1>1, <1>2, <2>3, <2>4, PromisedFrame DEF Promised
  <2>6. CASE TargetOf[s] \in Rows
    BY <1>1, <2>2, <2>5, <2>6 DEF Promise!Accept
  <2>7. CASE TargetOf[s] \notin Rows
    BY <1>1, <2>2, <2>5, <2>7 DEF Promise!vars
  <2> QED
    BY <1>1, <2>6, <2>7
<1>4. ASSUME NEW r \in Requests, NEW s \in Scans, RecordItem(r, s)
      PROVE  \/ TargetOf[s] \in Rows /\ (Promise!Fulfil(TargetOf[s]) \/ Promise!Settle(TargetOf[s]))
             \/ UNCHANGED Promise!vars
  <2>1. PICK k \in Rows : k = TargetOf[s]
    BY <1>4 DEF RecordItem
  <2>2. UNCHANGED <<lock, submitted, queue>> /\ present' = present \union {k}
    BY <1>4, <2>1 DEF RecordItem
  <2>3. Told' = Told
    BY <2>2 DEF Told
  <2>4. \A q \in Requests, u \in Scans : ~LockItem(q, u)
    BY <1>2, <2>2 DEF LockItem
  <2>5. ASSUME NEW q \in Requests, NEW u \in Scans, RecordItem(q, u) PROVE u = s
    <3>1. at' = [at EXCEPT ![r] = "recorded"] /\ at[q] = "locked" /\ at'[q] = "recorded"
      BY <1>4, <2>5 DEF RecordItem, Turn, TypeOK
    <3>2. q = r
      BY <3>1 DEF TypeOK
    <3> QED
      BY <1>1, <1>4, <2>5, <3>2, OneTurn DEF RecordItem, Turn
  <2>6. Promised' \in {Promised, Promised \ {k}}
    BY <1>1, <1>2, <2>1, <2>4, <2>5, PromisedFrame
  <2>7. k \in Promised
    BY <1>4, <2>1 DEF RecordItem, Promised
  <2>8. CASE k \in present
    <3>1. Status' = Status /\ Status[k] = "PRESENT"
      BY <2>2, <2>8
    <3>2. Promised' = Promised \ {k} => Promise!Settle(k)
      BY <1>1, <2>3, <3>1 DEF Promise!Settle
    <3>3. Promised' = Promised => UNCHANGED Promise!vars
      BY <1>1, <2>3, <3>1 DEF Promise!vars
    <3> QED
      BY <1>1, <2>1, <2>6, <3>2, <3>3
  <2>9. CASE k \notin present
    <3>1. Status' = [Status EXCEPT ![k] = "PRESENT"] /\ Status[k] = "PENDING"
      BY <2>2, <2>9
    <3> QED
      BY <1>1, <2>1, <2>3, <2>6, <2>7, <3>1 DEF Promise!Fulfil
  <2> QED
    BY <1>1, <2>8, <2>9
<1>5. ASSUME NEW t \in Tabs, NEW s \in Scans, ApplyResult(t, s)
      PROVE  \/ TargetOf[s] \in Rows /\ Promise!Tell(TargetOf[s])
             \/ UNCHANGED Promise!vars
  <2>1. /\ UNCHANGED <<present, submitted, at, left>> /\ queue' = queue \ {s}
        /\ phase[t] = "apply" /\ s \in todo[t]
    BY <1>5 DEF ApplyResult, Least
  <2>2. Status' = Status
    BY <2>1
  <2>3. Promised' = Promised
    BY <2>1 DEF Promised, Turn, Least
  <2>4. CASE s \notin queue
    <3>1. Told' = Told
      BY <2>1, <2>4 DEF Told
    <3> QED
      BY <1>1, <2>2, <2>3, <3>1 DEF Promise!vars
  <2>5. CASE s \in queue
    <3>1. Told' = Told \union {TargetOf[s]}
      BY <2>1, <2>5 DEF Told, TypeOK
    <3>2. Kept(TargetOf[s])
      BY <1>1, <2>1 DEF KeepInv, Covered, TodoCovered
    <3>3. /\ TargetOf[s] \in Rows
          /\ \/ Status[TargetOf[s]] = "PRESENT"
             \/ Status[TargetOf[s]] = "PENDING" /\ TargetOf[s] \in Promised \union orphaned
      BY <1>2, <3>2 DEF Kept, Promised, TypeOK
    <3> QED
      BY <1>1, <2>2, <2>3, <3>1, <3>3 DEF Promise!Tell
  <2> QED
    BY <1>1, <2>4, <2>5
<1>6. CASE /\ \A r \in Requests, s \in Scans : ~LockItem(r, s) /\ ~RecordItem(r, s)
           /\ \A t \in Tabs, s \in Scans : ~ApplyResult(t, s)
  <2>1. present' = present /\ Told' = Told
    BY <1>6, ToldFrame, PresentFrame
  <2>2. Promised' = Promised
    BY <1>1, <1>2, <1>6, PromisedFrame
  <2> QED
    BY <1>1, <2>1, <2>2 DEF Promise!vars
<1> QED
  BY <1>3, <1>4, <1>5, <1>6 DEF Promise!Next

\* What dies between its lock and its UPDATE breaks a promise.
LEMMA PromiseBreaks ==
    ASSUME TypeOK, [Next]_vars, CrashServer \/ \E r \in Requests, s \in Scans : ThrowItem(r, s)
    PROVE  [Promise!Next]_(Promise!vars)
<1> SUFFICES \/ \E K \in SUBSET Rows : Promise!Break(K)
             \/ UNCHANGED Promise!vars
  BY DEF Promise!Next
<1>1. UNCHANGED <<present, submitted, queue>>
  BY DEF CrashServer, ThrowItem
<1>2. Told' = Told
  BY <1>1 DEF Told
<1>3. CASE CrashServer
  <2>1. Promised' = Promised \ Promised /\ orphaned' = orphaned \union Promised /\ Promised \subseteq Rows
    BY <1>3 DEF CrashServer, Promised, Turn
  <2> QED
    BY <1>1, <1>2, <2>1 DEF Promise!Break
<1>4. ASSUME NEW r \in Requests, NEW s \in Scans, ThrowItem(r, s)
      PROVE  \/ \E K \in SUBSET Rows : Promise!Break(K)
             \/ UNCHANGED Promise!vars
  <2>1. \A q \in Requests, u \in Scans : Turn(q, u, "locked")' => Turn(q, u, "locked")
    BY <1>4 DEF ThrowItem, PushResult, Turn, Least, TypeOK
  <2>2. \A q \in Requests, u \in Scans : Turn(q, u, "locked") => Turn(q, u, "locked")' \/ (q = r /\ u = s)
    <3>1. ASSUME NEW q \in Requests, NEW u \in Scans, Turn(q, u, "locked"), q # r
          PROVE  Turn(q, u, "locked")'
      BY <1>4, <3>1 DEF ThrowItem, PushResult, Turn, Least, TypeOK
    <3>2. ASSUME NEW u \in Scans, Turn(r, u, "locked")
          PROVE  u = s
      BY <1>4, <3>2, OneTurn DEF ThrowItem, Turn
    <3> QED
      BY <3>1, <3>2
  <2>3. CASE at[r] = "locked"
    <3> DEFINE K == {TargetOf[s]} \cap Rows
    <3>1. orphaned' = orphaned \union K
      BY <1>4, <2>3 DEF ThrowItem
    <3>2. K \subseteq Promised
      BY <1>4, <2>3 DEF ThrowItem, Turn, Promised
    <3>3. Promised' \subseteq Promised /\ Promised \ Promised' \subseteq K
      BY <2>1, <2>2 DEF Promised
    <3>4. Promised' = Promised \ (Promised \ Promised') /\ (Promised \ Promised') \in SUBSET K
      BY <3>3
    <3>5. K \in SUBSET Rows
      OBVIOUS
    <3> HIDE DEF K
    <3> QED
      BY <1>1, <1>2, <3>1, <3>2, <3>4, <3>5 DEF Promise!Break
  <2>4. CASE at[r] # "locked"
    <3>1. orphaned' = orphaned
      BY <1>4, <2>4 DEF ThrowItem
    <3>2. \A q \in Requests, u \in Scans : Turn(q, u, "locked")' <=> Turn(q, u, "locked")
      BY <2>1, <2>2, <2>4 DEF Turn
    <3>3. Promised' = Promised
      BY <3>2 DEF Promised
    <3> QED
      BY <1>1, <1>2, <3>1, <3>3 DEF Promise!vars
  <2> QED
    BY <2>3, <2>4
<1> QED
  BY <1>3, <1>4

\* The store, the batches and the locks of any number of tabs implement the
\* promise of check-in, whatever is lost, throws or dies.
THEOREM GateKeepsPromise == Spec => PromiseReachesTheGate
<1>1. Init => Promise!Init
  <2> SUFFICES ASSUME Init PROVE Promise!Init
    OBVIOUS
  <2>1. Promised = {} /\ Told = {}
    BY DEF Init, Promised, Told, Turn
  <2>2. [k \in Rows |-> IF k \in present THEN "PRESENT" ELSE "PENDING"] = [k \in Rows |-> "PENDING"]
    BY DEF Init
  <2>3. orphaned = {}
    BY DEF Init
  <2> QED
    BY <2>1, <2>2, <2>3 DEF Promise!Init
<1>2. TypeOK /\ KeepInv /\ [Next]_vars => [Promise!Next]_(Promise!vars)
  BY PromiseStep, PromiseBreaks
<1> QED
  BY <1>1, <1>2, TypeCorrect, KeepInit, KeepStep, PTL DEF Spec, PromiseReachesTheGate, Promise!Spec
=============================================================================
