---------------------------- MODULE OfflineQueue ----------------------------
(***************************************************************************)
(* Scanning at the gate of one browser: frontend/src/lib/                  *)
(* use-offline-checkin.ts over offline-queue.ts, and the batch-sync        *)
(* handler it calls, attendance.service.ts batchSync.                      *)
(*                                                                         *)
(* All tabs of the browser share one IndexedDB store; each tab has a flush *)
(* loop of its own and posts the whole store for the event it shows.  The  *)
(* server goes through a batch item by item, and goes on when the browser  *)
(* has stopped waiting.  checkIn is module CheckIn, here with the steps    *)
(* that matter to the queue: lock, record, answer.                         *)
(***************************************************************************)
EXTENDS Integers, FiniteSets

CONSTANTS
    Scans,        \* clientIds, numbered in the key order of the store
    Tabs,         \* check-in pages open in the browser
    EventOf,      \* the event a tab shows
    Targets,      \* pairs of a participant and a day
    Rows,         \* those that have an attendance row
    TargetOf,     \* the pair a scan names
    AcceptedFor,  \* the events for whose batches the server accepts a scan
    Requests,     \* bound: batches the server works on at once
    MaxBatch,     \* the @ArrayMaxSize of BatchSyncDto
    MaxDrops,     \* bound: lost calls, closed tabs and times offline
    MaxFails,     \* bound: check-ins that throw and server crashes
    Nil

ASSUME ScansAreOrdered == Scans \subseteq Nat /\ IsFiniteSet(Scans)
ASSUME ScansNameTargets == TargetOf \in [Scans -> Targets] /\ Rows \subseteq Targets
ASSUME BoundsAreNumbers == MaxBatch \in Nat /\ MaxDrops \in Nat /\ MaxFails \in Nat
ASSUME NilIsFresh == Nil \notin Requests /\ Nil \notin Tabs

VARIABLES
    online,       \* navigator.onLine
    submitted,    \* scans whose enqueueScan has committed
    queue,        \* IndexedDB: the scans in the store
    phase,        \* where each tab's flush is; not "idle" means syncing.current
    todo,         \* the tab's scans to post, then those to remove
    call,         \* the request a tab waits for
    at,           \* where the server is with each request
    owner,        \* the tab that posted it
    left,         \* its items not answered yet
    accepted,     \* its items answered with another status than 'error'
    present,      \* Postgres: rows that are PRESENT
    lock,         \* Redis: pairs whose checkin-lock key exists
    orphaned,     \* history: rows whose check-in died between its lock and its UPDATE
    drops, fails

store == <<submitted, queue>>
browser == <<store, phase, todo, call>>
server == <<at, owner, left, accepted>>
data == <<present, lock>>
faults == <<orphaned, fails>>
vars == <<online, browser, server, data, drops, faults>>

----------------------------------------------------------------------------
Least(s, S) == s \in S /\ \A x \in S : s <= x

\* The server has come to item s of request r.
Turn(r, s, where) == at[r] = where /\ Least(s, left[r])

\* The rows a batch under way is about to record.
Promised == {k \in Rows : \E r \in Requests, s \in Scans : Turn(r, s, "locked") /\ TargetOf[s] = k}

Waiting(t, r) == phase[t] = "wait" /\ call[t] = r

Init ==
    /\ online = TRUE
    /\ submitted = {}
    /\ queue = {}
    /\ phase = [t \in Tabs |-> "idle"]
    /\ todo = [t \in Tabs |-> {}]
    /\ call = [t \in Tabs |-> Nil]
    /\ at = [r \in Requests |-> "free"]
    /\ owner = [r \in Requests |-> Nil]
    /\ left = [r \in Requests |-> {}]
    /\ accepted = [r \in Requests |-> {}]
    /\ present = {}
    /\ lock = {}
    /\ orphaned = {}
    /\ drops = 0
    /\ fails = 0

\* The finally of flush: the tab is idle again, whatever happened.
Finish(t) ==
    /\ phase' = [phase EXCEPT ![t] = "idle"]
    /\ todo' = [todo EXCEPT ![t] = {}]
    /\ call' = [call EXCEPT ![t] = Nil]

\* The server pushes an item's result and goes on with the next.
PushResult(r, s, success) ==
    /\ at' = [at EXCEPT ![r] = "item"]
    /\ left' = [left EXCEPT ![r] = @ \ {s}]
    /\ accepted' = [accepted EXCEPT ![r] = IF success THEN @ \union {s} ELSE @]
    /\ UNCHANGED owner

\* The request is answered, to the tab that still waits for it if there is one.
Return(r) ==
    /\ at' = [at EXCEPT ![r] = "free"]
    /\ owner' = [owner EXCEPT ![r] = Nil]
    /\ left' = [left EXCEPT ![r] = {}]
    /\ accepted' = [accepted EXCEPT ![r] = {}]

(***************************************************************************)
(* Plausible slips; none is part of Next.                                  *)
(***************************************************************************)

\* The client removes what it was answered without looking at the status.
RefuseItemRemoves(r, s) ==
    /\ Turn(r, s, "item")
    /\ EventOf[owner[r]] \notin AcceptedFor[s]
    /\ PushResult(r, s, TRUE)
    /\ UNCHANGED <<online, browser, data, drops, faults>>

\* batchSync has no try: one refused item fails the batch.
RefuseItemAborts(r, s) ==
    /\ Turn(r, s, "item")
    /\ EventOf[owner[r]] \notin AcceptedFor[s]
    /\ Return(r)
    /\ phase' = [t \in Tabs |-> IF Waiting(t, r) THEN "idle" ELSE phase[t]]
    /\ call' = [t \in Tabs |-> IF Waiting(t, r) THEN Nil ELSE call[t]]
    /\ UNCHANGED <<online, store, todo, data, drops, faults>>

\* The UPDATE is not awaited, and rolled back after the answer.
RecordItemRolledBack(r, s) ==
    /\ Turn(r, s, "locked")
    /\ at' = [at EXCEPT ![r] = "recorded"]
    /\ UNCHANGED <<online, browser, owner, left, accepted, data, drops, faults>>

\* The flush that lost its connection still takes the answer for its own.
DropConnectionKeeps(t) ==
    /\ phase[t] = "wait"
    /\ drops < MaxDrops
    /\ drops' = drops + 1
    /\ phase' = [phase EXCEPT ![t] = "idle"]
    /\ UNCHANGED <<online, store, todo, call, server, data, faults>>

(***************************************************************************)
(* The browser                                                             *)
(***************************************************************************)

\* submitScan: the scan is in the store before anything is sent.  clientId is
\* a random UUID, so it may sort anywhere among the others.
SubmitScan(s) ==
    /\ s \notin submitted
    /\ submitted' = submitted \union {s}
    /\ queue' = queue \union {s}
    /\ UNCHANGED <<online, phase, todo, call, server, data, drops, faults>>

\* flush, called by submitScan, the interval and the online event.  With an
\* empty store it returns and changes nothing.
StartFlush(t) ==
    /\ phase[t] = "idle"
    /\ online
    /\ queue # {}
    /\ phase' = [phase EXCEPT ![t] = "send"]
    /\ todo' = [todo EXCEPT ![t] = queue]
    /\ UNCHANGED <<online, store, call, server, data, drops, faults>>

\* The batch reaches the server, which validates its length.
Post(t, r) ==
    /\ phase[t] = "send"
    /\ online
    /\ Cardinality(todo[t]) <= MaxBatch
    /\ at[r] = "free"
    /\ phase' = [phase EXCEPT ![t] = "wait"]
    /\ call' = [call EXCEPT ![t] = r]
    /\ at' = [at EXCEPT ![r] = "item"]
    /\ owner' = [owner EXCEPT ![r] = t]
    /\ left' = [left EXCEPT ![r] = todo[t]]
    /\ UNCHANGED <<online, store, todo, accepted, data, drops, faults>>

\* ValidationPipe answers 400 for the whole batch.
RejectPost(t) ==
    /\ phase[t] = "send"
    /\ online
    /\ Cardinality(todo[t]) > MaxBatch
    /\ Finish(t)
    /\ UNCHANGED <<online, store, server, data, drops, faults>>

\* fetch fails before the server has seen the batch.
LosePost(t) ==
    /\ phase[t] = "send"
    /\ ~online \/ drops < MaxDrops
    /\ drops' = IF online THEN drops + 1 ELSE drops
    /\ Finish(t)
    /\ UNCHANGED <<online, store, server, data, faults>>

\* fetch fails while the server is working; the server does not notice.
DropConnection(t) ==
    /\ phase[t] = "wait"
    /\ drops < MaxDrops
    /\ drops' = drops + 1
    /\ Finish(t)
    /\ UNCHANGED <<online, store, server, data, faults>>

\* One turn of the loop over the results that have no error status.
ApplyResult(t, s) ==
    /\ phase[t] = "apply"
    /\ Least(s, todo[t])
    /\ queue' = queue \ {s}
    /\ todo' = [todo EXCEPT ![t] = @ \ {s}]
    /\ UNCHANGED <<online, submitted, phase, call, server, data, drops, faults>>

EndFlush(t) ==
    /\ phase[t] = "apply"
    /\ todo[t] = {}
    /\ Finish(t)
    /\ UNCHANGED <<online, store, server, data, drops, faults>>

\* The tab is reloaded amid a flush, or an IndexedDB call of it throws.
CloseTab(t) ==
    /\ phase[t] # "idle"
    /\ drops < MaxDrops
    /\ drops' = drops + 1
    /\ Finish(t)
    /\ UNCHANGED <<online, store, server, data, faults>>

GoOffline ==
    /\ online
    /\ drops < MaxDrops
    /\ online' = FALSE
    /\ drops' = drops + 1
    /\ UNCHANGED <<browser, server, data, faults>>

GoOnline ==
    /\ ~online
    /\ online' = TRUE
    /\ UNCHANGED <<browser, server, data, drops, faults>>

(***************************************************************************)
(* batchSync                                                               *)
(***************************************************************************)

\* The QR body is forged or of another event.
RefuseItem(r, s) ==
    /\ Turn(r, s, "item")
    /\ EventOf[owner[r]] \notin AcceptedFor[s]
    /\ PushResult(r, s, FALSE)
    /\ UNCHANGED <<online, browser, data, drops, faults>>

\* The lock is taken: currentStatus answers without an error, whatever the row
\* says.
BusyItem(r, s) ==
    /\ Turn(r, s, "item")
    /\ EventOf[owner[r]] \in AcceptedFor[s]
    /\ TargetOf[s] \in lock \cap Rows
    /\ PushResult(r, s, TRUE)
    /\ UNCHANGED <<online, browser, data, drops, faults>>

LockItem(r, s) ==
    /\ Turn(r, s, "item")
    /\ EventOf[owner[r]] \in AcceptedFor[s]
    /\ TargetOf[s] \notin lock
    /\ lock' = lock \union {TargetOf[s]}
    /\ at' = [at EXCEPT ![r] = "locked"]
    /\ UNCHANGED <<online, browser, owner, left, accepted, present, drops, faults>>

\* The UPDATE: the row is PRESENT after it, by this request or an earlier one.
RecordItem(r, s) ==
    /\ Turn(r, s, "locked")
    /\ TargetOf[s] \in Rows
    /\ present' = present \union {TargetOf[s]}
    /\ at' = [at EXCEPT ![r] = "recorded"]
    /\ UNCHANGED <<online, browser, owner, left, accepted, lock, drops, faults>>

\* There is no such row: currentStatus throws, when the lock is taken or after
\* an UPDATE of nothing.
MissItem(r, s) ==
    /\ \/ /\ Turn(r, s, "item")
          /\ EventOf[owner[r]] \in AcceptedFor[s]
          /\ TargetOf[s] \in lock
       \/ Turn(r, s, "locked")
    /\ TargetOf[s] \notin Rows
    /\ PushResult(r, s, FALSE)
    /\ UNCHANGED <<online, browser, data, drops, faults>>

\* The counters, or currentStatus for a row that was PRESENT already.
AnswerItem(r, s) ==
    /\ Turn(r, s, "recorded")
    /\ PushResult(r, s, TRUE)
    /\ UNCHANGED <<online, browser, data, drops, faults>>

\* checkIn throws at any of its awaits: batchSync catches it for this item.
ThrowItem(r, s) ==
    /\ \E where \in {"item", "locked", "recorded"} : Turn(r, s, where)
    /\ fails < MaxFails
    /\ fails' = fails + 1
    /\ orphaned' = IF at[r] = "locked" THEN orphaned \union ({TargetOf[s]} \cap Rows) ELSE orphaned
    /\ PushResult(r, s, FALSE)
    /\ UNCHANGED <<online, browser, data, drops>>

Respond(r) ==
    /\ at[r] = "item" /\ left[r] = {}
    /\ online \/ \A t \in Tabs : ~Waiting(t, r)
    /\ Return(r)
    /\ phase' = [t \in Tabs |-> IF Waiting(t, r) THEN "apply" ELSE phase[t]]
    /\ todo' = [t \in Tabs |-> IF Waiting(t, r) THEN accepted[r] ELSE todo[t]]
    /\ call' = [t \in Tabs |-> IF Waiting(t, r) THEN Nil ELSE call[t]]
    /\ UNCHANGED <<online, store, data, drops, faults>>

\* EX 5, whether or not the holder is done.  Nothing else frees the lock.
LockExpires(k) ==
    /\ k \in lock
    /\ lock' = lock \ {k}
    /\ UNCHANGED <<online, browser, server, present, drops, faults>>

\* The backend process dies with every batch; waiting tabs get an error.
CrashServer ==
    /\ fails < MaxFails
    /\ fails' = fails + 1
    /\ orphaned' = orphaned \union Promised
    /\ at' = [r \in Requests |-> "free"]
    /\ owner' = [r \in Requests |-> Nil]
    /\ left' = [r \in Requests |-> {}]
    /\ accepted' = [r \in Requests |-> {}]
    /\ phase' = [t \in Tabs |-> IF phase[t] = "wait" THEN "idle" ELSE phase[t]]
    /\ todo' = [t \in Tabs |-> IF phase[t] = "wait" THEN {} ELSE todo[t]]
    /\ call' = [t \in Tabs |-> Nil]
    /\ UNCHANGED <<online, store, data, drops>>

----------------------------------------------------------------------------
Flush(t) ==
    \/ StartFlush(t)
    \/ \E r \in Requests : Post(t, r)
    \/ RejectPost(t)
    \/ LosePost(t)
    \/ \E s \in Scans : ApplyResult(t, s)
    \/ EndFlush(t)

BatchSync(r) ==
    \/ \E s \in Scans :
          RefuseItem(r, s) \/ BusyItem(r, s) \/ LockItem(r, s)
          \/ RecordItem(r, s) \/ MissItem(r, s) \/ AnswerItem(r, s)
    \/ Respond(r)

Environment ==
    \/ \E s \in Scans : SubmitScan(s)
    \/ \E t \in Tabs : DropConnection(t) \/ CloseTab(t)
    \/ GoOffline \/ GoOnline
    \/ \E k \in Targets : LockExpires(k)
    \/ \E r \in Requests, s \in Scans : ThrowItem(r, s)
    \/ CrashServer

Next ==
    \/ \E t \in Tabs : Flush(t)
    \/ \E r \in Requests : BatchSync(r)
    \/ Environment

Spec == Init /\ [][Next]_vars

\* The interval of each open tab keeps flushing, the network comes back, and
\* the server goes on with the batches it has.
FairSpec ==
    /\ Spec
    /\ \A t \in Tabs : WF_vars(Flush(t))
    /\ \A r \in Requests : WF_vars(BatchSync(r))
    /\ WF_vars(GoOnline)

----------------------------------------------------------------------------
(***************************************************************************)
(* Properties                                                              *)
(***************************************************************************)

\* Every variable has the shape the code gives it; a tab waits for a request
\* exactly while it is in "wait", and two tabs never wait for the same one.
TypeOK ==
    /\ online \in BOOLEAN
    /\ submitted \subseteq Scans /\ queue \subseteq submitted
    /\ phase \in [Tabs -> {"idle", "send", "wait", "apply"}]
    /\ todo \in [Tabs -> SUBSET Scans]
    /\ call \in [Tabs -> Requests \union {Nil}]
    /\ at \in [Requests -> {"free", "item", "locked", "recorded"}]
    /\ owner \in [Requests -> Tabs \union {Nil}]
    /\ left \in [Requests -> SUBSET Scans]
    /\ accepted \in [Requests -> SUBSET Scans]
    /\ present \subseteq Rows
    /\ lock \subseteq Targets
    /\ orphaned \subseteq Rows
    /\ drops \in 0 .. MaxDrops
    /\ fails \in 0 .. MaxFails
    /\ \A t \in Tabs : phase[t] = "wait" <=> call[t] # Nil
    /\ \A t \in Tabs : call[t] # Nil => at[call[t]] # "free" /\ owner[call[t]] = t
    /\ \A r \in Requests : at[r] # "free" => owner[r] \in Tabs
    /\ \A r \in Requests : at[r] = "free" => left[r] = {} /\ accepted[r] = {}

\* The row is PRESENT, a batch under way holds its lock and is about to make it
\* so, or such a batch has died.
Kept(k) == k \in present \union Promised \union orphaned

\* However flushes of several tabs, lost answers, replays, refused items and
\* expiring locks interleave, a scan leaves the store only once its row is
\* recorded, or when a check-in of it died between its lock and its UPDATE.
KeptUntilRecorded == \A s \in submitted \ queue : Kept(TargetOf[s])

\* The rows of the scans some tab has taken out of the store, as synced.
Told == {TargetOf[s] : s \in submitted \ queue}

Promise == INSTANCE Presence
    WITH Keys <- Rows, FirstRows <- [k \in Rows |-> "PENDING"],
         rows <- [k \in Rows |-> IF k \in present THEN "PRESENT" ELSE "PENDING"],
         promised <- Promised, broken <- orphaned, told <- Told

\* Through the store, the batches and the locks the browser keeps the promise
\* CheckIn keeps at the server: each step is one of Presence or none, so no
\* promise of a row is dropped before the row is PRESENT, it breaks only with a
\* check-in that dies between its lock and its UPDATE, and no scan is taken out
\* of the store without a row recorded, promised or so broken.
PromiseReachesTheGate == Promise!Spec

\* Of a row, and accepted for the event of some open tab.
Welcome(s) == TargetOf[s] \in Rows /\ \E t \in Tabs : EventOf[t] \in AcceptedFor[s]

\* A scan of a row the server accepts for the event of some open tab leaves the
\* store in the end, whatever refused scans sit in the store beside it, although
\* calls get lost and check-ins and servers fail; unless the store outgrows a
\* batch.
QueueSettles ==
    \A s \in Scans : Welcome(s) =>
        ((s \in queue) ~> (s \notin queue \/ Cardinality(queue) > MaxBatch))
=============================================================================
