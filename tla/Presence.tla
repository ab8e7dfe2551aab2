----------------------------- MODULE Presence ------------------------------
(***************************************************************************)
(* What check-in promises, with no cache, no lock and no requests: a key   *)
(* (a participant on a day) is promised when the server has accepted a     *)
(* scan for it, a promised key becomes PRESENT, and somebody is told       *)
(* success only about a key that is PRESENT or promised.  The one way out  *)
(* is named: a promise is broken when the request that made it dies before *)
(* its UPDATE, and the key stays marked.                                   *)
(***************************************************************************)
CONSTANTS Keys, FirstRows

VARIABLES
    rows,       \* attendance status by key
    promised,   \* keys a live request is about to confirm
    broken,     \* keys for which such a request has died
    told        \* keys some caller was told success about

vars == <<rows, promised, broken, told>>

Init ==
    /\ rows = FirstRows
    /\ promised = {}
    /\ broken = {}
    /\ told = {}

\* A participant is provisioned: some missing rows appear as PENDING.
Enrol(K) ==
    /\ \A k \in K : rows[k] = "NONE" /\ k \notin promised \union told
    /\ rows' = [k \in Keys |-> IF k \in K THEN "PENDING" ELSE rows[k]]
    /\ UNCHANGED <<promised, broken, told>>

Accept(k) ==
    /\ promised' = promised \union {k}
    /\ UNCHANGED <<rows, broken, told>>

\* The row flips; another request may still hold a promise for it.
Fulfil(k) ==
    /\ k \in promised
    /\ rows[k] = "PENDING"
    /\ rows' = [rows EXCEPT ![k] = "PRESENT"]
    /\ promised' \in {promised, promised \ {k}}
    /\ UNCHANGED <<broken, told>>

\* Only a promise with nothing left to do is dropped.
Settle(k) ==
    /\ rows[k] # "PENDING"
    /\ promised' = promised \ {k}
    /\ UNCHANGED <<rows, broken, told>>

\* Requests die: some keys of theirs have another request left that will flip
\* them, the keys of D have none.
Break(K) ==
    /\ K \subseteq promised
    /\ \E D \in SUBSET K : promised' = promised \ D
    /\ broken' = broken \union K
    /\ UNCHANGED <<rows, told>>

Tell(k) ==
    /\ rows[k] = "PRESENT" \/ (rows[k] = "PENDING" /\ k \in promised \union broken)
    /\ told' = told \union {k}
    /\ UNCHANGED <<rows, promised, broken>>

Next ==
    \/ \E K \in SUBSET Keys : Enrol(K) \/ Break(K)
    \/ \E k \in Keys : Accept(k) \/ Fulfil(k) \/ Settle(k) \/ Tell(k)

Spec == Init /\ [][Next]_vars
=============================================================================
