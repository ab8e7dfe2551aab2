--------------------------- MODULE MCOfflineQueue ---------------------------
(* One browser, on two events.  Scan 1 is a forged QR.  Scan 2 is a QR of    *)
(* event e2 whose row is gone.  Scan 3, the last of every batch it is in,    *)
(* comes from the search of event e1, which the server accepts for any event *)
(* of the tenant.                                                            *)
EXTENDS OfflineQueue, TLC
CONSTANTS e1, e2, t1, t2, p1, p2

TwoEvents == (t1 :> e1) @@ (t2 :> e2)
TwoPairs == [s \in Scans |-> IF s = 2 THEN p2 ELSE p1]
Verdicts == [s \in Scans |-> CASE s = 1 -> {} [] s = 2 -> {e2} [] s = 3 -> {e1, e2}]
=============================================================================
