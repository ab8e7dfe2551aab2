----------------------------- MODULE MCCheckout -----------------------------
(* Small instances of Checkout: buyers after the last ticket of a type. *)
EXTENDS Checkout, TLC
CONSTANTS o1, o2, t1, w1, w2, w3
SameTicket == [o \in Orders |-> t1]
OneLeft == t1 :> 1
=============================================================================
