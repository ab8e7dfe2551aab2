------------------------------- MODULE Values -------------------------------
(***************************************************************************)
(* What the page modules and Accounts share.                               *)
(***************************************************************************)
CONSTANT Nil    \* null, undefined, or no answer
=============================================================================
