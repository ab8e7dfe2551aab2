----------------------------- MODULE MCCheckIn -----------------------------
(* Small instances of CheckIn for TLC. *)
EXTENDS CheckIn, TLC

\* Requests and participants with the same initial row are interchangeable;
\* used only where no liveness is checked.
RequestSymmetry == Permutations(Requests)
=============================================================================
