--------------------------- MODULE MCLiveSummary ---------------------------
(* An event of two days. *)
EXTENDS LiveSummary
CONSTANTS d1, d2
=============================================================================
