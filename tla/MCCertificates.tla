--------------------------- MODULE MCCertificates ---------------------------
(* Small instances of Certificates: one attendee provisioned from the start *)
(* and one who may come later, or be marked as not coming.                  *)
EXTENDS Certificates, TLC
CONSTANTS p1, p2, w1, w2, c1

\* Workers are interchangeable; used only where no liveness is checked.
WorkerSymmetry == Permutations(Workers)
=============================================================================
