----------------------------- MODULE MCCheckQueue -----------------------------
(* TLC instances of CheckQueue; no symmetry, since its runs check liveness. *)
EXTENDS CheckQueue, TLC

=============================================================================
