----------------------------- MODULE MCNotices -----------------------------
(* TLC instance of Notices. *)
EXTENDS Notices, TLC

(* The goroutines are interchangeable. *)
Symmetry == Permutations(Senders)

=============================================================================
