------------------------------ MODULE MCEditing ------------------------------
(* TLC instances of Editing. *)
EXTENDS Editing, TLC

CONSTANTS a, b

(* The requests are interchangeable. *)
Symmetry == Permutations(Requests)

=============================================================================
