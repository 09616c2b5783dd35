------------------------------ MODULE MCSession ------------------------------
(* TLC instances of Session. *)
EXTENDS Session, TLC

CONSTANTS g1, g2

(* The guards are interchangeable. *)
Symmetry == Permutations(Guards)

=============================================================================
