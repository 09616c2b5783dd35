------------------------------- MODULE MCLists -------------------------------
(* TLC instances of Lists. *)
EXTENDS Lists, TLC

CONSTANTS t1, a, b, x

(* The calls are those of one tab. *)
OneTab == [c \in {a, b} |-> t1]

(* A server that has a row for every id. *)
Full == {[i \in Ids |-> x]}

(* The calls of one tab are interchangeable. *)
Symmetry == Permutations(Calls)

=============================================================================
