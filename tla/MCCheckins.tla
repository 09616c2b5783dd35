------------------------------- MODULE MCCheckins -------------------------------
(* TLC instances of Checkins. *)
EXTENDS Checkins, TLC

(* Requests, and checkins, are interchangeable. *)
Symmetry == Permutations(Requests) \cup Permutations(CheckinIds)

=============================================================================
