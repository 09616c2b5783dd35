-------------------------------- MODULE Outages --------------------------------
(***************************************************************************)
(* What a service promises those it notifies.                              *)
(*                                                                         *)
(* A service is well, falls ill and recovers, as far as it has announced.  *)
(* While it is falling its notifiers are told of the outage, and while it  *)
(* is rising of its end: no notice of one comes during the other, a second *)
(* outage is not announced before the end of the first, and nobody hears   *)
(* twice of the same thing, unless every failure is to be announced, or an *)
(* error has cut the announcement of a recovery short, which then starts   *)
(* again.  Notices may be missing: a notifier may be disabled, over its    *)
(* limit or out of order.                                                  *)
(*                                                                         *)
(* Announcements may go astray (nobody orders those that overlap), and     *)
(* nothing is promised while they do.  When they are over the service is   *)
(* well or ill, with nothing left over that would spoil what follows.      *)
(***************************************************************************)

CONSTANTS
  Services,
  Notifiers,
  Repeats    \* every failure is announced, not only the first

VARIABLES
  phase,     \* what has been, or is being, announced of each service
  ill,       \* who has been told of an outage since the service was well
  better,    \* who has been told of a recovery since it last fell ill
  cut,       \* an error has cut the announcement of that recovery short
  astray     \* the announcements of the service have gone astray

vars == <<phase, ill, better, cut, astray>>

Phases == {"well", "falling", "ill", "rising"}

Init ==
  /\ phase = [s \in Services |-> "well"]
  /\ ill = [s \in Services |-> {}]
  /\ better = [s \in Services |-> {}]
  /\ cut = [s \in Services |-> FALSE]
  /\ astray = [s \in Services |-> FALSE]

Enter(s, p) == phase' = [phase EXCEPT ![s] = p]

Fall(s) ==
  /\ phase[s] = "well" \/ (Repeats /\ phase[s] = "ill")
  /\ Enter(s, "falling")
  /\ UNCHANGED <<ill, better, cut>>

TellIll(s, n) ==
  /\ phase[s] = "falling"
  /\ n \notin ill[s] \/ Repeats
  /\ ill' = [ill EXCEPT ![s] = @ \cup {n}]
  /\ UNCHANGED <<phase, better, cut>>

Fallen(s) ==
  /\ phase[s] = "falling"
  /\ Enter(s, "ill")
  /\ better' = [better EXCEPT ![s] = {}]
  /\ cut' = [cut EXCEPT ![s] = FALSE]
  /\ UNCHANGED ill

Rise(s) ==
  /\ phase[s] = "ill"
  /\ Enter(s, "rising")
  /\ UNCHANGED <<ill, better, cut>>

TellBetter(s, n) ==
  /\ phase[s] = "rising"
  /\ n \notin better[s] \/ cut[s]
  /\ better' = [better EXCEPT ![s] = @ \cup {n}]
  /\ UNCHANGED <<phase, ill, cut>>

(* An error ends the announcement, and the service is still ill. *)
Break(s) ==
  /\ phase[s] = "rising"
  /\ Enter(s, "ill")
  /\ cut' = [cut EXCEPT ![s] = TRUE]
  /\ UNCHANGED <<ill, better>>

Risen(s) ==
  /\ phase[s] = "rising"
  /\ Enter(s, "well")
  /\ ill' = [ill EXCEPT ![s] = {}]
  /\ UNCHANGED <<better, cut>>

(* A step in order. *)
Announce(s) ==
  /\ ~astray[s] /\ astray' = astray
  /\ \/ Fall(s) \/ Fallen(s) \/ Rise(s) \/ Break(s) \/ Risen(s)
     \/ \E n \in Notifiers : TellIll(s, n) \/ TellBetter(s, n)

(* A step out of order: into it, in it, or back to a service of which      *)
(* nothing is being announced.                                             *)
Stray(s) ==
  /\ astray[s] \/ astray'[s]
  /\ \/ astray'[s]
     \/ phase'[s] = "well" /\ ill'[s] = {}
     \/ phase'[s] = "ill" /\ (better'[s] = {} \/ cut'[s])
  /\ \E p \in Phases : Enter(s, p)
  /\ \E who \in SUBSET Notifiers : ill' = [ill EXCEPT ![s] = who]
  /\ \E who \in SUBSET Notifiers : better' = [better EXCEPT ![s] = who]
  /\ \E v \in BOOLEAN : cut' = [cut EXCEPT ![s] = v]
  /\ \E v \in BOOLEAN : astray' = [astray EXCEPT ![s] = v]

(* A process that starts takes every service for well. *)
Restart ==
  /\ phase' = [s \in Services |-> "well"]
  /\ ill' = [s \in Services |-> {}]
  /\ better' = [s \in Services |-> {}]
  /\ cut' = [s \in Services |-> FALSE]
  /\ astray' = [s \in Services |-> FALSE]

Next ==
  \/ \E s \in Services : Announce(s) \/ Stray(s)
  \/ Restart

Spec == Init /\ [][Next]_vars

=============================================================================
