-------------------------------- MODULE Watchdog --------------------------------
(***************************************************************************)
(* What whoever listens for signs of life promises.                        *)
(*                                                                         *)
(* Things give signs of life, which are recorded and may be deleted from   *)
(* the record.  While a thing is watched, it is reported only if it was    *)
(* silent for longer than Patience, or if the watcher could not see the    *)
(* record; and it is reported before the silence it was watched through    *)
(* exceeds twice that: time does not go on otherwise.  A report that is    *)
(* lost leaves Patience for the next.  How and when the watcher looks is   *)
(* left open.                                                              *)
(***************************************************************************)
EXTENDS Naturals

CONSTANTS
  Things,
  Patience   \* minutes between signs of life

VARIABLES
  on,        \* the things that are watched
  age,       \* minutes since the last sign of life on record, up to Limit
  silence,   \* minutes since a thing was heard, or watched first, up to Limit
  reported,  \* things reported silent, and not heard since
  lapsed,    \* things heard, since they were last looked at, too late
  blind      \* things whose record the last look could not see

vars == <<on, age, silence, reported, lapsed, blind>>

(* Longer silences are not told apart. *)
Limit == 2 * Patience + 1

Late(c) == age[c] > Patience

Init ==
  /\ on \in SUBSET Things
  /\ age \in [Things -> 0..Limit]
  /\ silence = [c \in Things |-> 0]
  /\ reported = {}
  /\ lapsed = {} /\ blind = {}

Older(f) == [c \in Things |-> IF f[c] < Limit THEN f[c] + 1 ELSE Limit]

(* A minute passes, unless a report is due. *)
Minute ==
  /\ \A c \in on \ reported : silence[c] < 2 * Patience
  /\ age' = Older(age)
  /\ silence' = Older(silence)
  /\ UNCHANGED <<on, reported, lapsed, blind>>

Hear(c) ==
  /\ age' = [age EXCEPT ![c] = 0]
  /\ silence' = [silence EXCEPT ![c] = 0]
  /\ reported' = reported \ {c}
  /\ lapsed' = IF Late(c) THEN lapsed \cup {c} ELSE lapsed
  /\ UNCHANGED <<on, blind>>

(* The signs of life of some things are deleted from the record. *)
Forget(some) ==
  /\ age' = [c \in Things |-> IF c \in some THEN Limit ELSE age[c]]
  /\ UNCHANGED <<on, silence, reported, lapsed, blind>>

(* A look at the record, which takes a report back, or one in vain. *)
Look(c) ==
  /\ c \in on
  /\ lapsed' = lapsed \ {c}
  /\ \/ /\ blind' = blind \ {c}
        /\ reported' = IF Late(c) THEN reported ELSE reported \ {c}
     \/ blind' = blind \cup {c} /\ UNCHANGED reported
  /\ UNCHANGED <<on, age, silence>>

MayReport(c) == c \in on /\ (Late(c) \/ c \in lapsed \cup blind)

Report(c) ==
  /\ MayReport(c)
  /\ reported' = reported \cup {c}
  /\ UNCHANGED <<on, age, silence, lapsed, blind>>

(* A report is lost. *)
Lose(c) ==
  /\ MayReport(c)
  /\ silence' = [silence EXCEPT ![c] = IF @ > Patience THEN Patience ELSE @]
  /\ UNCHANGED <<on, age, reported, lapsed, blind>>

Leave(c) ==
  /\ on' = on \ {c}
  /\ UNCHANGED <<age, silence, reported, lapsed, blind>>

(* The watcher starts afresh. *)
Restart ==
  /\ on' \in SUBSET Things
  /\ silence' = [c \in Things |-> 0]
  /\ reported' = {}
  /\ UNCHANGED <<age, lapsed, blind>>

Next ==
  \/ Minute \/ Restart
  \/ \E c \in Things : Hear(c) \/ Look(c) \/ Report(c) \/ Lose(c) \/ Leave(c)
  \/ \E some \in SUBSET Things : Forget(some)

Spec == Init /\ [][Next]_vars

=============================================================================
