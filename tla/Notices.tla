------------------------------- MODULE Notices -------------------------------
(***************************************************************************)
(* The notifiers, which all services share: CanSend, LastSentCount and the *)
(* row of each, which its `enabled` is copied from.                        *)
(*                                                                         *)
(* A goroutine that announces an outage or a recovery (ServiceAlerts) asks *)
(* CanSend, sends over the network, logs (logMessage: FindNotifier reads   *)
(* the row, and later copies it over the notifier in use) and only then    *)
(* counts.  There is no lock: others ask, send, read and copy in between.  *)
(***************************************************************************)
EXTENDS Naturals, FiniteSets

CONSTANTS
  Notifiers,     \* keys of allNotifiers
  Senders,       \* the goroutines that announce, of all services
  None,          \* no notifier
  Faulty,        \* notifiers whose OnSuccess and OnFailure may return an error
  Limits         \* the notifiers' limits

ASSUME SendersAssumption == IsFiniteSet(Senders)
ASSUME NoneAssumption == None \notin Notifiers
ASSUME FaultyAssumption == Faulty \subseteq Notifiers
ASSUME LimitsAssumption == Limits \in Nat

VARIABLES
  enabled, saved, \* Notification.Enabled in memory, and in its row
  sentCount,      \* Notification.LastSentCount
  quiet,          \* Notification.LastSent is over 60 minutes ago
  at,             \* the notifier each goroutine is busy with
  call,           \* its call of OnSuccess or OnFailure
  row             \* the row its FindNotifier has read and not copied yet
VARIABLES         \* history
  burst,          \* counted notices since 60 minutes went by without one, or
                  \* the process started
  late            \* notices since the row was last changed, or something
                  \* else than the row copied over the notifier

notifierVars == <<enabled, saved, sentCount, quiet>>
senderVars   == <<at, call, row>>
vars == <<notifierVars, senderVars, burst, late>>

Switch == {"on", "off"}

(* A call is "out" until it returns; after an error of OnFailure the       *)
(* goroutine logs "again", after one of OnSuccess the notice is "lost": it *)
(* is logged, and not counted.                                             *)
Calls == {"out", "ok", "again", "lost"}

(* Counters are kept up to the value past which nothing depends on them.   *)
UpTo(bound, x) == IF x < bound THEN x ELSE bound
MostLate  == Cardinality(Senders) + 1
MostBurst == Limits + Cardinality(Senders)

-----------------------------------------------------------------------------

Idle == [x \in Senders |-> None]
Zero == [n \in Notifiers |-> 0]

(* InitNotifiers: UpdateNotifiers copies the rows, unless All's error,     *)
(* which it does not look at, leaves the notifiers as they are declared.   *)
Loaded(rows) == {rows, [n \in Notifiers |-> "off"]}

Init ==
  /\ saved \in [Notifiers -> Switch] /\ enabled \in Loaded(saved)
  /\ sentCount = Zero /\ quiet = [n \in Notifiers |-> TRUE]
  /\ at = Idle
  /\ call = [x \in Senders |-> "out"] /\ row = [x \in Senders |-> "none"]
  /\ burst = Zero /\ late = Zero

-----------------------------------------------------------------------------
(* A goroutine's loop over allNotifiers, which Go visits in any order.     *)

(* Mutants: a missing test for zero, and a missing test of LastSent. *)
DecayedBelowZero(n) == IF quiet[n] THEN sentCount[n] - 1 ELSE sentCount[n]
DecayedAlways(n) == IF sentCount[n] > 0 THEN sentCount[n] - 1 ELSE sentCount[n]

(* What CanSend leaves in LastSentCount. *)
Decayed(n) == IF quiet[n] /\ sentCount[n] > 0 THEN sentCount[n] - 1 ELSE sentCount[n]

CanSend(x, n) ==
  /\ at[x] = None
  /\ enabled[n] = "on"
  /\ sentCount' = [sentCount EXCEPT ![n] = Decayed(n)]
  /\ at' = [at EXCEPT ![x] = IF Decayed(n) < Limits THEN n ELSE @]
  /\ UNCHANGED <<enabled, saved, quiet, call, row, burst, late>>

(* OnSuccess or OnFailure returns: with the notice sent or, if it is       *)
(* faulty, with or without an error, whether the notice went out or not.   *)
Send(x, n) ==
  /\ at[x] = n /\ call[x] = "out"
  /\ \E result \in Calls \ {"out"}, arrived \in BOOLEAN :
       /\ n \in Faulty \/ (result = "ok" /\ arrived)
       /\ call' = [call EXCEPT ![x] = result]
       /\ late' = IF arrived THEN [late EXCEPT ![n] = UpTo(MostLate, @ + 1)] ELSE late
       /\ burst' = IF arrived /\ result # "lost"
                   THEN [burst EXCEPT ![n] = UpTo(MostBurst, @ + 1)] ELSE burst
  /\ UNCHANGED <<notifierVars, at, row>>

(* FindNotifier's Find.  If it fails, logMessage dereferences nil and the  *)
(* process dies: see Restart.                                              *)
FindNotifier(x, n) ==
  /\ at[x] = n /\ call[x] # "out" /\ row[x] = "none"
  /\ row' = [row EXCEPT ![x] = saved[n]]
  /\ UNCHANGED <<notifierVars, at, call, burst, late>>

(* Mutant: the fields go to a copy of the notifier. *)
FieldsOfCopy(n, v) == UNCHANGED <<enabled, late>>

(* UpdateFields, of the notifier in use. *)
UpdateFields(n, v) ==
  /\ enabled' = [enabled EXCEPT ![n] = v]
  /\ late' = IF v = saved[n] THEN late ELSE [late EXCEPT ![n] = 0]

(* The end of logMessage, and LastSentCount++ and LastSent = now where the *)
(* notice counts.                                                          *)
LogMessage(x, n) ==
  /\ at[x] = n /\ row[x] # "none"
  /\ UpdateFields(n, row[x])
  /\ row' = [row EXCEPT ![x] = "none"]
  /\ \/ /\ call[x] = "again"
        /\ call' = [call EXCEPT ![x] = "ok"]
        /\ UNCHANGED <<at, sentCount, quiet>>
     \/ /\ call[x] = "ok"
        /\ sentCount' = [sentCount EXCEPT ![n] = @ + 1]
        /\ quiet' = [quiet EXCEPT ![n] = FALSE]
        /\ at' = [at EXCEPT ![x] = None]
        /\ call' = [call EXCEPT ![x] = "out"]
     \/ /\ call[x] = "lost"
        /\ at' = [at EXCEPT ![x] = None]
        /\ call' = [call EXCEPT ![x] = "out"]
        /\ UNCHANGED <<sentCount, quiet>>
  /\ UNCHANGED <<saved, burst>>

-----------------------------------------------------------------------------
(* Requests, time and crashes. *)

(* apiNotifierUpdateHandler writes the row and leaves the notifier alone.  *)
EditNotifier(n) ==
  /\ saved' = [saved EXCEPT ![n] = IF @ = "on" THEN "off" ELSE "on"]
  /\ late' = [late EXCEPT ![n] = 0]
  /\ UNCHANGED <<enabled, sentCount, quiet, senderVars, burst>>

(* A request copies fields over the notifier: a row that apiNotifiersHandler, *)
(* apiNotifierGetHandler or testNotificationHandler read at any time       *)
(* before, or those of an imported file.                                   *)
RequestCopies(n) ==
  /\ \E v \in Switch : UpdateFields(n, v)
  /\ UNCHANGED <<saved, sentCount, quiet, senderVars, burst>>

(* Sixty minutes since LastSent. *)
HourPasses(n) ==
  /\ ~quiet[n]
  /\ quiet' = [quiet EXCEPT ![n] = TRUE]
  /\ burst' = [burst EXCEPT ![n] = 0]
  /\ UNCHANGED <<enabled, saved, sentCount, senderVars, late>>

(* The process ends (a crash, or logMessage's nil) and is started again. *)
Restart ==
  /\ enabled' \in Loaded(saved)
  /\ sentCount' = Zero /\ quiet' = [n \in Notifiers |-> TRUE]
  /\ at' = Idle
  /\ call' = [x \in Senders |-> "out"] /\ row' = [x \in Senders |-> "none"]
  /\ burst' = Zero
  /\ UNCHANGED <<saved, late>>

Next ==
  \/ \E x \in Senders, n \in Notifiers :
       CanSend(x, n) \/ Send(x, n) \/ FindNotifier(x, n) \/ LogMessage(x, n)
  \/ \E n \in Notifiers : EditNotifier(n) \/ RequestCopies(n) \/ HourPasses(n)
  \/ Restart

Spec == Init /\ [][Next]_vars

-----------------------------------------------------------------------------
(* Properties.                                                             *)

(* Every variable has its type (LastSentCount does not fall below zero),   *)
(* and a goroutine that is busy with no notifier has neither a call out    *)
(* nor a row to copy.                                                      *)
NotifierTypes ==
  /\ enabled \in [Notifiers -> Switch] /\ saved \in [Notifiers -> Switch]
  /\ sentCount \in [Notifiers -> Nat] /\ quiet \in [Notifiers -> BOOLEAN]
SenderTypes ==
  /\ at \in [Senders -> Notifiers \cup {None}]
  /\ call \in [Senders -> Calls] /\ row \in [Senders -> Switch \cup {"none"}]
  /\ \A x \in Senders : /\ at[x] = None => call[x] = "out"
                        /\ call[x] = "out" => row[x] = "none"
HistoryTypes ==
  /\ burst \in [Notifiers -> 0..MostBurst] /\ late \in [Notifiers -> 0..MostLate]
TypeOK == NotifierTypes /\ SenderTypes /\ HistoryTypes

(* Disabling a notifier only changes its row, but whatever is sent reads   *)
(* the row back: at most one more notice per goroutine gets through.  So   *)
(* it is again after every copy of a row read before the change (or of an  *)
(* imported file), which turns the notifier on once more.                  *)
DisabledSoonSilent ==
  \A n \in Notifiers : saved[n] = "off" => late[n] <= Cardinality(Senders)

(* "Notifier will send a maximum of N notifications per hour": what a      *)
(* notifier sends between two hours of silence, and so in any hour of a    *)
(* process's life, exceeds the limit only by what other goroutines have    *)
(* been let send at the same time: by less than there are goroutines, and  *)
(* not at all when there is one.  Every one of them may be between CanSend *)
(* and the increment, but errors of OnFailure, decrements, edits and stale *)
(* copies add nothing.  It does not speak of a notice that went out though *)
(* OnSuccess returned an error, which is not counted.                      *)
HourlyLimit ==
  \A n \in Notifiers : burst[n] > Limits => burst[n] < Limits + Cardinality(Senders)

=============================================================================
