---------------------------- MODULE ServiceAlerts ----------------------------
(***************************************************************************)
(* What a check result does to a service, and what its notifiers hear:     *)
(* RecordSuccess, RecordFailure, sendSuccess and sendFailure.              *)
(*                                                                         *)
(* The goroutines that record results of a service (its monitoring loop,   *)
(* the check each PUT starts, a PATCH, a second loop) share its fields     *)
(* with no lock, and a PUT's body may overwrite them at any time.  Whether *)
(* CanSend lets a notifier send is the business of Notices: here it may or *)
(* may not.                                                                *)
(***************************************************************************)
EXTENDS Naturals, FiniteSets

CONSTANTS
  Services,
  Notifiers,     \* keys of allNotifiers
  Actors,        \* names of the goroutines that record results of one service
  None,          \* no notifier
  Faulty,        \* notifiers whose OnSuccess and OnFailure may return an error
  UpdateNotify,  \* the services' notify_all_changes
  NotifyAfter    \* the services' notify_after

ASSUME ActorsAssumption == IsFiniteSet(Actors)
ASSUME NoneAssumption == None \notin Notifiers
ASSUME FaultyAssumption == Faulty \subseteq Notifiers
ASSUME SettingsAssumption == UpdateNotify \in BOOLEAN /\ NotifyAfter \in Nat

VARIABLES
  online, prevOnline, \* Service.Online, Service.prevOnline
  afterCount,         \* Service.notifyAfterCount, up to NotifyAfter, above
                      \* which its value makes no difference
  allow,              \* Service.AllowNotifications
  pc,                 \* where each goroutine is
  todo,               \* the notifiers its loop over allNotifiers has left
  sending,            \* the notifier it is sending to
  told                \* has that notice gone out?
VARIABLES             \* history
  alerts,     \* who has been told of an outage since prevOnline became true
  recoveries, \* who has been told of a recovery since it became false
  cut,        \* a recovery pass since then was ended by an error
  crossed,    \* a pass under way, or one it overlaps, was begun beside another
              \* or on an `online` changed since its check recorded the result
  spurious,   \* in this process a recovery pass was begun with prevOnline true
  failures    \* failures recorded since the process started

serviceVars  == <<online, prevOnline, afterCount, allow>>
actorVars    == <<pc, todo, sending, told>>
historyVars  == <<alerts, recoveries, cut, crossed, spurious, failures>>
vars == <<serviceVars, actorVars, historyVars>>

PCs == {"idle", "success", "up", "http", "failure", "down"}
Passes == {"up", "down"}

(* Counters are kept up to the value past which nothing depends on them.   *)
UpTo(bound, x) == IF x < bound THEN x ELSE bound

-----------------------------------------------------------------------------

(* A process that starts: AfterCreate and SelectAllServices set prevOnline,*)
(* the rest are zero values.                                               *)
No  == [s \in Services |-> FALSE]
Yes == [s \in Services |-> TRUE]
Zero == [s \in Services |-> 0]
Nobody == [s \in Services |-> {}]
Each(v) == [s \in Services |-> [a \in Actors |-> v]]

Init ==
  /\ online = No /\ prevOnline = Yes /\ afterCount = Zero
  /\ allow \in [Services -> BOOLEAN]
  /\ pc = Each("idle") /\ todo = Each({}) /\ sending = Each(None) /\ told = Each(FALSE)
  /\ alerts = Nobody /\ recoveries = Nobody
  /\ cut = No /\ crossed = No /\ spurious = No /\ failures = Zero

-----------------------------------------------------------------------------
(* The results of checks. *)

(* s.Online = true; the hit's row and the metrics are left out. *)
RecordSuccess(s, a) ==
  /\ pc[s][a] = "idle"
  /\ online' = [online EXCEPT ![s] = TRUE]
  /\ pc' = [pc EXCEPT ![s][a] = "success"]
  /\ UNCHANGED <<prevOnline, afterCount, allow, todo, sending, told, historyVars>>

(* The failure's row, then s.Online = false. *)
RecordFailure(s, a) ==
  /\ pc[s][a] = "idle"
  /\ online' = [online EXCEPT ![s] = FALSE]
  /\ failures' = [failures EXCEPT ![s] = UpTo(NotifyAfter + 1, @ + 1)]
  /\ pc' = [pc EXCEPT ![s][a] = "failure"]
  /\ UNCHANGED <<prevOnline, afterCount, allow, todo, sending, told,
                 alerts, recoveries, cut, crossed, spurious>>

(* What CheckHttp does after RecordSuccess. *)
SetOnline(s, a) ==
  /\ pc[s][a] = "http"
  /\ online' = [online EXCEPT ![s] = TRUE]
  /\ pc' = [pc EXCEPT ![s][a] = "idle"]
  /\ UNCHANGED <<prevOnline, afterCount, allow, todo, sending, told, historyVars>>

(* sendSuccess returns to CheckHttp, or to a check of another type or a    *)
(* PATCH, which are done.                                                  *)
Back(s, a) == \E label \in {"http", "idle"} : pc' = [pc EXCEPT ![s][a] = label]

-----------------------------------------------------------------------------
(* The heads of sendSuccess and sendFailure. *)

(* No other goroutine is in a pass over the notifiers of s. *)
Alone(s, a) == \A b \in Actors \ {a} : pc[s][b] \notin Passes

(* A pass begins that announces that s is, or is not, online. *)
BeginPass(s, a, label) ==
  /\ pc' = [pc EXCEPT ![s][a] = label]
  /\ todo' = [todo EXCEPT ![s][a] = Notifiers]
  /\ crossed' = IF Alone(s, a) /\ (online[s] <=> label = "up") THEN crossed
                ELSE [crossed EXCEPT ![s] = TRUE]

SuccessGate(s, a) ==
  /\ pc[s][a] = "success"
  /\ \/ /\ allow[s] /\ prevOnline[s] # online[s]
        /\ BeginPass(s, a, "up")
        /\ spurious' = IF prevOnline[s] THEN [spurious EXCEPT ![s] = TRUE] ELSE spurious
     \/ /\ ~allow[s] \/ prevOnline[s] = online[s]
        /\ Back(s, a)
        /\ UNCHANGED <<todo, crossed, spurious>>
  /\ UNCHANGED <<serviceVars, sending, told, alerts, recoveries, cut, failures>>

CountNotify(s) == afterCount' = [afterCount EXCEPT ![s] = UpTo(NotifyAfter, @ + 1)]

(* Mutant: the outage being known already makes no difference. *)
UnheardIfOff(s) == ~allow[s]

(* sendFailure says nothing: notifications are off, or the outage is known *)
(* and only changes are notified.                                          *)
Unheard(s) == ~allow[s] \/ (prevOnline[s] = online[s] /\ ~UpdateNotify)

(* Mutant: the delay ends one failure early. *)
FailureGateEarly(s, a) ==
  /\ pc[s][a] = "failure"
  /\ \/ /\ Unheard(s) \/ afterCount[s] + 1 < NotifyAfter
        /\ pc' = [pc EXCEPT ![s][a] = "idle"]
        /\ UNCHANGED <<todo, crossed>>
     \/ /\ ~Unheard(s) /\ afterCount[s] + 1 >= NotifyAfter
        /\ BeginPass(s, a, "down")
  /\ CountNotify(s)
  /\ UNCHANGED <<online, prevOnline, allow, sending, told,
                 alerts, recoveries, cut, spurious, failures>>

(* The first NotifyAfter failures are only counted. *)
FailureGate(s, a) ==
  /\ pc[s][a] = "failure"
  /\ \/ /\ Unheard(s)
        /\ pc' = [pc EXCEPT ![s][a] = "idle"]
        /\ UNCHANGED <<todo, crossed, afterCount>>
     \/ /\ ~Unheard(s) /\ afterCount[s] < NotifyAfter
        /\ CountNotify(s)
        /\ pc' = [pc EXCEPT ![s][a] = "idle"]
        /\ UNCHANGED <<todo, crossed>>
     \/ /\ ~Unheard(s) /\ afterCount[s] >= NotifyAfter
        /\ BeginPass(s, a, "down")
        /\ UNCHANGED afterCount
  /\ UNCHANGED <<online, prevOnline, allow, sending, told,
                 alerts, recoveries, cut, spurious, failures>>

-----------------------------------------------------------------------------
(* The loops over allNotifiers, which Go visits in any order.              *)

(* Mutant: the loop comes to a notifier again. *)
CanSendAgain(s, a, n) ==
  /\ pc[s][a] \in Passes
  /\ sending[s][a] = None
  /\ n \in todo[s][a]
  /\ \E m \in {n, None} : sending' = [sending EXCEPT ![s][a] = m]
  /\ UNCHANGED <<serviceVars, pc, todo, told, historyVars>>

(* The next notifier, which CanSend lets send or not. *)
CanSend(s, a, n) ==
  /\ pc[s][a] \in Passes
  /\ sending[s][a] = None
  /\ n \in todo[s][a]
  /\ todo' = [todo EXCEPT ![s][a] = @ \ {n}]
  /\ \E m \in {n, None} : sending' = [sending EXCEPT ![s][a] = m]
  /\ UNCHANGED <<serviceVars, pc, told, historyVars>>

(* The notice of n.OnSuccess, or of n.OnFailure, goes out. *)
Tell(s, a, n) ==
  /\ sending[s][a] = n /\ ~told[s][a]
  /\ told' = [told EXCEPT ![s][a] = TRUE]
  /\ \/ /\ pc[s][a] = "up"
        /\ recoveries' = [recoveries EXCEPT ![s] = @ \cup {n}]
        /\ UNCHANGED alerts
     \/ /\ pc[s][a] = "down"
        /\ alerts' = [alerts EXCEPT ![s] = @ \cup {n}]
        /\ UNCHANGED recoveries
  /\ UNCHANGED <<serviceVars, pc, todo, sending, cut, crossed, spurious, failures>>

Hangup(s, a) ==
  /\ sending' = [sending EXCEPT ![s][a] = None]
  /\ told' = [told EXCEPT ![s][a] = FALSE]

(* The call returns, and the loop goes on: without an error, or with one   *)
(* from OnFailure.  The notice of a faulty notifier may not have gone out. *)
Sent(s, a, n) ==
  /\ sending[s][a] = n
  /\ told[s][a] \/ n \in Faulty
  /\ Hangup(s, a)
  /\ UNCHANGED <<serviceVars, pc, todo, historyVars>>

(* A pass ends, and with it what was crossed, if no other is under way. *)
EndPass(s, a) ==
  /\ todo' = [todo EXCEPT ![s][a] = {}]
  /\ crossed' = IF Alone(s, a) THEN [crossed EXCEPT ![s] = FALSE] ELSE crossed

(* OnSuccess returns an error, whether or not the notice went out:         *)
(* sendSuccess logs it and returns.                                        *)
Fails(s, a, n) ==
  /\ pc[s][a] = "up" /\ sending[s][a] = n
  /\ n \in Faulty
  /\ Hangup(s, a)
  /\ EndPass(s, a)
  /\ Back(s, a)
  /\ cut' = [cut EXCEPT ![s] = TRUE]
  /\ UNCHANGED <<serviceVars, alerts, recoveries, spurious, failures>>

PassDone(s, a) == sending[s][a] = None /\ todo[s][a] = {}

(* Mutant: sendSuccess leaves prevOnline alone. *)
EndUpForgets(s, a) ==
  /\ pc[s][a] = "up" /\ PassDone(s, a)
  /\ EndPass(s, a)
  /\ Back(s, a)
  /\ UNCHANGED <<serviceVars, sending, told, alerts, recoveries, cut, spurious, failures>>

(* The end of sendSuccess. *)
EndUp(s, a) ==
  /\ pc[s][a] = "up" /\ PassDone(s, a)
  /\ prevOnline' = [prevOnline EXCEPT ![s] = TRUE]
  /\ CountNotify(s)
  /\ EndPass(s, a)
  /\ Back(s, a)
  /\ alerts' = [alerts EXCEPT ![s] = {}]
  /\ UNCHANGED <<online, allow, sending, told, recoveries, cut, spurious, failures>>

(* The end of sendFailure. *)
EndDown(s, a) ==
  /\ pc[s][a] = "down" /\ PassDone(s, a)
  /\ prevOnline' = [prevOnline EXCEPT ![s] = FALSE]
  /\ CountNotify(s)
  /\ EndPass(s, a)
  /\ pc' = [pc EXCEPT ![s][a] = "idle"]
  /\ recoveries' = [recoveries EXCEPT ![s] = {}]
  /\ cut' = [cut EXCEPT ![s] = FALSE]
  /\ UNCHANGED <<online, allow, sending, told, alerts, spurious, failures>>

(* What a goroutine does once it has a result. *)
Announce(s, a) ==
  \/ SuccessGate(s, a) \/ FailureGate(s, a) \/ SetOnline(s, a)
  \/ EndUp(s, a) \/ EndDown(s, a)
  \/ \E n \in Notifiers :
       CanSend(s, a, n) \/ Tell(s, a, n) \/ Sent(s, a, n) \/ Fails(s, a, n)

-----------------------------------------------------------------------------
(* Requests and crashes. *)

(* apiServiceUpdateHandler decodes the body, which has all fields of a     *)
(* service the dashboard read before, into the service in use.             *)
EditService(s) ==
  /\ \E v \in BOOLEAN : online' = [online EXCEPT ![s] = v]
  /\ \E v \in BOOLEAN : allow' = [allow EXCEPT ![s] = v]
  /\ UNCHANGED <<prevOnline, afterCount, actorVars, historyVars>>

(* The process ends (a crash, or logMessage's nil) and is started again. *)
Restart ==
  /\ online' = No /\ prevOnline' = Yes /\ afterCount' = Zero
  /\ pc' = Each("idle") /\ todo' = Each({}) /\ sending' = Each(None)
  /\ told' = Each(FALSE)
  /\ alerts' = Nobody /\ recoveries' = Nobody
  /\ cut' = No /\ crossed' = No /\ spurious' = No /\ failures' = Zero
  /\ UNCHANGED allow

Next ==
  \/ \E s \in Services, a \in Actors :
       RecordSuccess(s, a) \/ RecordFailure(s, a) \/ Announce(s, a)
  \/ \E s \in Services : EditService(s)
  \/ Restart

Spec == Init /\ [][Next]_vars

(* Goroutines run, sends return (they have timeouts), and a service goes   *)
(* on being checked (CheckQueue's KeepsChecking): if its checks do not     *)
(* fail any more, they succeed again and again.                            *)
Fairness ==
  \A s \in Services, a \in Actors :
    WF_vars(Announce(s, a)) /\ WF_vars(RecordSuccess(s, a))

FairSpec == Spec /\ Fairness

-----------------------------------------------------------------------------
(* Properties.                                                             *)

(* Every variable has its type, and a goroutine is sending only inside a   *)
(* pass over the notifiers, to one the pass has taken from its list.       *)
ServiceTypes ==
  /\ online \in [Services -> BOOLEAN] /\ prevOnline \in [Services -> BOOLEAN]
  /\ afterCount \in [Services -> 0..NotifyAfter]
  /\ allow \in [Services -> BOOLEAN]
ActorTypes ==
  /\ pc \in [Services -> [Actors -> PCs]]
  /\ todo \in [Services -> [Actors -> SUBSET Notifiers]]
  /\ sending \in [Services -> [Actors -> Notifiers \cup {None}]]
  /\ told \in [Services -> [Actors -> BOOLEAN]]
  /\ \A s \in Services, a \in Actors :
       /\ pc[s][a] \notin Passes => sending[s][a] = None /\ todo[s][a] = {}
       /\ sending[s][a] \notin todo[s][a]
       /\ told[s][a] => sending[s][a] # None
HistoryTypes ==
  /\ alerts \in [Services -> SUBSET Notifiers]
  /\ recoveries \in [Services -> SUBSET Notifiers]
  /\ cut \in [Services -> BOOLEAN]
  /\ crossed \in [Services -> BOOLEAN] /\ spurious \in [Services -> BOOLEAN]
  /\ failures \in [Services -> 0..(NotifyAfter + 1)]
TypeOK == ServiceTypes /\ ActorTypes /\ HistoryTypes

(* A call that is about to tell n. *)
Telling(s, a, n) == sending[s][a] = n /\ ~told[s][a]

(* "Only notify one time when service hits an error": who is about to be   *)
(* told of an outage has not heard of it since the last recovery was       *)
(* announced to the end, however failures, recoveries cut short by an      *)
(* error, edits with an `online` of their own, the checks they start and   *)
(* restarts follow each other.  The exception is a pass that overlaps      *)
(* another one, or begins on an `online` that a body or another check has  *)
(* changed between the recording of its result and sendFailure's look.     *)
OneAlertPerOutage ==
  ~UpdateNotify =>
    \A s \in Services, a \in Actors, n \in Notifiers :
      pc[s][a] = "down" /\ Telling(s, a, n) /\ ~crossed[s] => n \notin alerts[s]

(* Nor is a notifier told twice of one recovery, unless another notifier's *)
(* error, or its own, made sendSuccess return before it noted that the     *)
(* recovery had been announced.                                            *)
RepeatNeedsError ==
  \A s \in Services, a \in Actors, n \in Notifiers :
    pc[s][a] = "up" /\ Telling(s, a, n) /\ ~crossed[s] /\ n \in recoveries[s]
      => cut[s]

(* notify_after delays the first outage notice of a process, whoever       *)
(* records failures at the same time: it takes more than NotifyAfter of    *)
(* them.  Only a recovery announced before any outage, of an `online`      *)
(* changed under the check, counts as a failure.                           *)
FirstAlertDelayed ==
  \A s \in Services, a \in Actors :
    pc[s][a] = "down" => failures[s] > NotifyAfter \/ spurious[s]

(* What has been announced of a service, or is being announced. *)
Phase(s) ==
  IF \E a \in Actors : pc[s][a] = "down" THEN "falling"
  ELSE IF \E a \in Actors : pc[s][a] = "up" THEN "rising"
  ELSE IF prevOnline[s] THEN "well" ELSE "ill"

(* Notices come as Outages promises: those of an outage and of its end in  *)
(* turns, each announcement completed or, by an error, taken up again      *)
(* before the other kind starts, and to nobody twice, although sendSuccess *)
(* and sendFailure only look at prevOnline and set it after the last send. *)
(* Passes that cross go astray, and all is right again when they are over. *)
Promise == INSTANCE Outages WITH
  phase <- [s \in Services |-> Phase(s)], ill <- alerts, better <- recoveries,
  astray <- crossed, Repeats <- UpdateNotify
KeepsPromise == Promise!Spec

(* An error ends an announcement of a recovery of s. *)
SomeFail(s) == \E a \in Actors, n \in Notifiers : Fails(s, a, n)

(* A service that recovers and stays up, with notifications allowed, has   *)
(* its recovery announced to the end, once no more errors come: the pass   *)
(* that does is not put off for ever.                                      *)
RecoveryAnnounced ==
  \A s \in Services :
    <>[](online[s] /\ allow[s]) /\ <>[][~SomeFail(s)]_vars => <>[]prevOnline[s]

=============================================================================
