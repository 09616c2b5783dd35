-------------------------- MODULE ServiceAlertsProofs --------------------------
(***************************************************************************)
(* Proofs about ServiceAlerts, for any services, notifiers, goroutines and *)
(* settings.                                                               *)
(***************************************************************************)
EXTENDS ServiceAlerts, TLAPS, FiniteSetTheorems

LEMMA Numbers ==
  /\ NotifyAfter \in Nat
  /\ \A x \in 0..(NotifyAfter + 1) :
       /\ UpTo(NotifyAfter + 1, x + 1) \in 0..(NotifyAfter + 1)
       /\ UpTo(NotifyAfter + 1, x + 1) = x + 1 \/ UpTo(NotifyAfter + 1, x + 1) > NotifyAfter
       /\ UpTo(NotifyAfter + 1, x + 1) >= x
  /\ \A x \in 0..NotifyAfter :
       /\ UpTo(NotifyAfter, x + 1) \in 0..NotifyAfter
       /\ UpTo(NotifyAfter, x + 1) <= x + 1
BY SettingsAssumption DEF UpTo

-----------------------------------------------------------------------------
(* What a step does to the goroutine that takes it. *)

ActorStep(s, a, label, list, m, v) ==
  /\ pc' = [pc EXCEPT ![s][a] = label]
  /\ todo' = [todo EXCEPT ![s][a] = list]
  /\ sending' = [sending EXCEPT ![s][a] = m]
  /\ told' = [told EXCEPT ![s][a] = v]

(* An assignment to one goroutine's entry, and one that changes nothing.   *)
LEMMA Assign ==
  ASSUME NEW S, NEW A, NEW V, NEW f \in [S -> [A -> V]],
         NEW s \in S, NEW a \in A, NEW v \in V, NEW g,
         g = [f EXCEPT ![s][a] = v]
  PROVE  /\ g \in [S -> [A -> V]]
         /\ g[s][a] = v
         /\ \A t \in S, b \in A : t # s \/ b # a => g[t][b] = f[t][b]
         /\ \A t \in S : t # s => g[t] = f[t]
OBVIOUS

LEMMA Keeps ==
  ASSUME NEW S, NEW A, NEW V, NEW f \in [S -> [A -> V]], NEW s \in S, NEW a \in A
  PROVE  f = [f EXCEPT ![s][a] = f[s][a]]
OBVIOUS

LEMMA StepEffect ==
  ASSUME ActorTypes, NEW s \in Services, NEW a \in Actors,
         NEW label \in PCs, NEW list \in SUBSET Notifiers,
         NEW m \in Notifiers \cup {None}, NEW v \in BOOLEAN,
         ActorStep(s, a, label, list, m, v)
  PROVE  /\ pc'[s][a] = label /\ todo'[s][a] = list
         /\ sending'[s][a] = m /\ told'[s][a] = v
         /\ \A t \in Services, b \in Actors : t # s \/ b # a =>
              /\ pc'[t][b] = pc[t][b] /\ todo'[t][b] = todo[t][b]
              /\ sending'[t][b] = sending[t][b] /\ told'[t][b] = told[t][b]
         /\ \A t \in Services : t # s =>
              /\ pc'[t] = pc[t] /\ todo'[t] = todo[t]
              /\ sending'[t] = sending[t] /\ told'[t] = told[t]
<1> USE DEF ActorTypes, ActorStep
<1>1. /\ pc'[s][a] = label /\ \A t \in Services : t # s => pc'[t] = pc[t]
      /\ \A t \in Services, b \in Actors : t # s \/ b # a => pc'[t][b] = pc[t][b]
  BY Assign
<1>2. /\ todo'[s][a] = list /\ \A t \in Services : t # s => todo'[t] = todo[t]
      /\ \A t \in Services, b \in Actors : t # s \/ b # a => todo'[t][b] = todo[t][b]
  BY Assign
<1>3. /\ sending'[s][a] = m /\ \A t \in Services : t # s => sending'[t] = sending[t]
      /\ \A t \in Services, b \in Actors : t # s \/ b # a => sending'[t][b] = sending[t][b]
  BY Assign
<1>4. /\ told'[s][a] = v /\ \A t \in Services : t # s => told'[t] = told[t]
      /\ \A t \in Services, b \in Actors : t # s \/ b # a => told'[t][b] = told[t][b]
  BY Assign
<1> QED
  BY <1>1, <1>2, <1>3, <1>4

LEMMA StepTypes ==
  ASSUME ActorTypes, NEW s \in Services, NEW a \in Actors,
         NEW label \in PCs, NEW list \in SUBSET Notifiers,
         NEW m \in Notifiers \cup {None}, NEW v \in BOOLEAN,
         ActorStep(s, a, label, list, m, v),
         label \notin Passes => m = None /\ list = {},
         m \notin list,
         v => m # None
  PROVE  ActorTypes'
<1>1. /\ pc' \in [Services -> [Actors -> PCs]]
      /\ todo' \in [Services -> [Actors -> SUBSET Notifiers]]
      /\ sending' \in [Services -> [Actors -> Notifiers \cup {None}]]
      /\ told' \in [Services -> [Actors -> BOOLEAN]]
  BY Assign DEF ActorTypes, ActorStep
<1>2. ASSUME NEW t \in Services, NEW b \in Actors
      PROVE  /\ pc'[t][b] \notin Passes => sending'[t][b] = None /\ todo'[t][b] = {}
             /\ sending'[t][b] \notin todo'[t][b]
             /\ told'[t][b] => sending'[t][b] # None
  <2>1. CASE t = s /\ b = a
    <3>1. /\ pc'[s][a] = label /\ todo'[s][a] = list
          /\ sending'[s][a] = m /\ told'[s][a] = v
      <4>1. pc'[s][a] = label /\ todo'[s][a] = list
        BY Assign DEF ActorTypes, ActorStep
      <4>2. sending'[s][a] = m /\ told'[s][a] = v
        BY Assign DEF ActorTypes, ActorStep
      <4> QED
        BY <4>1, <4>2
    <3> QED
      BY <2>1, <3>1
  <2>2. CASE t # s \/ b # a
    <3>1. /\ pc'[t][b] = pc[t][b] /\ todo'[t][b] = todo[t][b]
          /\ sending'[t][b] = sending[t][b] /\ told'[t][b] = told[t][b]
      BY <2>2, StepEffect
    <3> QED
      BY <3>1 DEF ActorTypes
  <2> QED
    BY <2>1, <2>2
<1> QED
  BY <1>1, <1>2 DEF ActorTypes

(* A goroutine outside a pass. *)
LEMMA AtRest ==
  ASSUME ActorTypes, NEW s \in Services, NEW a \in Actors, pc[s][a] \notin Passes
  PROVE  /\ todo[s][a] = {} /\ sending[s][a] = None /\ told[s][a] = FALSE
         /\ todo = [todo EXCEPT ![s][a] = {}]
         /\ sending = [sending EXCEPT ![s][a] = None]
         /\ told = [told EXCEPT ![s][a] = FALSE]
<1>1. todo[s][a] = {} /\ sending[s][a] = None /\ told[s][a] = FALSE
  BY DEF ActorTypes
<1> QED
  BY <1>1, Keeps DEF ActorTypes

(* Every step of a goroutine, as a change of its four entries. *)
LEMMA RecordStep ==
  ASSUME ActorTypes, NEW s \in Services, NEW a \in Actors,
         RecordSuccess(s, a) \/ RecordFailure(s, a) \/ SetOnline(s, a)
  PROVE  /\ pc[s][a] \notin Passes
         /\ \E label \in PCs \ Passes : ActorStep(s, a, label, {}, None, FALSE)
<1>1. /\ pc[s][a] \notin Passes /\ todo' = todo /\ sending' = sending /\ told' = told
      /\ \E label \in {"success", "failure", "idle"} : pc' = [pc EXCEPT ![s][a] = label]
  BY DEF RecordSuccess, RecordFailure, SetOnline, Passes
<1> QED
  BY <1>1, AtRest DEF ActorStep, PCs, Passes

LEMMA GateStep ==
  ASSUME ActorTypes, NEW s \in Services, NEW a \in Actors,
         SuccessGate(s, a) \/ FailureGate(s, a)
  PROVE  /\ pc[s][a] \notin Passes
         /\ \/ /\ crossed' = crossed
               /\ \E label \in PCs \ Passes : ActorStep(s, a, label, {}, None, FALSE)
            \/ /\ SuccessGate(s, a) /\ BeginPass(s, a, "up")
               /\ ActorStep(s, a, "up", Notifiers, None, FALSE)
            \/ /\ FailureGate(s, a) /\ BeginPass(s, a, "down")
               /\ ActorStep(s, a, "down", Notifiers, None, FALSE)
<1>1. pc[s][a] \notin Passes /\ sending' = sending /\ told' = told
  BY DEF SuccessGate, FailureGate, Passes
<1>2. /\ todo = [todo EXCEPT ![s][a] = {}] /\ sending' = [sending EXCEPT ![s][a] = None]
      /\ told' = [told EXCEPT ![s][a] = FALSE]
  BY <1>1, AtRest
<1>3. CASE SuccessGate(s, a)
  BY <1>1, <1>2, <1>3 DEF SuccessGate, BeginPass, Back, ActorStep, PCs, Passes
<1>4. CASE FailureGate(s, a)
  BY <1>1, <1>2, <1>4 DEF FailureGate, BeginPass, ActorStep, PCs, Passes
<1> QED
  BY <1>3, <1>4

LEMMA CanSendStep ==
  ASSUME ActorTypes, NEW s \in Services, NEW a \in Actors, NEW n \in Notifiers,
         CanSend(s, a, n)
  PROVE  /\ n \in todo[s][a] /\ sending[s][a] = None
         /\ pc[s][a] \in Passes /\ pc[s][a] \in PCs
         /\ \E m \in {n, None} : ActorStep(s, a, pc[s][a], todo[s][a] \ {n}, m, FALSE)
<1>1. n \in todo[s][a] /\ sending[s][a] = None /\ pc[s][a] \in Passes /\ pc[s][a] \in PCs
  BY DEF CanSend, ActorTypes
<1>2. told[s][a] = FALSE
  BY <1>1 DEF ActorTypes
<1>3. pc' = [pc EXCEPT ![s][a] = pc[s][a]] /\ told' = [told EXCEPT ![s][a] = FALSE]
  BY <1>2, Keeps DEF CanSend, ActorTypes
<1> QED
  BY <1>1, <1>3 DEF CanSend, ActorStep

(* A notifier that is sent to is not on the list any more. *)
LEMMA SendingTo ==
  ASSUME ActorTypes, NEW s \in Services, NEW a \in Actors, NEW n \in Notifiers,
         sending[s][a] = n
  PROVE  pc[s][a] \in Passes /\ pc[s][a] \in PCs /\ n \notin todo[s][a]
         /\ todo[s][a] \in SUBSET Notifiers
BY NoneAssumption DEF ActorTypes

LEMMA TellStep ==
  ASSUME ActorTypes, NEW s \in Services, NEW a \in Actors, NEW n \in Notifiers,
         Tell(s, a, n)
  PROVE  ActorStep(s, a, pc[s][a], todo[s][a], n, TRUE)
<1>1. /\ pc' = [pc EXCEPT ![s][a] = pc[s][a]] /\ todo' = [todo EXCEPT ![s][a] = todo[s][a]]
      /\ sending' = [sending EXCEPT ![s][a] = n]
  BY Keeps DEF Tell, ActorTypes
<1> QED
  BY <1>1 DEF Tell, ActorStep

LEMMA SentStep ==
  ASSUME ActorTypes, NEW s \in Services, NEW a \in Actors, NEW n \in Notifiers,
         Sent(s, a, n)
  PROVE  ActorStep(s, a, pc[s][a], todo[s][a], None, FALSE)
<1>1. /\ pc' = [pc EXCEPT ![s][a] = pc[s][a]] /\ todo' = [todo EXCEPT ![s][a] = todo[s][a]]
  BY Keeps DEF Sent, ActorTypes
<1> QED
  BY <1>1 DEF Sent, Hangup, ActorStep

LEMMA EndStep ==
  ASSUME ActorTypes, NEW s \in Services, NEW a \in Actors,
         \/ EndUp(s, a) \/ EndDown(s, a)
         \/ \E n \in Notifiers : Fails(s, a, n)
  PROVE  /\ pc[s][a] \in Passes
         /\ crossed' = IF Alone(s, a) THEN [crossed EXCEPT ![s] = FALSE] ELSE crossed
         /\ \E label \in PCs \ Passes : ActorStep(s, a, label, {}, None, FALSE)
<1>1. /\ pc[s][a] \in Passes /\ EndPass(s, a)
      /\ \E label \in PCs \ Passes : pc' = [pc EXCEPT ![s][a] = label]
  BY DEF EndUp, EndDown, Fails, Back, Passes, PCs
<1>2. /\ sending' = [sending EXCEPT ![s][a] = None]
      /\ told' = [told EXCEPT ![s][a] = FALSE]
  <2>1. CASE \E n \in Notifiers : Fails(s, a, n)
    BY <2>1 DEF Fails, Hangup
  <2>2. CASE EndUp(s, a) \/ EndDown(s, a)
    <3>1. sending[s][a] = None /\ sending' = sending /\ told' = told
      BY <2>2 DEF EndUp, EndDown, PassDone
    <3>2. told[s][a] = FALSE
      BY <3>1 DEF ActorTypes
    <3> QED
      BY <3>1, <3>2, Keeps DEF ActorTypes
  <2> QED
    BY <2>1, <2>2
<1> QED
  BY <1>1, <1>2 DEF EndPass, ActorStep

-----------------------------------------------------------------------------
(* Types. *)

LEMMA EachTypes ==
  ASSUME pc' = Each("idle"), todo' = Each({}), sending' = Each(None), told' = Each(FALSE)
  PROVE  ActorTypes'
BY DEF ActorTypes, Each, PCs, Passes

LEMMA StartTypes ==
  /\ No \in [Services -> BOOLEAN] /\ Yes \in [Services -> BOOLEAN]
  /\ Zero \in [Services -> 0..NotifyAfter] /\ Zero \in [Services -> 0..(NotifyAfter + 1)]
  /\ Nobody \in [Services -> SUBSET Notifiers]
BY Numbers DEF No, Yes, Zero, Nobody

LEMMA TypeOKInit == Init => TypeOK
<1> SUFFICES ASSUME Init PROVE TypeOK
  OBVIOUS
<1>1. ServiceTypes /\ HistoryTypes
  BY StartTypes DEF Init, ServiceTypes, HistoryTypes
<1>2. ActorTypes
  BY DEF Init, ActorTypes, Each, PCs, Passes
<1> QED
  BY <1>1, <1>2 DEF TypeOK

LEMMA CountTypes ==
  ASSUME ServiceTypes, NEW s \in Services, CountNotify(s)
  PROVE  /\ afterCount' \in [Services -> 0..NotifyAfter]
         /\ afterCount'[s] = UpTo(NotifyAfter, afterCount[s] + 1)
         /\ \A t \in Services : t # s => afterCount'[t] = afterCount[t]
<1>1. UpTo(NotifyAfter, afterCount[s] + 1) \in 0..NotifyAfter
  BY Numbers DEF ServiceTypes
<1> QED
  BY <1>1 DEF CountNotify, ServiceTypes

LEMMA ActorTypesNext ==
  ASSUME ActorTypes, NEW s \in Services, NEW a \in Actors,
         RecordSuccess(s, a) \/ RecordFailure(s, a) \/ Announce(s, a)
  PROVE  ActorTypes'
<1>0. {} \in SUBSET Notifiers /\ Notifiers \in SUBSET Notifiers
  OBVIOUS
<1>1. CASE \E label \in PCs \ Passes : ActorStep(s, a, label, {}, None, FALSE)
  BY <1>0, <1>1, StepTypes
<1>2. CASE \E label \in Passes : ActorStep(s, a, label, Notifiers, None, FALSE)
  BY <1>0, <1>2, StepTypes, NoneAssumption DEF PCs, Passes
<1>3. CASE RecordSuccess(s, a) \/ RecordFailure(s, a) \/ SetOnline(s, a)
  BY <1>1, <1>3, RecordStep
<1>4. CASE SuccessGate(s, a) \/ FailureGate(s, a)
  BY <1>1, <1>2, <1>4, GateStep DEF Passes
<1>5. CASE EndUp(s, a) \/ EndDown(s, a) \/ \E n \in Notifiers : Fails(s, a, n)
  BY <1>1, <1>5, EndStep
<1>6. ASSUME NEW n \in Notifiers, CanSend(s, a, n) PROVE ActorTypes'
  <2>1. PICK m \in {n, None} : ActorStep(s, a, pc[s][a], todo[s][a] \ {n}, m, FALSE)
    BY <1>6, CanSendStep
  <2>2. /\ todo[s][a] \ {n} \in SUBSET Notifiers /\ m \in Notifiers \cup {None}
        /\ m \notin todo[s][a] \ {n} /\ pc[s][a] \in Passes /\ pc[s][a] \in PCs
    <3>1. todo[s][a] \in SUBSET Notifiers
      BY DEF ActorTypes
    <3>2. pc[s][a] \in Passes /\ pc[s][a] \in PCs
      BY <1>6, CanSendStep
    <3> QED
      BY <3>1, <3>2, NoneAssumption
  <2> QED
    BY <2>1, <2>2, StepTypes
<1>7. ASSUME NEW n \in Notifiers, Tell(s, a, n) PROVE ActorTypes'
  <2>1. sending[s][a] = n
    BY <1>7 DEF Tell
  <2> QED
    BY <1>7, <2>1, TellStep, SendingTo, StepTypes, NoneAssumption
<1>8. ASSUME NEW n \in Notifiers, Sent(s, a, n) PROVE ActorTypes'
  <2>1. sending[s][a] = n
    BY <1>8 DEF Sent
  <2>2. None \notin todo[s][a]
    BY NoneAssumption DEF ActorTypes
  <2> QED
    BY <1>8, <2>1, <2>2, SentStep, SendingTo, StepTypes
<1> QED
  BY <1>3, <1>4, <1>5, <1>6, <1>7, <1>8 DEF Announce

LEMMA ServiceTypesNext ==
  ASSUME TypeOK, NEW s \in Services, NEW a \in Actors,
         RecordSuccess(s, a) \/ RecordFailure(s, a) \/ Announce(s, a)
  PROVE  ServiceTypes'
<1> USE DEF TypeOK
<1>1. afterCount' \in [Services -> 0..NotifyAfter]
  <2>1. CASE CountNotify(s)
    BY <2>1, CountTypes
  <2>2. CASE afterCount' = afterCount
    BY <2>2 DEF ServiceTypes
  <2> QED
    BY <2>1, <2>2 DEF RecordSuccess, RecordFailure, Announce, SuccessGate, FailureGate,
       SetOnline, EndUp, EndDown, CanSend, Tell, Sent, Fails, serviceVars
<1>2. \/ online' = online
      \/ \E v \in BOOLEAN : online' = [online EXCEPT ![s] = v]
  BY DEF RecordSuccess, RecordFailure, Announce, SuccessGate, FailureGate,
         SetOnline, EndUp, EndDown, CanSend, Tell, Sent, Fails, serviceVars
<1>3. /\ allow' = allow
      /\ \/ prevOnline' = prevOnline
         \/ \E v \in BOOLEAN : prevOnline' = [prevOnline EXCEPT ![s] = v]
  BY DEF RecordSuccess, RecordFailure, Announce, SuccessGate, FailureGate,
         SetOnline, EndUp, EndDown, CanSend, Tell, Sent, Fails, serviceVars
<1>4. online' \in [Services -> BOOLEAN]
  BY <1>2 DEF ServiceTypes
<1>5. prevOnline' \in [Services -> BOOLEAN] /\ allow' \in [Services -> BOOLEAN]
  BY <1>3 DEF ServiceTypes
<1> QED
  BY <1>1, <1>4, <1>5 DEF ServiceTypes

LEMMA HistoryTypesNext ==
  ASSUME TypeOK, NEW s \in Services, NEW a \in Actors,
         RecordSuccess(s, a) \/ RecordFailure(s, a) \/ Announce(s, a)
  PROVE  HistoryTypes'
<1> USE DEF TypeOK
<1>1. failures' \in [Services -> 0..(NotifyAfter + 1)]
  <2>1. UpTo(NotifyAfter + 1, failures[s] + 1) \in 0..(NotifyAfter + 1)
    BY Numbers DEF HistoryTypes
  <2>2. \/ failures' = failures
        \/ failures' = [failures EXCEPT ![s] = UpTo(NotifyAfter + 1, failures[s] + 1)]
    BY DEF RecordSuccess, RecordFailure, Announce, SuccessGate, FailureGate,
           SetOnline, EndUp, EndDown, CanSend, Tell, Sent, Fails, historyVars
  <2> QED
    BY <2>1, <2>2 DEF HistoryTypes
<1>2. /\ alerts' \in [Services -> SUBSET Notifiers]
      /\ recoveries' \in [Services -> SUBSET Notifiers]
  <2>1. /\ \/ alerts' = alerts \/ alerts' = [alerts EXCEPT ![s] = {}]
           \/ \E n \in Notifiers : alerts' = [alerts EXCEPT ![s] = alerts[s] \cup {n}]
        /\ \/ recoveries' = recoveries \/ recoveries' = [recoveries EXCEPT ![s] = {}]
           \/ \E n \in Notifiers : recoveries' = [recoveries EXCEPT ![s] = recoveries[s] \cup {n}]
    BY DEF RecordSuccess, RecordFailure, Announce, SuccessGate, FailureGate,
           SetOnline, EndUp, EndDown, CanSend, Tell, Sent, Fails, historyVars
  <2> QED
    BY <2>1 DEF HistoryTypes
<1>3. cut' \in [Services -> BOOLEAN]
  <2>1. cut' = cut \/ \E v \in BOOLEAN : cut' = [cut EXCEPT ![s] = v]
    BY DEF RecordSuccess, RecordFailure, Announce, SuccessGate, FailureGate,
           SetOnline, EndUp, EndDown, CanSend, Tell, Sent, Fails, historyVars
  <2> QED
    BY <2>1 DEF HistoryTypes
<1>4. crossed' \in [Services -> BOOLEAN]
  <2>1. crossed' = crossed \/ \E v \in BOOLEAN : crossed' = [crossed EXCEPT ![s] = v]
    BY DEF RecordSuccess, RecordFailure, Announce, SuccessGate, FailureGate, BeginPass,
           SetOnline, EndUp, EndDown, EndPass, CanSend, Tell, Sent, Fails, historyVars
  <2> QED
    BY <2>1 DEF HistoryTypes
<1>5. spurious' \in [Services -> BOOLEAN]
  <2>1. spurious' = spurious \/ spurious' = [spurious EXCEPT ![s] = TRUE]
    BY DEF RecordSuccess, RecordFailure, Announce, SuccessGate, FailureGate,
           SetOnline, EndUp, EndDown, CanSend, Tell, Sent, Fails, historyVars
  <2> QED
    BY <2>1 DEF HistoryTypes
<1> QED
  BY <1>1, <1>2, <1>3, <1>4, <1>5 DEF HistoryTypes

LEMMA TypeOKRest ==
  ASSUME TypeOK,
         (\E s \in Services : EditService(s)) \/ Restart \/ UNCHANGED vars
  PROVE  TypeOK'
<1> USE DEF TypeOK
<1>1. CASE \E s \in Services : EditService(s)
  <2>1. online' \in [Services -> BOOLEAN]
    BY <1>1 DEF EditService, ServiceTypes
  <2>2. allow' \in [Services -> BOOLEAN]
    BY <1>1 DEF EditService, ServiceTypes
  <2> QED
    BY <1>1, <2>1, <2>2
       DEF EditService, ServiceTypes, ActorTypes, HistoryTypes, actorVars, historyVars
<1>2. CASE Restart
  <2>1. ServiceTypes' /\ HistoryTypes'
    BY <1>2, StartTypes DEF Restart, ServiceTypes, HistoryTypes
  <2> QED
    BY <1>2, <2>1, EachTypes DEF Restart
<1>3. CASE UNCHANGED vars
  BY <1>3 DEF vars, serviceVars, actorVars, historyVars, ServiceTypes, ActorTypes, HistoryTypes
<1> QED
  BY <1>1, <1>2, <1>3

LEMMA TypeOKNext == TypeOK /\ [Next]_vars => TypeOK'
<1> SUFFICES ASSUME TypeOK, [Next]_vars PROVE TypeOK'
  OBVIOUS
<1>1. ASSUME NEW s \in Services, NEW a \in Actors,
             RecordSuccess(s, a) \/ RecordFailure(s, a) \/ Announce(s, a)
      PROVE  TypeOK'
  BY <1>1, ActorTypesNext, ServiceTypesNext, HistoryTypesNext DEF TypeOK
<1> QED
  BY <1>1, TypeOKRest DEF Next

(* Type correctness: a goroutine is sending only inside a pass over the    *)
(* notifiers (sendSuccess, sendFailure), to one the pass has taken.        *)
THEOREM TypeCorrect == Spec => []TypeOK
BY TypeOKInit, TypeOKNext, PTL DEF Spec

-----------------------------------------------------------------------------
(* Who is about to be told has not been told yet.                          *)

(* n is still to be told in a's pass. *)
Ahead(t, a, n) == n \in todo[t][a] \/ Telling(t, a, n)

(* Passes overlap only when they cross. *)
Apart(t) ==
  ~crossed[t] =>
    \A a, b \in Actors : pc[t][a] \in Passes /\ pc[t][b] \in Passes => a = b

(* A pass is news to those ahead. *)
RecoveryIsNews(t, a) ==
  pc[t][a] = "up" =>
    /\ ~prevOnline[t]
    /\ \A n \in Notifiers : Ahead(t, a, n) /\ n \in recoveries[t] => cut[t]
OutageIsNews(t, a) ==
  pc[t][a] = "down" /\ ~UpdateNotify =>
    /\ prevOnline[t]
    /\ \A n \in Notifiers : Ahead(t, a, n) => n \notin alerts[t]
News(t) == ~crossed[t] => \A a \in Actors : RecoveryIsNews(t, a) /\ OutageIsNews(t, a)

(* Between passes nothing is left over, crossed or not. *)
Settled(t) ==
  /\ prevOnline[t] /\ (\A a \in Actors : pc[t][a] # "down") => alerts[t] = {}
  /\ ~prevOnline[t] /\ (\A a \in Actors : pc[t][a] # "up") => cut[t] \/ recoveries[t] = {}

AInv(t) == Apart(t) /\ News(t) /\ Settled(t)
AInvs == \A t \in Services : AInv(t)

(* Nothing that AInv speaks of changes at t. *)
Same(t) ==
  /\ pc'[t] = pc[t] /\ todo'[t] = todo[t] /\ sending'[t] = sending[t] /\ told'[t] = told[t]
  /\ prevOnline'[t] = prevOnline[t] /\ alerts'[t] = alerts[t]
  /\ recoveries'[t] = recoveries[t] /\ cut'[t] = cut[t] /\ crossed'[t] = crossed[t]

LEMMA SameAInv ==
  ASSUME NEW t \in Services, Same(t), AInv(t)
  PROVE  AInv(t)'
BY DEF Same, AInv, Apart, News, RecoveryIsNews, OutageIsNews, Settled, Ahead, Telling

(* Every step of a goroutine is one of these. *)
LEMMA SomeStep ==
  ASSUME TypeOK, NEW s \in Services, NEW a \in Actors,
         RecordSuccess(s, a) \/ RecordFailure(s, a) \/ Announce(s, a)
  PROVE  \E label \in PCs, list \in SUBSET Notifiers, m \in Notifiers \cup {None}, v \in BOOLEAN :
           ActorStep(s, a, label, list, m, v)
<1> USE DEF TypeOK
<1>0. {} \in SUBSET Notifiers /\ Notifiers \in SUBSET Notifiers /\ None \in Notifiers \cup {None}
  OBVIOUS
<1>1. CASE RecordSuccess(s, a) \/ RecordFailure(s, a) \/ SetOnline(s, a)
  BY <1>0, <1>1, RecordStep
<1>2. CASE SuccessGate(s, a) \/ FailureGate(s, a)
  BY <1>0, <1>2, GateStep DEF PCs
<1>3. CASE EndUp(s, a) \/ EndDown(s, a) \/ \E n \in Notifiers : Fails(s, a, n)
  BY <1>0, <1>3, EndStep
<1>4. ASSUME NEW n \in Notifiers, CanSend(s, a, n)
      PROVE  \E label \in PCs, list \in SUBSET Notifiers, m \in Notifiers \cup {None}, v \in BOOLEAN :
               ActorStep(s, a, label, list, m, v)
  <2>1. todo[s][a] \ {n} \in SUBSET Notifiers
    BY DEF ActorTypes
  <2> QED
    BY <1>4, <2>1, CanSendStep
<1>5. ASSUME NEW n \in Notifiers, Tell(s, a, n) \/ Sent(s, a, n)
      PROVE  \E label \in PCs, list \in SUBSET Notifiers, m \in Notifiers \cup {None}, v \in BOOLEAN :
               ActorStep(s, a, label, list, m, v)
  <2>1. sending[s][a] = n
    BY <1>5 DEF Tell, Sent
  <2>2. pc[s][a] \in PCs /\ todo[s][a] \in SUBSET Notifiers
    BY <2>1, SendingTo
  <2>3. CASE Tell(s, a, n)
    BY <2>2, <2>3, TellStep
  <2>4. CASE Sent(s, a, n)
    BY <2>2, <2>4, SentStep
  <2> QED
    BY <1>5, <2>3, <2>4
<1> QED
  BY <1>1, <1>2, <1>3, <1>4, <1>5 DEF Announce

LEMMA OtherServices ==
  ASSUME TypeOK, NEW s \in Services, NEW a \in Actors,
         RecordSuccess(s, a) \/ RecordFailure(s, a) \/ Announce(s, a),
         NEW t \in Services, t # s
  PROVE  Same(t) /\ afterCount'[t] = afterCount[t] /\ failures'[t] = failures[t]
         /\ spurious'[t] = spurious[t]
<1> USE DEF TypeOK
<1>1. pc'[t] = pc[t] /\ todo'[t] = todo[t] /\ sending'[t] = sending[t] /\ told'[t] = told[t]
  <2>1. PICK label \in PCs, list \in SUBSET Notifiers, m \in Notifiers \cup {None}, v \in BOOLEAN :
               ActorStep(s, a, label, list, m, v)
    BY SomeStep
  <2>2. pc'[t] = pc[t] /\ todo'[t] = todo[t]
    BY <2>1 DEF ActorStep, ActorTypes
  <2>3. sending'[t] = sending[t] /\ told'[t] = told[t]
    BY <2>1 DEF ActorStep, ActorTypes
  <2> QED
    BY <2>2, <2>3
<1>2. alerts'[t] = alerts[t] /\ recoveries'[t] = recoveries[t]
  BY DEF RecordSuccess, RecordFailure, Announce, SuccessGate, FailureGate, HistoryTypes,
         SetOnline, EndUp, EndDown, CanSend, Tell, Sent, Fails, historyVars
<1>3. cut'[t] = cut[t] /\ spurious'[t] = spurious[t]
  BY DEF RecordSuccess, RecordFailure, Announce, SuccessGate, FailureGate, HistoryTypes,
         SetOnline, EndUp, EndDown, CanSend, Tell, Sent, Fails, historyVars
<1>4. crossed'[t] = crossed[t]
  BY DEF RecordSuccess, RecordFailure, Announce, SuccessGate, FailureGate, HistoryTypes,
         SetOnline, EndUp, EndDown, CanSend, Tell, Sent, Fails, historyVars, BeginPass, EndPass
<1>5. failures'[t] = failures[t]
  BY DEF RecordSuccess, RecordFailure, Announce, SuccessGate, FailureGate, HistoryTypes,
         SetOnline, EndUp, EndDown, CanSend, Tell, Sent, Fails, historyVars
<1>6. prevOnline'[t] = prevOnline[t] /\ afterCount'[t] = afterCount[t]
  BY DEF RecordSuccess, RecordFailure, Announce, SuccessGate, FailureGate, ServiceTypes,
         SetOnline, EndUp, EndDown, CanSend, Tell, Sent, Fails, serviceVars, CountNotify
<1> QED
  BY <1>1, <1>2, <1>3, <1>4, <1>5, <1>6 DEF Same

(* A step of a goroutine outside a pass that begins none. *)
LEMMA QuietAInv ==
  ASSUME TypeOK, NEW s \in Services, NEW a \in Actors, AInv(s),
         pc[s][a] \notin Passes, NEW label \in PCs \ Passes,
         ActorStep(s, a, label, {}, None, FALSE),
         prevOnline'[s] = prevOnline[s], alerts'[s] = alerts[s],
         recoveries'[s] = recoveries[s], cut'[s] = cut[s], crossed'[s] = crossed[s]
  PROVE  AInv(s)'
<1>1. /\ pc'[s][a] = label
      /\ \A b \in Actors : b # a =>
           /\ pc'[s][b] = pc[s][b] /\ todo'[s][b] = todo[s][b]
           /\ sending'[s][b] = sending[s][b] /\ told'[s][b] = told[s][b]
  <2>1. pc'[s][a] = label /\ \A b \in Actors : b # a => pc'[s][b] = pc[s][b]
    BY DEF ActorStep, TypeOK, ActorTypes
  <2>2. \A b \in Actors : b # a => todo'[s][b] = todo[s][b]
    BY DEF ActorStep, TypeOK, ActorTypes
  <2>3. \A b \in Actors : b # a => sending'[s][b] = sending[s][b]
    BY DEF ActorStep, TypeOK, ActorTypes
  <2>4. \A b \in Actors : b # a => told'[s][b] = told[s][b]
    BY DEF ActorStep, TypeOK, ActorTypes
  <2> QED
    BY <2>1, <2>2, <2>3, <2>4
<1>2. \A b \in Actors : pc'[s][b] \in Passes =>
        /\ pc'[s][b] = pc[s][b] /\ todo'[s][b] = todo[s][b]
        /\ sending'[s][b] = sending[s][b] /\ told'[s][b] = told[s][b]
  BY <1>1
<1>3. \A b \in Actors : (pc'[s][b] = "up" <=> pc[s][b] = "up")
                        /\ (pc'[s][b] = "down" <=> pc[s][b] = "down")
  BY <1>1 DEF Passes
<1>4. Apart(s)'
  BY <1>2 DEF AInv, Apart
<1>5. News(s)'
  BY <1>2 DEF AInv, News, RecoveryIsNews, OutageIsNews, Ahead, Telling, Passes
<1>6. Settled(s)'
  BY <1>3 DEF AInv, Settled
<1> QED
  BY <1>4, <1>5, <1>6 DEF AInv

(* A pass that begins beside no other finds nothing left over. *)
LEMMA BeginAInv ==
  ASSUME TypeOK, NEW s \in Services, NEW a \in Actors, AInv(s),
         pc[s][a] \notin Passes, NEW label \in Passes,
         BeginPass(s, a, label), ActorStep(s, a, label, Notifiers, None, FALSE),
         label = "up" /\ online[s] => ~prevOnline[s],
         label = "down" /\ ~online[s] => prevOnline[s] \/ UpdateNotify,
         prevOnline' = prevOnline, alerts' = alerts, recoveries' = recoveries, cut' = cut
  PROVE  AInv(s)'
<1>1. /\ pc'[s][a] = label
      /\ \A b \in Actors : b # a => pc'[s][b] = pc[s][b]
  BY DEF ActorStep, TypeOK, ActorTypes
<1>2. ~crossed'[s] => ~crossed[s] /\ Alone(s, a) /\ (online[s] <=> label = "up")
  BY DEF BeginPass, TypeOK, HistoryTypes
<1>3. Alone(s, a) => \A b \in Actors : pc[s][b] \notin Passes
  BY DEF Alone
<1>4. Apart(s)'
  BY <1>1, <1>2 DEF Alone, Apart
<1>5. News(s)'
  <2> SUFFICES ASSUME ~crossed'[s], NEW b \in Actors
               PROVE  (RecoveryIsNews(s, b) /\ OutageIsNews(s, b))'
    BY DEF News
  <2>1. CASE b # a
    BY <1>1, <1>2, <2>1 DEF Alone, RecoveryIsNews, OutageIsNews, Passes
  <2>2. CASE b = a /\ label = "up"
    <3>1. ~prevOnline[s] /\ \A c \in Actors : pc[s][c] # "up"
      BY <1>2, <1>3, <2>2 DEF Passes
    <3>2. cut[s] \/ recoveries[s] = {}
      BY <3>1 DEF AInv, Settled
    <3> QED
      BY <1>1, <2>2, <3>1, <3>2 DEF RecoveryIsNews, OutageIsNews
  <2>3. CASE b = a /\ label = "down"
    <3>1. ~online[s] /\ \A c \in Actors : pc[s][c] # "down"
      BY <1>2, <1>3, <2>3 DEF Passes
    <3>2. ~UpdateNotify => prevOnline[s] /\ alerts[s] = {}
      BY <2>3, <3>1 DEF AInv, Settled
    <3> QED
      BY <1>1, <2>3, <3>2 DEF RecoveryIsNews, OutageIsNews
  <2> QED
    BY <2>1, <2>2, <2>3 DEF Passes
<1>6. Settled(s)'
  <2>1. \A b \in Actors : (pc[s][b] = "up" => pc'[s][b] = "up")
                          /\ (pc[s][b] = "down" => pc'[s][b] = "down")
    BY <1>1 DEF Passes
  <2> QED
    BY <2>1 DEF AInv, Settled
<1> QED
  BY <1>4, <1>5, <1>6 DEF AInv

(* CanSend and a call that returns leave fewer ahead. *)
LEMMA FewerAInv ==
  ASSUME TypeOK, NEW s \in Services, NEW a \in Actors, AInv(s), NEW n \in Notifiers,
         CanSend(s, a, n) \/ Sent(s, a, n)
  PROVE  AInv(s)'
<1>1. pc' = pc /\ prevOnline' = prevOnline /\ UNCHANGED historyVars
  BY DEF CanSend, Sent, serviceVars
<1>2. \A b \in Actors, m \in Notifiers : Ahead(s, b, m)' => Ahead(s, b, m)
  <2>1. CASE CanSend(s, a, n)
    <3>1. /\ n \in todo[s][a] /\ todo'[s][a] = todo[s][a] \ {n}
          /\ sending'[s][a] \in {n, None}
          /\ \A b \in Actors : b # a =>
               /\ todo'[s][b] = todo[s][b] /\ sending'[s][b] = sending[s][b]
               /\ told'[s][b] = told[s][b]
      BY <2>1 DEF CanSend, TypeOK, ActorTypes
    <3> QED
      BY <3>1, NoneAssumption DEF Ahead, Telling
  <2>2. CASE Sent(s, a, n)
    <3>1. /\ todo' = todo /\ sending'[s][a] = None
          /\ \A b \in Actors : b # a =>
               sending'[s][b] = sending[s][b] /\ told'[s][b] = told[s][b]
      BY <2>2 DEF Sent, Hangup, TypeOK, ActorTypes
    <3> QED
      BY <3>1, NoneAssumption DEF Ahead, Telling
  <2> QED
    BY <2>1, <2>2
<1>3. Apart(s)' /\ Settled(s)'
  BY <1>1 DEF AInv, Apart, Settled, historyVars
<1>4. News(s)'
  BY <1>1, <1>2 DEF AInv, News, RecoveryIsNews, OutageIsNews, historyVars
<1> QED
  BY <1>3, <1>4 DEF AInv

(* Who is told is not ahead any more, and other passes, if any, cross.     *)
LEMMA TellAInv ==
  ASSUME TypeOK, NEW s \in Services, NEW a \in Actors, AInv(s), NEW n \in Notifiers,
         Tell(s, a, n)
  PROVE  AInv(s)'
<1>1. /\ pc' = pc /\ prevOnline' = prevOnline /\ cut' = cut /\ crossed' = crossed
      /\ todo' = todo /\ sending' = sending /\ sending[s][a] = n /\ ~told[s][a]
      /\ pc[s][a] \in {"up", "down"}
  BY DEF Tell, serviceVars
<1>2. told'[s][a] = TRUE /\ n \notin todo[s][a]
  BY <1>1, SendingTo DEF Tell, TypeOK, ActorTypes
<1>3. /\ pc[s][a] = "up" => recoveries'[s] = recoveries[s] \cup {n} /\ alerts'[s] = alerts[s]
      /\ pc[s][a] = "down" => alerts'[s] = alerts[s] \cup {n} /\ recoveries'[s] = recoveries[s]
  BY DEF Tell, TypeOK, HistoryTypes
<1>4. Apart(s)'
  BY <1>1 DEF AInv, Apart
<1>5. News(s)'
  <2> SUFFICES ASSUME ~crossed'[s], NEW b \in Actors, pc'[s][b] \in Passes
               PROVE  (RecoveryIsNews(s, b) /\ OutageIsNews(s, b))'
    BY DEF News, RecoveryIsNews, OutageIsNews, Passes
  <2>1. b = a
    BY <1>1 DEF AInv, Apart, Passes
  <2>2. \A m \in Notifiers : Ahead(s, a, m)' => m # n /\ Ahead(s, a, m)
    BY <1>1, <1>2 DEF Ahead, Telling
  <2>3. RecoveryIsNews(s, a) /\ OutageIsNews(s, a)
    BY <1>1 DEF AInv, News
  <2> QED
    BY <1>1, <1>3, <2>1, <2>2, <2>3 DEF RecoveryIsNews, OutageIsNews
<1>6. Settled(s)'
  BY <1>1, <1>3 DEF AInv, Settled
<1> QED
  BY <1>4, <1>5, <1>6 DEF AInv

(* The end of a pass. *)
LEMMA EndAInv ==
  ASSUME TypeOK, NEW s \in Services, NEW a \in Actors, AInv(s),
         \/ EndUp(s, a) \/ EndDown(s, a)
         \/ \E n \in Notifiers : Fails(s, a, n)
  PROVE  AInv(s)'
<1>1. /\ pc[s][a] \in Passes /\ pc'[s][a] \notin Passes
      /\ \A b \in Actors : b # a => pc'[s][b] = pc[s][b]
  <2>1. PICK label \in PCs \ Passes : ActorStep(s, a, label, {}, None, FALSE)
    BY EndStep DEF TypeOK
  <2>2. pc'[s][a] = label /\ \A b \in Actors : b # a => pc'[s][b] = pc[s][b]
    BY <2>1 DEF ActorStep, TypeOK, ActorTypes
  <2> QED
    BY <2>2, EndStep DEF TypeOK
<1>2. ~crossed'[s] => \A b \in Actors : pc'[s][b] \notin Passes
  <2>1. ~crossed'[s] => ~crossed[s] \/ Alone(s, a)
    BY EndStep DEF TypeOK, HistoryTypes
  <2> QED
    BY <1>1, <2>1 DEF AInv, Apart, Alone
<1>3. Apart(s)' /\ News(s)'
  BY <1>2 DEF Apart, News, RecoveryIsNews, OutageIsNews, Passes
<1>4. Settled(s)'
  <2>1. \A b \in Actors : b # a => pc'[s][b] = pc[s][b]
    BY <1>1
  <2>2. CASE EndUp(s, a)
    <3>1. prevOnline'[s] = TRUE /\ alerts'[s] = {}
      BY <2>2 DEF EndUp, TypeOK, ServiceTypes, HistoryTypes
    <3> QED
      BY <3>1 DEF Settled
  <2>3. CASE EndDown(s, a)
    <3>1. prevOnline'[s] = FALSE /\ recoveries'[s] = {}
      BY <2>3 DEF EndDown, TypeOK, ServiceTypes, HistoryTypes
    <3> QED
      BY <3>1 DEF Settled
  <2>4. ASSUME NEW n \in Notifiers, Fails(s, a, n) PROVE Settled(s)'
    <3>1. /\ cut'[s] = TRUE /\ prevOnline'[s] = prevOnline[s] /\ alerts'[s] = alerts[s]
          /\ pc[s][a] = "up"
      BY <2>4 DEF Fails, serviceVars, TypeOK, HistoryTypes
    <3>2. \A b \in Actors : pc[s][b] = "down" => pc'[s][b] = "down"
      BY <1>1, <3>1
    <3> QED
      BY <3>1, <3>2 DEF AInv, Settled
  <2> QED
    BY <2>2, <2>3, <2>4
<1> QED
  BY <1>3, <1>4 DEF AInv

(* The announcement a gate begins is the one its check calls for. *)
LEMMA GateAnnounces ==
  ASSUME TypeOK, NEW s \in Services, NEW a \in Actors
  PROVE  /\ SuccessGate(s, a) /\ BeginPass(s, a, "up") =>
              (online[s] => ~prevOnline[s])
         /\ FailureGate(s, a) /\ BeginPass(s, a, "down") =>
              (~online[s] => prevOnline[s] \/ UpdateNotify)
<1>1. ASSUME SuccessGate(s, a), BeginPass(s, a, "up"), online[s] PROVE ~prevOnline[s]
  <2>1. pc'[s][a] = "up"
    BY <1>1 DEF BeginPass, TypeOK, ActorTypes
  <2>2. prevOnline[s] # online[s]
    <3>1. ~Back(s, a)
      BY <2>1 DEF Back, TypeOK, ActorTypes
    <3> QED
      BY <1>1, <3>1 DEF SuccessGate
  <2> QED
    BY <1>1, <2>2 DEF TypeOK, ServiceTypes
<1>2. ASSUME FailureGate(s, a), BeginPass(s, a, "down"), ~online[s]
      PROVE  prevOnline[s] \/ UpdateNotify
  <2>1. pc'[s][a] = "down"
    BY <1>2 DEF BeginPass, TypeOK, ActorTypes
  <2>2. ~Unheard(s)
    BY <1>2, <2>1 DEF FailureGate, TypeOK, ActorTypes
  <2> QED
    BY <1>2, <2>2 DEF Unheard, TypeOK, ServiceTypes
<1> QED
  BY <1>1, <1>2

LEMMA GateAInv ==
  ASSUME TypeOK, NEW s \in Services, NEW a \in Actors, AInv(s),
         SuccessGate(s, a) \/ FailureGate(s, a)
  PROVE  AInv(s)'
<1>1. prevOnline' = prevOnline /\ alerts' = alerts /\ recoveries' = recoveries /\ cut' = cut
  BY DEF SuccessGate, FailureGate, serviceVars
<1>2. pc[s][a] \notin Passes
  BY GateStep DEF TypeOK
<1>3. ASSUME NEW label \in PCs \ Passes, ActorStep(s, a, label, {}, None, FALSE),
             crossed' = crossed
      PROVE  AInv(s)'
  BY <1>1, <1>2, <1>3, QuietAInv
<1>4. CASE /\ SuccessGate(s, a) /\ BeginPass(s, a, "up")
           /\ ActorStep(s, a, "up", Notifiers, None, FALSE)
  BY <1>1, <1>2, <1>4, GateAnnounces, BeginAInv DEF Passes
<1>5. CASE /\ FailureGate(s, a) /\ BeginPass(s, a, "down")
           /\ ActorStep(s, a, "down", Notifiers, None, FALSE)
  BY <1>1, <1>2, <1>5, GateAnnounces, BeginAInv DEF Passes
<1> QED
  BY <1>3, <1>4, <1>5, GateStep DEF TypeOK

LEMMA RecordAInv ==
  ASSUME TypeOK, NEW s \in Services, NEW a \in Actors, AInv(s),
         RecordSuccess(s, a) \/ RecordFailure(s, a) \/ SetOnline(s, a)
  PROVE  AInv(s)'
<1>1. /\ prevOnline' = prevOnline /\ alerts' = alerts /\ recoveries' = recoveries
      /\ cut' = cut /\ crossed' = crossed
  BY DEF RecordSuccess, RecordFailure, SetOnline, historyVars
<1>2. PICK label \in PCs \ Passes : ActorStep(s, a, label, {}, None, FALSE)
  BY RecordStep DEF TypeOK
<1>3. pc[s][a] \notin Passes
  BY RecordStep DEF TypeOK
<1> QED
  BY <1>1, <1>2, <1>3, QuietAInv

LEMMA ActorAInvs ==
  ASSUME TypeOK, AInvs, NEW s \in Services, NEW a \in Actors,
         RecordSuccess(s, a) \/ RecordFailure(s, a) \/ Announce(s, a)
  PROVE  AInvs'
<1>1. AInv(s)
  BY DEF AInvs
<1>2. AInv(s)'
  <2>1. CASE RecordSuccess(s, a) \/ RecordFailure(s, a) \/ SetOnline(s, a)
    BY <1>1, <2>1, RecordAInv
  <2>2. CASE SuccessGate(s, a) \/ FailureGate(s, a)
    BY <1>1, <2>2, GateAInv
  <2>3. CASE EndUp(s, a) \/ EndDown(s, a) \/ \E n \in Notifiers : Fails(s, a, n)
    BY <1>1, <2>3, EndAInv
  <2>4. ASSUME NEW n \in Notifiers, CanSend(s, a, n) \/ Sent(s, a, n) PROVE AInv(s)'
    BY <1>1, <2>4, FewerAInv
  <2>5. ASSUME NEW n \in Notifiers, Tell(s, a, n) PROVE AInv(s)'
    BY <1>1, <2>5, TellAInv
  <2> QED
    BY <2>1, <2>2, <2>3, <2>4, <2>5 DEF Announce
<1>3. ASSUME NEW t \in Services, t # s PROVE AInv(t)'
  <2>1. AInv(t)
    BY DEF AInvs
  <2>2. Same(t)
    BY <1>3, OtherServices
  <2> QED
    BY <2>1, <2>2, SameAInv
<1> QED
  BY <1>2, <1>3 DEF AInvs

(* A process that starts has nothing under way. *)
LEMMA FreshAInvs ==
  ASSUME pc = Each("idle"), alerts = Nobody, recoveries = Nobody
  PROVE  AInvs
BY DEF Each, Nobody, AInvs, AInv, Apart, News, RecoveryIsNews, OutageIsNews, Settled, Passes

LEMMA AInvsNext == TypeOK /\ AInvs /\ [Next]_vars => AInvs'
<1> SUFFICES ASSUME TypeOK, AInvs, [Next]_vars PROVE AInvs'
  OBVIOUS
<1>1. ASSUME NEW s \in Services, NEW a \in Actors,
             RecordSuccess(s, a) \/ RecordFailure(s, a) \/ Announce(s, a)
      PROVE  AInvs'
  BY <1>1, ActorAInvs
<1>2. CASE (\E s \in Services : EditService(s)) \/ UNCHANGED vars
  <2>1. \A t \in Services : Same(t)
    BY <1>2 DEF EditService, vars, serviceVars, actorVars, historyVars, Same
  <2> QED
    BY <2>1, SameAInv DEF AInvs
<1>3. CASE Restart
  <2>1. pc' = Each("idle") /\ alerts' = Nobody /\ recoveries' = Nobody
    BY <1>3 DEF Restart
  <2> QED
    BY <2>1 DEF Each, Nobody, AInvs, AInv, Apart, News, RecoveryIsNews, OutageIsNews,
                Settled, Passes
<1> QED
  BY <1>1, <1>2, <1>3 DEF Next

LEMMA AlertsInductive == Spec => [](TypeOK /\ AInvs)
<1>1. Init => AInvs
  BY FreshAInvs DEF Init
<1> QED
  BY <1>1, AInvsNext, TypeOKInit, TypeOKNext, PTL DEF Spec

(* "Only notify one time when service hits an error": in every pass of     *)
(* sendFailure that does not cross another or an edit, whoever it is about *)
(* to tell has not been told of this outage; for any number of goroutines, *)
(* with edits of every kind, errors and restarts.                          *)
THEOREM AnnouncedOnce == Spec => []OneAlertPerOutage
<1>1. AInvs => OneAlertPerOutage
  BY DEF AInvs, AInv, News, OutageIsNews, OneAlertPerOutage, Ahead
<1> QED
  BY <1>1, AlertsInductive, PTL

(* A recovery is told again only after an OnSuccess that returned an error *)
(* ended the announcement before sendSuccess could note it.                *)
THEOREM RepeatTakesError == Spec => []RepeatNeedsError
<1>1. AInvs => RepeatNeedsError
  BY DEF AInvs, AInv, News, RecoveryIsNews, RepeatNeedsError, Ahead
<1> QED
  BY <1>1, AlertsInductive, PTL

-----------------------------------------------------------------------------
(* The delay of the first notice.                                          *)

(* The failures that sendFailure has yet to look at. *)
Waiting(t) == {a \in Actors : pc[t][a] = "failure"}
Resting(t) == \A a \in Actors : pc[t][a] \notin Passes

(* Until a failure too many, each has been counted once, or will be. *)
Delayed(t) ==
  \/ spurious[t] \/ failures[t] > NotifyAfter
  \/ /\ prevOnline[t] /\ Resting(t)
     /\ afterCount[t] + Cardinality(Waiting(t)) <= failures[t]

Delays == \A t \in Services : Delayed(t)

LEMMA WaitingCounted ==
  ASSUME NEW t
  PROVE  IsFiniteSet(Waiting(t)) /\ Cardinality(Waiting(t)) \in Nat
<1>1. Waiting(t) \in SUBSET Actors
  BY DEF Waiting
<1> QED
  BY <1>1, ActorsAssumption, FS_Subset, FS_CardinalityType

LEMMA DelayedFrame ==
  ASSUME NEW t \in Services, Delayed(t), pc'[t] = pc[t], prevOnline'[t] = prevOnline[t],
         afterCount'[t] = afterCount[t], failures'[t] = failures[t], spurious'[t] = spurious[t]
  PROVE  Delayed(t)'
BY DEF Delayed, Resting, Waiting

LEMMA DelayedRecord ==
  ASSUME TypeOK, NEW s \in Services, NEW a \in Actors, Delayed(s), RecordFailure(s, a)
  PROVE  Delayed(s)'
<1>1. /\ prevOnline' = prevOnline /\ afterCount' = afterCount /\ spurious' = spurious
      /\ pc[s][a] = "idle" /\ pc'[s][a] = "failure"
      /\ \A b \in Actors : b # a => pc'[s][b] = pc[s][b]
      /\ failures'[s] = UpTo(NotifyAfter + 1, failures[s] + 1)
  BY DEF RecordFailure, TypeOK, ActorTypes, HistoryTypes
<1>2. /\ failures[s] \in Nat /\ afterCount[s] \in Nat /\ NotifyAfter \in Nat
      /\ failures[s] \in 0..(NotifyAfter + 1)
  BY Numbers DEF TypeOK, ServiceTypes, HistoryTypes
<1>3. failures'[s] \in Nat /\ failures'[s] >= failures[s]
      /\ (failures'[s] = failures[s] + 1 \/ failures'[s] > NotifyAfter)
  BY <1>1, <1>2, Numbers
<1>4. Waiting(s)' = Waiting(s) \cup {a} /\ a \notin Waiting(s)
  BY <1>1 DEF Waiting
<1>5. Cardinality(Waiting(s))' = Cardinality(Waiting(s)) + 1
  BY <1>4, WaitingCounted, FS_AddElement
<1>6. Resting(s) => Resting(s)'
  BY <1>1 DEF Resting, Passes
<1> QED
  BY <1>1, <1>2, <1>3, <1>5, <1>6, WaitingCounted DEF Delayed

(* RecordSuccess, what CheckHttp does after it, and a step of a pass. *)
LEMMA DelayedPass ==
  ASSUME TypeOK, NEW s \in Services, NEW a \in Actors, Delayed(s),
         \/ RecordSuccess(s, a) \/ SetOnline(s, a) \/ EndUp(s, a) \/ EndDown(s, a)
         \/ \E n \in Notifiers :
              CanSend(s, a, n) \/ Tell(s, a, n) \/ Sent(s, a, n) \/ Fails(s, a, n)
  PROVE  Delayed(s)'
<1>1. failures' = failures /\ spurious' = spurious
  BY DEF RecordSuccess, SetOnline, EndUp, EndDown, CanSend, Tell, Sent, Fails, historyVars
<1>2. CASE spurious[s] \/ failures[s] > NotifyAfter
  BY <1>1, <1>2 DEF Delayed
<1>3. CASE Resting(s) /\ prevOnline[s] /\ afterCount[s] + Cardinality(Waiting(s)) <= failures[s]
  <2>1. RecordSuccess(s, a) \/ SetOnline(s, a)
    <3>1. pc[s][a] \notin Passes
      BY <1>3 DEF Resting
    <3>2. \A n \in Notifiers : sending[s][a] # n
      BY <3>1, NoneAssumption DEF TypeOK, ActorTypes
    <3> QED
      BY <3>1, <3>2 DEF EndUp, EndDown, CanSend, Tell, Sent, Fails, Passes
  <2>2. /\ prevOnline' = prevOnline /\ afterCount' = afterCount
        /\ pc[s][a] # "failure" /\ pc'[s][a] \notin {"failure", "up", "down"}
        /\ \A b \in Actors : b # a => pc'[s][b] = pc[s][b]
    BY <2>1 DEF RecordSuccess, SetOnline, TypeOK, ActorTypes
  <2>3. Waiting(s)' = Waiting(s) /\ Resting(s)'
    BY <1>3, <2>2 DEF Waiting, Resting, Passes
  <2> QED
    BY <1>1, <1>3, <2>2, <2>3 DEF Delayed
<1> QED
  BY <1>2, <1>3 DEF Delayed

LEMMA DelayedSuccess ==
  ASSUME TypeOK, NEW s \in Services, NEW a \in Actors, Delayed(s), SuccessGate(s, a)
  PROVE  Delayed(s)'
<1>1. /\ failures' = failures /\ prevOnline' = prevOnline /\ afterCount' = afterCount
      /\ pc[s][a] = "success"
  BY DEF SuccessGate, serviceVars
<1>2. CASE BeginPass(s, a, "up")
  <2>1. spurious[s] => spurious'[s]
    BY DEF SuccessGate, TypeOK, HistoryTypes
  <2>2. prevOnline[s] => spurious'[s]
    <3>1. ~Back(s, a)
      BY <1>2 DEF BeginPass, Back, TypeOK, ActorTypes
    <3> QED
      BY <3>1 DEF SuccessGate, TypeOK, HistoryTypes
  <2> QED
    BY <1>1, <2>1, <2>2 DEF Delayed
<1>3. CASE Back(s, a) /\ spurious' = spurious
  <2>1. /\ pc'[s][a] \in {"http", "idle"}
        /\ \A b \in Actors : b # a => pc'[s][b] = pc[s][b]
    BY <1>3 DEF Back, TypeOK, ActorTypes
  <2>2. Waiting(s)' = Waiting(s) /\ (Resting(s) => Resting(s)')
    BY <1>1, <2>1 DEF Waiting, Resting, Passes
  <2> QED
    BY <1>1, <1>3, <2>2 DEF Delayed
<1> QED
  BY <1>2, <1>3 DEF SuccessGate

LEMMA DelayedFailure ==
  ASSUME TypeOK, NEW s \in Services, NEW a \in Actors, Delayed(s), FailureGate(s, a)
  PROVE  Delayed(s)'
<1>1. /\ failures' = failures /\ prevOnline' = prevOnline /\ spurious' = spurious
      /\ pc[s][a] = "failure" /\ pc'[s][a] \in {"idle", "down"}
      /\ \A b \in Actors : b # a => pc'[s][b] = pc[s][b]
  BY DEF FailureGate, BeginPass, TypeOK, ActorTypes
<1>2. /\ failures[s] \in Nat /\ afterCount[s] \in 0..NotifyAfter /\ NotifyAfter \in Nat
  BY Numbers DEF TypeOK, ServiceTypes, HistoryTypes
<1>3. Waiting(s)' = Waiting(s) \ {a} /\ a \in Waiting(s)
  BY <1>1 DEF Waiting
<1>4. /\ Cardinality(Waiting(s))' = Cardinality(Waiting(s)) - 1
      /\ Cardinality(Waiting(s)) \in Nat /\ Cardinality(Waiting(s)) > 0
  <2>1. Cardinality(Waiting(s))' = Cardinality(Waiting(s)) - 1
    BY <1>3, WaitingCounted, FS_RemoveElement
  <2>2. Cardinality(Waiting(s)') \in Nat
    BY <1>3, WaitingCounted, FS_Subset, FS_CardinalityType
  <2> QED
    BY <2>1, <2>2, WaitingCounted
<1>5. CASE pc'[s][a] = "down"
  <2>1. afterCount[s] >= NotifyAfter
    BY <1>5 DEF FailureGate, TypeOK, ActorTypes
  <2> QED
    BY <1>1, <1>2, <1>4, <2>1 DEF Delayed
<1>6. CASE pc'[s][a] = "idle"
  <2>1. afterCount'[s] \in Nat /\ afterCount'[s] <= afterCount[s] + 1
    <3>1. CASE CountNotify(s)
      BY <1>2, <3>1, CountTypes, Numbers DEF TypeOK
    <3>2. CASE afterCount' = afterCount
      BY <1>2, <3>2
    <3> QED
      BY <3>1, <3>2 DEF FailureGate
  <2>2. Resting(s) => Resting(s)'
    BY <1>1, <1>6 DEF Resting, Passes
  <2> QED
    BY <1>1, <1>2, <1>4, <2>1, <2>2 DEF Delayed
<1> QED
  BY <1>1, <1>5, <1>6

LEMMA FreshDelays ==
  \A s \in Services : Cardinality({a \in Actors : Each("idle")[s][a] = "failure"}) = 0
<1> SUFFICES ASSUME NEW s \in Services
             PROVE  Cardinality({a \in Actors : Each("idle")[s][a] = "failure"}) = 0
  OBVIOUS
<1>1. {a \in Actors : Each("idle")[s][a] = "failure"} = {}
  BY DEF Each
<1> QED
  BY <1>1, FS_EmptySet

LEMMA DelaysNext == TypeOK /\ Delays /\ [Next]_vars => Delays'
<1> SUFFICES ASSUME TypeOK, Delays, [Next]_vars, NEW t \in Services PROVE Delayed(t)'
  BY DEF Delays
<1>0. Delayed(t)
  BY DEF Delays
<1>1. ASSUME NEW s \in Services, NEW a \in Actors,
             RecordSuccess(s, a) \/ RecordFailure(s, a) \/ Announce(s, a)
      PROVE  Delayed(t)'
  <2>1. CASE t = s
    <3>1. CASE RecordFailure(s, a)
      BY <1>0, <2>1, <3>1, DelayedRecord
    <3>2. CASE SuccessGate(s, a)
      BY <1>0, <2>1, <3>2, DelayedSuccess
    <3>3. CASE FailureGate(s, a)
      BY <1>0, <2>1, <3>3, DelayedFailure
    <3>4. CASE \/ RecordSuccess(s, a) \/ SetOnline(s, a) \/ EndUp(s, a) \/ EndDown(s, a)
               \/ \E n \in Notifiers :
                    CanSend(s, a, n) \/ Tell(s, a, n) \/ Sent(s, a, n) \/ Fails(s, a, n)
      BY <1>0, <2>1, <3>4, DelayedPass
    <3> QED
      BY <1>1, <3>1, <3>2, <3>3, <3>4 DEF Announce
  <2>2. CASE t # s
    BY <1>0, <1>1, <2>2, OtherServices, DelayedFrame DEF Same
  <2> QED
    BY <2>1, <2>2
<1>2. CASE (\E s \in Services : EditService(s)) \/ UNCHANGED vars
  BY <1>0, <1>2, DelayedFrame DEF EditService, vars, serviceVars, actorVars, historyVars
<1>3. CASE Restart
  <2>1. pc' = Each("idle") /\ prevOnline' = Yes /\ afterCount' = Zero /\ failures' = Zero
    BY <1>3 DEF Restart
  <2>2. Cardinality(Waiting(t))' = 0
    BY <2>1, FreshDelays DEF Waiting
  <2>3. prevOnline'[t] /\ Resting(t)' /\ afterCount'[t] = 0 /\ failures'[t] = 0
    BY <2>1 DEF Yes, Zero, Each, Resting, Passes
  <2> QED
    BY <2>2, <2>3 DEF Delayed
<1> QED
  BY <1>1, <1>2, <1>3 DEF Next

LEMMA DelaysInit == Init => Delays
<1> SUFFICES ASSUME Init, NEW t \in Services PROVE Delayed(t)
  BY DEF Delays
<1>1. Cardinality(Waiting(t)) = 0
  BY FreshDelays DEF Init, Waiting
<1>2. prevOnline[t] /\ Resting(t) /\ afterCount[t] = 0 /\ failures[t] = 0
  BY DEF Init, Yes, Zero, Each, Resting, Passes
<1> QED
  BY <1>1, <1>2 DEF Delayed

(* notify_after: the first pass of sendFailure in a process comes after    *)
(* more than NotifyAfter failures, however many goroutines record them     *)
(* and whatever is edited meanwhile.                                       *)
THEOREM FirstAlertWaits == Spec => []FirstAlertDelayed
<1>1. TypeOK /\ Delays => FirstAlertDelayed
  BY DEF Delays, Delayed, Resting, Passes, FirstAlertDelayed
<1> QED
  BY <1>1, DelaysInit, DelaysNext, TypeOKInit, TypeOKNext, PTL DEF Spec

-----------------------------------------------------------------------------
(* Notices keep the promise of Outages.                                    *)

PhaseMap == [t \in Services |-> Phase(t)]

LEMMA PhaseTypes == \A t \in Services : Phase(t) \in Promise!Phases
BY DEF Phase, Promise!Phases

LEMMA PhaseAtRest ==
  ASSUME NEW t \in Services, \A b \in Actors : pc[t][b] \notin Passes
  PROVE  Phase(t) = IF prevOnline[t] THEN "well" ELSE "ill"
BY DEF Phase, Passes

LEMMA PhaseInPass ==
  ASSUME NEW t \in Services, NEW a \in Actors, Apart(t), ~crossed[t]
  PROVE  /\ pc[t][a] = "up" => Phase(t) = "rising"
         /\ pc[t][a] = "down" => Phase(t) = "falling"
BY DEF Phase, Apart, Passes

(* A step of a goroutine of s changes what Outages sees only at s. *)
LEMMA SeenChanges ==
  ASSUME TypeOK, TypeOK', NEW s \in Services, NEW a \in Actors,
         RecordSuccess(s, a) \/ RecordFailure(s, a) \/ Announce(s, a)
  PROVE  /\ PhaseMap' = [PhaseMap EXCEPT ![s] = Phase(s)']
         /\ alerts' = [alerts EXCEPT ![s] = alerts'[s]]
         /\ recoveries' = [recoveries EXCEPT ![s] = recoveries'[s]]
         /\ cut' = [cut EXCEPT ![s] = cut'[s]]
         /\ crossed' = [crossed EXCEPT ![s] = crossed'[s]]
<1>1. \A t \in Services : t # s => Same(t)
  BY OtherServices
<1>2. \A t \in Services : t # s => Phase(t)' = Phase(t)
  BY <1>1 DEF Same, Phase
<1>3. PhaseMap' = [PhaseMap EXCEPT ![s] = Phase(s)']
  BY <1>2 DEF PhaseMap
<1>4. alerts' = [alerts EXCEPT ![s] = alerts'[s]]
  BY <1>1 DEF Same, TypeOK, HistoryTypes
<1>5. recoveries' = [recoveries EXCEPT ![s] = recoveries'[s]]
  BY <1>1 DEF Same, TypeOK, HistoryTypes
<1>6. cut' = [cut EXCEPT ![s] = cut'[s]]
  BY <1>1 DEF Same, TypeOK, HistoryTypes
<1>7. crossed' = [crossed EXCEPT ![s] = crossed'[s]]
  BY <1>1 DEF Same, TypeOK, HistoryTypes
<1> QED
  BY <1>3, <1>4, <1>5, <1>6, <1>7

(* Only the last of the passes that crossed puts an end to it. *)
LEMMA Uncrossed ==
  ASSUME TypeOK, NEW s \in Services, NEW a \in Actors,
         RecordSuccess(s, a) \/ RecordFailure(s, a) \/ Announce(s, a),
         crossed[s], ~crossed'[s]
  PROVE  \A b \in Actors : pc'[s][b] \notin Passes
<1>1. \/ EndUp(s, a) \/ EndDown(s, a)
      \/ \E n \in Notifiers : Fails(s, a, n)
  <2>1. CASE SuccessGate(s, a) \/ FailureGate(s, a)
    BY <2>1 DEF SuccessGate, FailureGate, BeginPass, TypeOK, HistoryTypes
  <2>2. CASE \/ RecordSuccess(s, a) \/ RecordFailure(s, a) \/ SetOnline(s, a)
             \/ \E n \in Notifiers : CanSend(s, a, n) \/ Tell(s, a, n) \/ Sent(s, a, n)
    BY <2>2 DEF RecordSuccess, RecordFailure, SetOnline, CanSend, Tell, Sent, historyVars
  <2> QED
    BY <2>1, <2>2 DEF Announce
<1>2. PICK label \in PCs \ Passes : ActorStep(s, a, label, {}, None, FALSE)
  BY <1>1, EndStep DEF TypeOK
<1>3. pc'[s][a] = label /\ \A b \in Actors : b # a => pc'[s][b] = pc[s][b]
  BY <1>2 DEF ActorStep, TypeOK, ActorTypes
<1>4. Alone(s, a)
  BY <1>1, EndStep DEF TypeOK, HistoryTypes
<1> QED
  BY <1>3, <1>4 DEF Alone

LEMMA StrayPromised ==
  ASSUME TypeOK, TypeOK', AInvs', NEW s \in Services, NEW a \in Actors,
         RecordSuccess(s, a) \/ RecordFailure(s, a) \/ Announce(s, a),
         crossed[s] \/ crossed'[s]
  PROVE  Promise!Stray(s)
<1>1. /\ \E p \in Promise!Phases : PhaseMap' = [PhaseMap EXCEPT ![s] = p]
      /\ \E who \in SUBSET Notifiers : alerts' = [alerts EXCEPT ![s] = who]
      /\ \E who \in SUBSET Notifiers : recoveries' = [recoveries EXCEPT ![s] = who]
      /\ \E v \in BOOLEAN : cut' = [cut EXCEPT ![s] = v]
      /\ \E v \in BOOLEAN : crossed' = [crossed EXCEPT ![s] = v]
  <2>1. Phase(s)' \in Promise!Phases
    BY DEF Phase, Promise!Phases
  <2>2. /\ alerts'[s] \in SUBSET Notifiers /\ recoveries'[s] \in SUBSET Notifiers
        /\ cut'[s] \in BOOLEAN /\ crossed'[s] \in BOOLEAN
    BY DEF TypeOK, HistoryTypes
  <2> QED
    BY <2>1, <2>2, SeenChanges
<1>2. \/ crossed'[s]
      \/ PhaseMap'[s] = "well" /\ alerts'[s] = {}
      \/ PhaseMap'[s] = "ill" /\ (recoveries'[s] = {} \/ cut'[s])
  <2> SUFFICES ASSUME ~crossed'[s]
               PROVE  \/ PhaseMap'[s] = "well" /\ alerts'[s] = {}
                      \/ PhaseMap'[s] = "ill" /\ (recoveries'[s] = {} \/ cut'[s])
    OBVIOUS
  <2>1. \A b \in Actors : pc'[s][b] \notin Passes
    BY Uncrossed
  <2>2. Phase(s)' = IF prevOnline'[s] THEN "well" ELSE "ill"
    BY <2>1 DEF Phase, Passes
  <2>3. \A b \in Actors : pc'[s][b] # "up" /\ pc'[s][b] # "down"
    BY <2>1 DEF Passes
  <2>4. IF prevOnline'[s] THEN alerts'[s] = {} ELSE recoveries'[s] = {} \/ cut'[s]
    BY <2>3 DEF AInvs, AInv, Settled
  <2> QED
    BY <2>2, <2>4 DEF PhaseMap
<1> QED
  BY <1>1, <1>2 DEF Promise!Stray, Promise!Enter, PhaseMap

LEMMA QuietPromised ==
  ASSUME TypeOK, TypeOK', NEW s \in Services, NEW a \in Actors, ~crossed[s], ~crossed'[s],
         \/ RecordSuccess(s, a) \/ RecordFailure(s, a) \/ SetOnline(s, a)
         \/ \E n \in Notifiers : CanSend(s, a, n) \/ Sent(s, a, n)
  PROVE  UNCHANGED <<PhaseMap, alerts, recoveries, cut, crossed>>
<1>1. UNCHANGED <<prevOnline, alerts, recoveries, cut, crossed>>
  BY DEF RecordSuccess, RecordFailure, SetOnline, CanSend, Sent, serviceVars, historyVars
<1>2. \A t \in Services, b \in Actors :
        /\ pc'[t][b] = "up" <=> pc[t][b] = "up"
        /\ pc'[t][b] = "down" <=> pc[t][b] = "down"
  <2>1. CASE \E n \in Notifiers : CanSend(s, a, n) \/ Sent(s, a, n)
    BY <2>1 DEF CanSend, Sent
  <2>2. CASE RecordSuccess(s, a) \/ RecordFailure(s, a) \/ SetOnline(s, a)
    <3>1. /\ pc[s][a] \notin Passes
          /\ \E label \in {"success", "failure", "idle"} : pc' = [pc EXCEPT ![s][a] = label]
      BY <2>2 DEF RecordSuccess, RecordFailure, SetOnline, Passes
    <3> QED
      BY <3>1 DEF TypeOK, ActorTypes, Passes
  <2> QED
    BY <2>1, <2>2
<1>3. \A t \in Services : Phase(t)' = Phase(t)
  BY <1>1, <1>2 DEF Phase
<1> QED
  BY <1>1, <1>3 DEF PhaseMap

LEMMA GatePromised ==
  ASSUME TypeOK, TypeOK', AInvs, AInvs',
         NEW s \in Services, NEW a \in Actors, ~crossed[s], ~crossed'[s],
         SuccessGate(s, a) \/ FailureGate(s, a)
  PROVE  \/ Promise!Announce(s)
         \/ UNCHANGED <<PhaseMap, alerts, recoveries, cut, crossed>>
<1>1. UNCHANGED <<online, prevOnline, alerts, recoveries, cut>>
  BY DEF SuccessGate, FailureGate, serviceVars
<1>2. pc[s][a] \notin Passes
  BY GateStep DEF TypeOK
<1>3. crossed' = crossed
  BY SeenChanges DEF Announce, TypeOK, HistoryTypes
<1>4. PhaseMap' = [PhaseMap EXCEPT ![s] = Phase(s)']
  BY SeenChanges DEF Announce
<1>5. Apart(s)'
  BY DEF AInvs, AInv
<1>6. ASSUME NEW label \in PCs \ Passes, ActorStep(s, a, label, {}, None, FALSE)
      PROVE  UNCHANGED <<PhaseMap, alerts, recoveries, cut, crossed>>
  <2>1. \A t \in Services, b \in Actors :
          /\ pc'[t][b] = "up" <=> pc[t][b] = "up"
          /\ pc'[t][b] = "down" <=> pc[t][b] = "down"
    BY <1>2, <1>6 DEF ActorStep, TypeOK, ActorTypes, Passes
  <2>2. \A t \in Services : Phase(t)' = Phase(t)
    BY <1>1, <2>1 DEF Phase
  <2> QED
    BY <1>1, <1>3, <2>2 DEF PhaseMap
<1>7. ASSUME NEW label \in Passes, BeginPass(s, a, label),
             ActorStep(s, a, label, Notifiers, None, FALSE)
      PROVE  /\ pc'[s][a] = label /\ (online[s] <=> label = "up")
             /\ PhaseMap[s] = IF prevOnline[s] THEN "well" ELSE "ill"
  <2>1. Alone(s, a) /\ (online[s] <=> label = "up")
    BY <1>7 DEF BeginPass, TypeOK, HistoryTypes
  <2>2. \A b \in Actors : pc[s][b] \notin Passes
    BY <1>2, <2>1 DEF Alone
  <2>3. pc'[s][a] = label
    BY <1>7 DEF ActorStep, TypeOK, ActorTypes
  <2> QED
    BY <2>1, <2>2, <2>3, PhaseAtRest DEF PhaseMap
<1>8. CASE /\ SuccessGate(s, a) /\ BeginPass(s, a, "up")
           /\ ActorStep(s, a, "up", Notifiers, None, FALSE)
  <2>1. pc'[s][a] = "up" /\ online[s] /\ PhaseMap[s] = IF prevOnline[s] THEN "well" ELSE "ill"
    BY <1>7, <1>8 DEF Passes
  <2>2. ~prevOnline[s]
    BY <1>8, <2>1, GateAnnounces
  <2>3. Phase(s)' = "rising"
    BY <1>5, <2>1 DEF Phase, Apart, Passes
  <2>4. Promise!Rise(s)
    BY <1>1, <1>4, <2>1, <2>2, <2>3 DEF Promise!Rise, Promise!Enter, PhaseMap
  <2> QED
    BY <1>3, <2>4 DEF Promise!Announce
<1>9. CASE /\ FailureGate(s, a) /\ BeginPass(s, a, "down")
           /\ ActorStep(s, a, "down", Notifiers, None, FALSE)
  <2>1. pc'[s][a] = "down" /\ ~online[s] /\ PhaseMap[s] = IF prevOnline[s] THEN "well" ELSE "ill"
    BY <1>7, <1>9 DEF Passes
  <2>2. prevOnline[s] \/ UpdateNotify
    BY <1>9, <2>1, GateAnnounces
  <2>3. Phase(s)' = "falling"
    BY <2>1 DEF Phase
  <2>4. Promise!Fall(s)
    BY <1>1, <1>4, <2>1, <2>2, <2>3 DEF Promise!Fall, Promise!Enter, PhaseMap
  <2> QED
    BY <1>3, <2>4 DEF Promise!Announce
<1> QED
  BY <1>6, <1>8, <1>9, GateStep DEF TypeOK

LEMMA TellPromised ==
  ASSUME TypeOK, TypeOK', AInvs, NEW s \in Services, NEW a \in Actors, NEW n \in Notifiers,
         ~crossed[s], Tell(s, a, n)
  PROVE  Promise!Announce(s)
<1>1. pc' = pc /\ prevOnline' = prevOnline /\ cut' = cut /\ crossed' = crossed
      /\ Telling(s, a, n)
  BY DEF Tell, Telling, serviceVars
<1>2. PhaseMap' = PhaseMap
  BY <1>1 DEF PhaseMap, Phase
<1>3. RecoveryIsNews(s, a) /\ OutageIsNews(s, a) /\ Apart(s)
  BY DEF AInvs, AInv, News
<1>4. CASE pc[s][a] = "up"
  <2>1. PhaseMap[s] = "rising"
    BY <1>3, <1>4, PhaseInPass DEF PhaseMap
  <2>2. n \notin recoveries[s] \/ cut[s]
    BY <1>1, <1>3, <1>4 DEF RecoveryIsNews, Ahead
  <2>3. Promise!TellBetter(s, n)
    BY <1>1, <1>2, <1>4, <2>1, <2>2 DEF Tell, Promise!TellBetter, PhaseMap
  <2> QED
    BY <1>1, <2>3 DEF Promise!Announce
<1>5. CASE pc[s][a] = "down"
  <2>1. PhaseMap[s] = "falling"
    BY <1>3, <1>5, PhaseInPass DEF PhaseMap
  <2>2. n \notin alerts[s] \/ UpdateNotify
    BY <1>1, <1>3, <1>5 DEF OutageIsNews, Ahead
  <2>3. Promise!TellIll(s, n)
    BY <1>1, <1>2, <1>5, <2>1, <2>2 DEF Tell, Promise!TellIll, PhaseMap
  <2> QED
    BY <1>1, <2>3 DEF Promise!Announce
<1> QED
  BY <1>4, <1>5 DEF Tell

LEMMA EndPromised ==
  ASSUME TypeOK, TypeOK', AInvs, NEW s \in Services, NEW a \in Actors, ~crossed[s],
         \/ EndUp(s, a) \/ EndDown(s, a)
         \/ \E n \in Notifiers : Fails(s, a, n)
  PROVE  Promise!Announce(s)
<1>1. PhaseMap' = [PhaseMap EXCEPT ![s] = Phase(s)']
  BY SeenChanges DEF Announce
<1>2. crossed' = crossed
  <2>1. ~crossed'[s]
    BY EndStep DEF TypeOK, HistoryTypes
  <2> QED
    BY <2>1, SeenChanges DEF Announce, TypeOK, HistoryTypes
<1>3. Apart(s) /\ RecoveryIsNews(s, a)
  BY DEF AInvs, AInv, News
<1>4. \A b \in Actors : pc'[s][b] \notin Passes
  <2>1. PICK label \in PCs \ Passes : ActorStep(s, a, label, {}, None, FALSE)
    BY EndStep DEF TypeOK
  <2>2. pc'[s][a] = label /\ \A b \in Actors : b # a => pc'[s][b] = pc[s][b]
    BY <2>1 DEF ActorStep, TypeOK, ActorTypes
  <2>3. pc[s][a] \in Passes
    BY EndStep DEF TypeOK
  <2> QED
    BY <1>3, <2>2, <2>3 DEF Apart
<1>5. Phase(s)' = IF prevOnline'[s] THEN "well" ELSE "ill"
  BY <1>4 DEF Phase, Passes
<1>6. CASE EndUp(s, a)
  <2>1. PhaseMap[s] = "rising"
    BY <1>3, <1>6, PhaseInPass DEF EndUp, PhaseMap
  <2>2. prevOnline'[s] = TRUE
    BY <1>6 DEF EndUp, TypeOK, ServiceTypes
  <2>3. Promise!Risen(s)
    BY <1>1, <1>5, <1>6, <2>1, <2>2 DEF EndUp, Promise!Risen, Promise!Enter, PhaseMap
  <2> QED
    BY <1>2, <2>3 DEF Promise!Announce
<1>7. CASE EndDown(s, a)
  <2>1. PhaseMap[s] = "falling"
    BY <1>3, <1>7, PhaseInPass DEF EndDown, PhaseMap
  <2>2. prevOnline'[s] = FALSE
    BY <1>7 DEF EndDown, TypeOK, ServiceTypes
  <2>3. Promise!Fallen(s)
    BY <1>1, <1>5, <1>7, <2>1, <2>2 DEF EndDown, Promise!Fallen, Promise!Enter, PhaseMap
  <2> QED
    BY <1>2, <2>3 DEF Promise!Announce
<1>8. ASSUME NEW n \in Notifiers, Fails(s, a, n)
      PROVE  Promise!Announce(s)
  <2>1. PhaseMap[s] = "rising"
    BY <1>3, <1>8, PhaseInPass DEF Fails, PhaseMap
  <2>2. ~prevOnline'[s]
    BY <1>3, <1>8 DEF Fails, serviceVars, RecoveryIsNews
  <2>3. Promise!Break(s)
    BY <1>1, <1>5, <1>8, <2>1, <2>2 DEF Fails, Promise!Break, Promise!Enter, PhaseMap
  <2> QED
    BY <1>2, <2>3 DEF Promise!Announce
<1> QED
  BY <1>6, <1>7, <1>8

LEMMA NextPromised ==
  TypeOK /\ TypeOK' /\ AInvs /\ AInvs' /\ [Next]_vars => [Promise!Next]_(Promise!vars)
<1> SUFFICES ASSUME TypeOK, TypeOK', AInvs, AInvs', [Next]_vars
             PROVE  [Promise!Next]_(Promise!vars)
  OBVIOUS
<1>1. ASSUME NEW s \in Services, NEW a \in Actors,
             RecordSuccess(s, a) \/ RecordFailure(s, a) \/ Announce(s, a)
      PROVE  [Promise!Next]_(Promise!vars)
  <2>1. CASE crossed[s] \/ crossed'[s]
    BY <1>1, <2>1, StrayPromised DEF Promise!Next
  <2>2. CASE ~crossed[s] /\ ~crossed'[s]
    <3>1. \/ Promise!Announce(s)
          \/ UNCHANGED <<PhaseMap, alerts, recoveries, cut, crossed>>
      <4>1. CASE \/ RecordSuccess(s, a) \/ RecordFailure(s, a) \/ SetOnline(s, a)
                 \/ \E n \in Notifiers : CanSend(s, a, n) \/ Sent(s, a, n)
        BY <2>2, <4>1, QuietPromised
      <4>2. CASE SuccessGate(s, a) \/ FailureGate(s, a)
        BY <2>2, <4>2, GatePromised
      <4>3. CASE \E n \in Notifiers : Tell(s, a, n)
        BY <2>2, <4>3, TellPromised
      <4>4. CASE EndUp(s, a) \/ EndDown(s, a) \/ \E n \in Notifiers : Fails(s, a, n)
        BY <2>2, <4>4, EndPromised
      <4> QED
        BY <1>1, <4>1, <4>2, <4>3, <4>4 DEF Announce
    <3> QED
      BY <3>1 DEF Promise!Next, Promise!vars, PhaseMap
  <2> QED
    BY <2>1, <2>2
<1>2. CASE (\E s \in Services : EditService(s)) \/ UNCHANGED vars
  <2>1. UNCHANGED <<pc, prevOnline, alerts, recoveries, cut, crossed>>
    BY <1>2 DEF EditService, vars, serviceVars, actorVars, historyVars
  <2> QED
    BY <2>1 DEF Promise!vars, Phase
<1>3. CASE Restart
  <2>1. Promise!Restart
    BY <1>3 DEF Restart, Promise!Restart, Phase, Each, Yes, No, Nobody
  <2> QED
    BY <2>1 DEF Promise!Next
<1> QED
  BY <1>1, <1>2, <1>3 DEF Next

LEMMA InitPromised == Init => Promise!Init
BY DEF Init, Promise!Init, Phase, Each, Yes, No, Nobody

(* What notifiers are told keeps the promise of Outages: an outage and its *)
(* end are announced in turns and to nobody twice, though sendSuccess and  *)
(* sendFailure set prevOnline only after the last send, and errors, edits, *)
(* restarts and other goroutines come between; and after passes that       *)
(* crossed, for which nothing is promised, the next one is in order again. *)
THEOREM AnnouncedInTurn == Spec => KeepsPromise
<1>1. TypeOK /\ AInvs /\ (TypeOK /\ AInvs)' /\ [Next]_vars => [Promise!Next]_(Promise!vars)
  BY NextPromised
<1> QED
  BY <1>1, InitPromised, AlertsInductive, PTL DEF Spec, KeepsPromise, Promise!Spec

=============================================================================
