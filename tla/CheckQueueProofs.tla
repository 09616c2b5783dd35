--------------------------- MODULE CheckQueueProofs ---------------------------
(***************************************************************************)
(* Proofs about CheckQueue, for any sets of services and requests.         *)
(*                                                                         *)
(* Monitored is inductive together with TypeOK.  What carries it: the only *)
(* step that closes a channel closes s.Running, and the request that takes *)
(* it is then either a DELETE, which makes the service abandoned, or about *)
(* to respawn; and a goroutine inside Start ends with an open channel,     *)
(* because a new one has a number no closed channel has.                   *)
(***************************************************************************)
EXTENDS CheckQueue, TLAPS

LEMMA TypeOKInit == Init => TypeOK
BY BootAssumption DEF Init, TypeOK, Spawners, LoopPCs, RequestPCs, Working, Ops

LEMMA TypeOKNext == TypeOK /\ [Next]_vars => TypeOK'
<1> SUFFICES ASSUME TypeOK, [Next]_vars PROVE TypeOK'
  OBVIOUS
<1> USE DEF TypeOK, LoopPCs, RequestPCs, Working, Ops, serviceVars, channelVars,
            loopVars, requestVars, historyVars, Goto, Begin, End, Record
<1>1. ASSUME NEW b \in Spawners, NEW s \in Services, Loop(b, s)
      PROVE  TypeOK'
  <2>1. CASE LoopStart(b, s)
    BY <2>1 DEF LoopStart
  <2>2. CASE LoopMake(b, s)
    BY <2>2 DEF LoopMake
  <2>3. CASE LoopEnter(b, s)
    BY <2>3 DEF LoopEnter
  <2>4. CASE LoopStop(b, s)
    BY <2>4 DEF LoopStop
  <2>5. CASE LoopTimer(b, s)
    BY <2>5 DEF LoopTimer
  <2>6. CASE LoopCheck(b, s)
    BY <2>6 DEF LoopCheck
  <2> QED
    BY <1>1, <2>1, <2>2, <2>3, <2>4, <2>5, <2>6 DEF Loop
<1>2. ASSUME NEW r \in Requests, RequestBegin(r)
      PROVE  TypeOK'
  <2>1. CASE \E s \in Services, what \in {"update", "delete"} :
               BeginUpdateOrDelete(r, s, what)
    BY <2>1 DEF BeginUpdateOrDelete
  <2>2. CASE \E s \in Services : BeginPatch(r, s)
    BY <2>2 DEF BeginPatch
  <2>3. CASE \E s \in Services : BeginCreate(r, s)
    <3>1. PICK s \in Services : BeginCreate(r, s)
      BY <2>3
    <3>2. rpc' \in [Requests -> RequestPCs] /\ op' \in [Requests -> Ops \cup {"none"}]
      BY <3>1 DEF BeginCreate
    <3>3. CASE Begin(r, "create", s, "spawn") /\ UNCHANGED abandoned
      BY <3>1, <3>2, <3>3 DEF BeginCreate
    <3>4. CASE Begin(r, "create", None, "done") /\ abandoned' = abandoned \cup {s}
      BY <3>1, <3>2, <3>4 DEF BeginCreate
    <3> QED
      BY <3>1, <3>3, <3>4 DEF BeginCreate
  <2>4. CASE \E s \in Services : BeginClear(r, s)
    BY <2>4 DEF BeginClear
  <2>5. CASE \E list \in SUBSET (Services \cup {None}) \ {{}} : BeginReorder(r, list)
    BY <2>5 DEF BeginReorder
  <2> QED
    BY <1>2, <2>1, <2>2, <2>3, <2>4, <2>5 DEF RequestBegin
<1>3. ASSUME NEW r \in Requests, RequestStep(r)
      PROVE  TypeOK'
  <2>1. CASE \E s \in Services \cup {None} : ReorderNext(r, s)
    <3>1. PICK s \in Services \cup {None} : ReorderNext(r, s)
      BY <2>1
    <3>2. CASE s \in registered
      <4>1. /\ rpc' = [rpc EXCEPT ![r] = "isrunning"]
            /\ svc' = [svc EXCEPT ![r] = s]
            /\ todo' = [todo EXCEPT ![r] = @ \ {s}]
            /\ op' = op
        BY <3>1, <3>2 DEF ReorderNext
      <4> s \in Services
        BY <3>2
      <4>2. \A q \in Requests : rpc'[q] \in Working => svc'[q] \in Services
        BY <4>1
      <4>3. /\ rpc' \in [Requests -> RequestPCs]
            /\ svc' \in [Requests -> Services \cup {None}]
            /\ todo' \in [Requests -> SUBSET (Services \cup {None})]
        BY <4>1
      <4> QED
        BY <3>1, <4>1, <4>2, <4>3 DEF ReorderNext
    <3>3. CASE s \notin registered
      BY ZenonT(40), <3>1, <3>3 DEF ReorderNext
    <3> QED
      BY <3>2, <3>3
  <2>2. CASE CloseTest(r)
    <3>1. /\ rpc' \in [Requests -> RequestPCs] /\ abandoned' \in SUBSET Services
          /\ \A q \in Requests : rpc'[q] \in Working => svc'[q] \in Services
      BY <2>2 DEF CloseTest, AfterClose
    <3>2. \A q \in Requests : rpc'[q] = "close" => running'[svc'[q]] # 0
      BY <2>2 DEF CloseTest, AfterClose, IsRunning
    <3> QED
      BY <2>2, <3>1, <3>2 DEF CloseTest
  <2>3. CASE CloseChannel(r)
    <3>1. closed' \in [Services -> SUBSET Nat]
      BY <2>3 DEF CloseChannel
    <3>2. \A s \in Services : \A c \in closed'[s] : c # 0 /\ c <= running'[s]
      BY <2>3 DEF CloseChannel
    <3>3. /\ rpc' \in [Requests -> RequestPCs] /\ abandoned' \in SUBSET Services
          /\ \A q \in Requests : rpc'[q] \in Working => svc'[q] \in Services
      BY ZenonT(40), <2>3 DEF CloseChannel, AfterClose
    <3>4. \A q \in Requests : rpc'[q] = "close" => running'[svc'[q]] # 0
      BY <2>3 DEF CloseChannel, AfterClose
    <3> QED
      BY <2>3, <3>1, <3>2, <3>3, <3>4 DEF CloseChannel
  <2>4. CASE ClosePanics(r)
    BY <2>4 DEF ClosePanics
  <2>5. CASE UpdateRegister(r)
    BY <2>5 DEF UpdateRegister
  <2>6. CASE SpawnLoop(r)
    <3>1. r \in Spawners /\ svc[r] \in Services
      BY <2>6 DEF SpawnLoop, Spawners
    <3>2. lpc' \in [Spawners -> [Services -> LoopPCs]]
      BY <2>6, <3>1 DEF SpawnLoop
    <3>3. probe' \in [Requests -> Services \cup {None}]
      BY <2>6, <3>1 DEF SpawnLoop
    <3>4. CASE todo[r] = {} /\ End(r, "done")
      BY <2>6, <3>2, <3>3, <3>4 DEF SpawnLoop
    <3>5. CASE todo[r] # {} /\ Goto(r, "next") /\ UNCHANGED <<op, svc, todo>>
      BY <2>6, <3>2, <3>3, <3>5 DEF SpawnLoop
    <3> QED
      BY <2>6, <3>4, <3>5 DEF SpawnLoop
  <2>7. CASE DeletePurge(r)
    BY ZenonT(40), <2>7 DEF DeletePurge
  <2>8. CASE DeleteUnregister(r)
    BY <2>8 DEF DeleteUnregister
  <2> QED
    BY <1>3, <2>1, <2>2, <2>3, <2>4, <2>5, <2>6, <2>7, <2>8 DEF RequestStep
<1>4. ASSUME NEW r \in Requests, ProbeCheck(r)
      PROVE  TypeOK'
  BY <1>4 DEF ProbeCheck
<1>5. CASE UNCHANGED vars
  BY <1>5 DEF vars
<1> QED
  BY <1>1, <1>2, <1>3, <1>4, <1>5 DEF Next

(* Type correctness: in particular no channel is closed before it is made. *)
THEOREM TypeCorrect == Spec => []TypeOK
BY TypeOKInit, TypeOKNext, PTL DEF Spec

-----------------------------------------------------------------------------
(* Monitored at one service, in the form its proof uses. *)
MonitoredAt(s) ==
  \/ Respawning(s)
  \/ \E b \in Spawners : Starting(b, s)
  \/ IsRunning(s) /\ \E b \in Spawners : Listening(b, s)

LEMMA MonitoredInit == Init => Monitored
<1> SUFFICES ASSUME Init, NEW s \in registered
             PROVE  \E b \in Spawners : Starting(b, s)
  BY DEF Monitored
<1>1. Boot \in Spawners /\ s \in Services
  BY DEF Spawners, Init
<1>2. Starting(Boot, s)
  BY <1>1 DEF Init, Starting
<1> QED
  BY <1>1, <1>2

(* A step that leaves what MonitoredAt(s) speaks of alone preserves it. *)
LEMMA MonitoredFrame ==
  ASSUME NEW s \in Services, MonitoredAt(s),
         rpc' = rpc, svc' = svc, op' = op,
         running'[s] = running[s], closed'[s] = closed[s],
         \A b \in Spawners : lpc'[b][s] = lpc[b][s] /\ waits'[b][s] = waits[b][s]
  PROVE  MonitoredAt(s)'
BY DEF MonitoredAt, Respawning, Starting, Listening, IsRunning

(* Steps of a goroutine keep every service monitored. *)
LEMMA MonitoredLoop ==
  ASSUME TypeOK, Monitored,
         NEW b \in Spawners, NEW s \in Services, Loop(b, s)
  PROVE  Monitored'
<1> USE DEF TypeOK, serviceVars, channelVars, loopVars, requestVars, historyVars
<1>1. SUFFICES ASSUME NEW x \in Services, x \in registered', x \notin abandoned'
               PROVE  MonitoredAt(x)'
  BY DEF Monitored, MonitoredAt, Respawning, Starting, Listening, IsRunning,
         Loop, LoopStart, LoopMake, LoopEnter, LoopStop, LoopTimer, LoopCheck
<1>2. /\ MonitoredAt(x)
      /\ rpc' = rpc /\ svc' = svc /\ op' = op /\ closed' = closed
  BY <1>1 DEF Monitored, MonitoredAt, Loop, LoopStart, LoopMake, LoopEnter, LoopStop,
              LoopTimer, LoopCheck
<1>3. CASE x # s
  <2>1. /\ running'[x] = running[x]
        /\ \A c \in Spawners : lpc'[c][x] = lpc[c][x] /\ waits'[c][x] = waits[c][x]
    BY <1>3 DEF Loop, LoopStart, LoopMake, LoopEnter, LoopStop, LoopTimer, LoopCheck
  <2> QED
    BY <1>2, <2>1, MonitoredFrame
<1>4. CASE x = s
  <2> USE DEF MonitoredAt, Respawning, Starting, Listening, IsRunning
  <2>1. CASE LoopStart(b, s)
    BY <1>2, <1>4, <2>1 DEF LoopStart
  <2>2. CASE LoopMake(b, s)
    <3>1. running'[s] = running[s] + 1 /\ lpc'[b][s] = "enter"
      BY <2>2 DEF LoopMake
    <3>2. running'[s] # 0 /\ running'[s] \notin closed'[s]
      BY <1>2, <3>1
    <3> QED
      BY <1>4, <3>1, <3>2
  <2>3. CASE LoopEnter(b, s)
    BY <1>2, <1>4, <2>3 DEF LoopEnter
  <2>4. CASE LoopStop(b, s)
    BY <1>2, <1>4, <2>4 DEF LoopStop
  <2>5. CASE LoopTimer(b, s)
    BY <1>2, <1>4, <2>5 DEF LoopTimer
  <2>6. CASE LoopCheck(b, s)
    BY <1>2, <1>4, <2>6 DEF LoopCheck
  <2> QED
    BY <2>1, <2>2, <2>3, <2>4, <2>5, <2>6 DEF Loop
<1> QED
  BY <1>3, <1>4

(* Accepting a request keeps every service monitored: a POST either leaves *)
(* a request about to spawn or, when its commit fails, abandons the id.    *)
LEMMA MonitoredBegin ==
  ASSUME TypeOK, Monitored, NEW r \in Requests, RequestBegin(r)
  PROVE  Monitored'
<1> USE DEF TypeOK, serviceVars, channelVars, loopVars, requestVars, historyVars,
            Begin, Goto
<1>1. /\ rpc[r] = "idle"
      /\ running' = running /\ closed' = closed /\ lpc' = lpc /\ waits' = waits
      /\ \A q \in Requests \ {r} : rpc'[q] = rpc[q] /\ op'[q] = op[q] /\ svc'[q] = svc[q]
  BY DEF RequestBegin, BeginUpdateOrDelete, BeginPatch, BeginCreate, BeginClear,
         BeginReorder
<1>2. ASSUME NEW x \in Services, MonitoredAt(x)
      PROVE  MonitoredAt(x)'
  <2>1. \A q \in Requests : rpc[q] \in {"register", "spawn"} => q # r
    BY <1>1
  <2> QED
    BY <1>1, <1>2, <2>1 DEF MonitoredAt, Respawning, Starting, Listening, IsRunning
<1>3. CASE \E s \in Services : BeginCreate(r, s)
  <2>1. PICK s \in Services : BeginCreate(r, s)
    BY <1>3
  <2>2. s \in registered' \ abandoned' => MonitoredAt(s)'
    <3>1. CASE Begin(r, "create", s, "spawn") /\ UNCHANGED abandoned
      <4>1. rpc'[r] = "spawn" /\ op'[r] = "create" /\ svc'[r] = s
        BY <3>1
      <4> QED
        BY <4>1 DEF MonitoredAt, Respawning
    <3>2. CASE abandoned' = abandoned \cup {s}
      BY <3>2
    <3> QED
      BY <2>1, <3>1, <3>2 DEF BeginCreate
  <2>3. \A x \in (registered' \ abandoned') \ {s} : MonitoredAt(x)
    BY <2>1 DEF BeginCreate, Monitored, MonitoredAt
  <2>4. registered' \subseteq Services
    BY <2>1 DEF BeginCreate
  <2> QED
    BY <1>2, <2>2, <2>3, <2>4 DEF Monitored, MonitoredAt
<1>4. CASE ~ \E s \in Services : BeginCreate(r, s)
  <2>1. registered' = registered /\ abandoned' = abandoned
    BY <1>4 DEF RequestBegin, BeginUpdateOrDelete, BeginPatch, BeginClear, BeginReorder
  <2> QED
    BY <1>2, <2>1 DEF Monitored, MonitoredAt
<1> QED
  BY <1>3, <1>4

(* The steps of an accepted request keep every service monitored. *)
LEMMA MonitoredStep ==
  ASSUME TypeOK, Monitored, NEW r \in Requests, RequestStep(r)
  PROVE  Monitored'
<1> USE DEF TypeOK, serviceVars, channelVars, loopVars, requestVars, historyVars,
            Goto, End
<1>1. waits' = waits /\ running' = running
  BY DEF RequestStep, ReorderNext, CloseTest, CloseChannel, ClosePanics,
         UpdateRegister, SpawnLoop, DeletePurge, DeleteUnregister
<1>2. \A q \in Requests \ {r} : rpc'[q] = rpc[q] /\ op'[q] = op[q] /\ svc'[q] = svc[q]
  BY DEF RequestStep, ReorderNext, CloseTest, CloseChannel, ClosePanics, AfterClose,
         UpdateRegister, SpawnLoop, DeletePurge, DeleteUnregister
<1>3. ASSUME rpc[r] \notin {"register", "spawn"}, lpc' = lpc, closed' = closed,
             registered' \subseteq registered, abandoned \subseteq abandoned'
      PROVE  Monitored'
  <2>1. ASSUME NEW x \in Services, MonitoredAt(x)
        PROVE  MonitoredAt(x)'
    BY <1>1, <1>2, <1>3, <2>1 DEF MonitoredAt, Respawning, Starting, Listening, IsRunning
  <2> QED
    BY <1>3, <2>1 DEF Monitored, MonitoredAt
<1>4. CASE \E s \in Services \cup {None} : ReorderNext(r, s)
  BY <1>3, <1>4 DEF ReorderNext
<1>5. CASE CloseTest(r)
  BY <1>3, <1>5 DEF CloseTest, AfterClose
<1>6. CASE CloseChannel(r)
  (* The closing request is now respawning, or the service abandoned. *)
  <2>1. /\ rpc[r] = "close" /\ svc[r] \in Services
        /\ lpc' = lpc /\ registered' = registered /\ op' = op /\ svc' = svc
        /\ \A x \in Services \ {svc[r]} : closed'[x] = closed[x]
        /\ abandoned \subseteq abandoned'
    BY <1>6 DEF CloseChannel, AfterClose, Working, RequestPCs
  <2>2. ASSUME NEW x \in Services \ {svc[r]}, MonitoredAt(x)
        PROVE  MonitoredAt(x)'
    BY <1>1, <1>2, <2>1, <2>2 DEF MonitoredAt, Respawning, Starting, Listening, IsRunning
  <2>3. svc[r] \in abandoned' \/ MonitoredAt(svc[r])'
    BY <1>6, <2>1 DEF CloseChannel, AfterClose, MonitoredAt, Respawning
  <2> QED
    BY <2>1, <2>2, <2>3 DEF Monitored, MonitoredAt
<1>7. CASE ClosePanics(r)
  BY <1>3, <1>7 DEF ClosePanics
<1>8. CASE UpdateRegister(r)
  <2>1. /\ rpc[r] = "register" /\ svc[r] \in Services
        /\ rpc' = [rpc EXCEPT ![r] = "spawn"] /\ op' = op /\ svc' = svc
        /\ lpc' = lpc /\ closed' = closed /\ abandoned' = abandoned
        /\ registered' = registered \cup {svc[r]}
    BY <1>8 DEF UpdateRegister, Working, RequestPCs
  <2>2. ASSUME NEW x \in Services, MonitoredAt(x)
        PROVE  MonitoredAt(x)'
    BY <1>1, <1>2, <2>1, <2>2 DEF MonitoredAt, Respawning, Starting, Listening, IsRunning
  <2> QED
    BY <2>1, <2>2 DEF Monitored, MonitoredAt, Respawning
<1>9. CASE SpawnLoop(r)
  <2>1. PICK s \in Services : s = svc[r]
    BY <1>9 DEF SpawnLoop, Working, RequestPCs
  <2>2. /\ r \in Spawners
        /\ lpc' = [lpc EXCEPT ![r][s] = "start"]
        /\ closed' = closed /\ registered' = registered
        /\ abandoned' = abandoned \ {s}
    BY <1>9, <2>1 DEF SpawnLoop, Spawners
  <2>3. MonitoredAt(s)'
    BY <2>2 DEF MonitoredAt, Starting
  <2>4. ASSUME NEW x \in Services \ {s}, MonitoredAt(x)
        PROVE  MonitoredAt(x)'
    <3>1. \A b \in Spawners : lpc'[b][x] = lpc[b][x]
      BY <2>2, <2>4
    <3>2. Respawning(x) => Respawning(x)'
      BY <1>2, <2>1 DEF Respawning
    <3> QED
      BY <1>1, <2>2, <2>4, <3>1, <3>2
         DEF MonitoredAt, Starting, Listening, IsRunning
  <2> QED
    BY <2>2, <2>3, <2>4 DEF Monitored, MonitoredAt
<1>10. CASE DeletePurge(r)
  BY <1>3, <1>10 DEF DeletePurge
<1>11. CASE DeleteUnregister(r)
  BY <1>3, <1>11 DEF DeleteUnregister
<1> QED
  BY <1>4, <1>5, <1>6, <1>7, <1>8, <1>9, <1>10, <1>11 DEF RequestStep

(* No lost monitoring: a registered service that no DELETE has closed      *)
(* since its last respawn is being started, respawned or looped over, for  *)
(* any number of services and of concurrent requests.                      *)
THEOREM NeverLost == Spec => []Monitored
<1>1. TypeOK /\ Monitored /\ [Next]_vars => Monitored'
  <2> SUFFICES ASSUME TypeOK, Monitored, [Next]_vars PROVE Monitored'
    OBVIOUS
  <2>1. CASE \E b \in Spawners, s \in Services : Loop(b, s)
    BY <2>1, MonitoredLoop
  <2>2. CASE \E r \in Requests : RequestBegin(r) \/ RequestStep(r)
    BY <2>2, MonitoredBegin, MonitoredStep
  <2>3. CASE \E r \in Requests : ProbeCheck(r)
    BY <2>3 DEF ProbeCheck, Record, channelVars, loopVars, requestVars, historyVars, Monitored,
                Respawning, Starting, Listening, IsRunning
  <2>4. CASE UNCHANGED vars
    BY <2>4 DEF vars, serviceVars, channelVars, loopVars, requestVars, historyVars, Monitored,
                Respawning, Starting, Listening, IsRunning
  <2> QED
    BY <2>1, <2>2, <2>3, <2>4 DEF Next
<1> QED
  BY MonitoredInit, TypeCorrect, <1>1, PTL DEF Spec

-----------------------------------------------------------------------------
(* PanicTakesTwo, strengthened to be inductive: requests in flight at the  *)
(* same time are not alone, and a request that is about to close a closed  *)
(* channel has been overtaken by another that was in flight with it.       *)
PanicInv ==
  /\ \A r \in alone : rpc[r] # "idle"
  /\ \A r, q \in Requests : r # q /\ InFlight(r) /\ InFlight(q) => r \notin alone
  /\ \A r \in Requests :
       rpc[r] = "close" /\ r \in alone => IsRunning(svc[r])
  /\ PanicTakesTwo

LEMMA PanicBegin ==
  ASSUME TypeOK, PanicInv, NEW r \in Requests, RequestBegin(r)
  PROVE  PanicInv'
<1> USE DEF TypeOK, serviceVars, channelVars, loopVars, requestVars, historyVars,
            Begin, Goto
<1>1. /\ rpc[r] = "idle" /\ rpc'[r] \notin {"idle", "close", "panic"}
      /\ running' = running /\ closed' = closed
      /\ \A q \in Requests \ {r} : rpc'[q] = rpc[q] /\ svc'[q] = svc[q]
      /\ \/ alone' = alone \cup {r} /\ \A q \in Requests : ~InFlight(q)
         \/ alone' = alone \ {q \in Requests : InFlight(q)}
  BY DEF RequestBegin, BeginUpdateOrDelete, BeginPatch, BeginCreate, BeginClear,
         BeginReorder
<1>2. \A q \in alone' : rpc'[q] # "idle"
  BY <1>1 DEF PanicInv
<1>3. \A p, q \in Requests : p # q /\ InFlight(p)' /\ InFlight(q)' => p \notin alone'
  BY <1>1 DEF PanicInv, InFlight
<1>4. \A q \in Requests : rpc'[q] = "close" /\ q \in alone' => IsRunning(svc[q])'
  BY <1>1 DEF PanicInv, IsRunning
<1> QED
  BY <1>1, <1>2, <1>3, <1>4 DEF PanicInv, PanicTakesTwo

LEMMA PanicStep ==
  ASSUME TypeOK, PanicInv, NEW r \in Requests, RequestStep(r)
  PROVE  PanicInv'
<1> USE DEF TypeOK, serviceVars, channelVars, loopVars, requestVars, historyVars,
            Goto, End
<1>1. /\ running' = running /\ alone' = alone
      /\ InFlight(r)
      /\ \A q \in Requests \ {r} : rpc'[q] = rpc[q] /\ svc'[q] = svc[q]
  BY DEF RequestStep, ReorderNext, CloseTest, CloseChannel, ClosePanics, AfterClose,
         UpdateRegister, SpawnLoop, DeletePurge, DeleteUnregister, InFlight
<1>2. /\ \A q \in alone' : rpc'[q] # "idle"
      /\ \A p, q \in Requests : p # q /\ InFlight(p)' /\ InFlight(q)' => p \notin alone'
  <2>1. rpc'[r] # "idle"
    BY DEF RequestStep, ReorderNext, CloseTest, CloseChannel, ClosePanics, AfterClose,
           UpdateRegister, SpawnLoop, DeletePurge, DeleteUnregister
  <2> QED
    BY <1>1, <2>1 DEF PanicInv, InFlight
(* Any other request that is about to close is in flight with r. *)
<1>3. \A q \in Requests \ {r} : rpc'[q] = "close" => q \notin alone'
  BY <1>1 DEF PanicInv, InFlight
<1>4. rpc'[r] = "close" => IsRunning(svc[r])'
  <2>1. SUFFICES ASSUME rpc'[r] = "close"
                 PROVE  IsRunning(svc[r])'
    OBVIOUS
  <2>2. CloseTest(r)
    BY <2>1 DEF RequestStep, ReorderNext, CloseTest, CloseChannel, ClosePanics,
                AfterClose, UpdateRegister, SpawnLoop, DeletePurge, DeleteUnregister
  <2>3. closed' = closed /\ svc' = svc /\ IsRunning(svc[r])
    BY <2>1, <2>2 DEF CloseTest, AfterClose
  <2> QED
    BY <1>1, <2>3 DEF IsRunning
<1>5. PanicTakesTwo'
  <2>1. rpc'[r] = "panic" => r \notin alone'
    <3>1. SUFFICES ASSUME rpc'[r] = "panic"
                   PROVE  r \notin alone
      BY <1>1
    <3>2. ClosePanics(r)
      BY <3>1 DEF RequestStep, ReorderNext, CloseTest, CloseChannel, ClosePanics,
                  AfterClose, UpdateRegister, SpawnLoop, DeletePurge, DeleteUnregister
    <3>3. rpc[r] = "close" /\ ~IsRunning(svc[r])
      BY <3>2 DEF ClosePanics, IsRunning
    <3> QED
      BY <3>3 DEF PanicInv
  <2> QED
    BY <1>1, <2>1 DEF PanicInv, PanicTakesTwo
<1> QED
  BY <1>2, <1>3, <1>4, <1>5 DEF PanicInv

(* Goroutines never close a channel, and the one they make is open. *)
LEMMA PanicLoop ==
  ASSUME TypeOK, PanicInv, NEW b \in Spawners, NEW s \in Services, Loop(b, s)
  PROVE  PanicInv'
<1> USE DEF TypeOK, serviceVars, channelVars, loopVars, requestVars, historyVars
<1>1. rpc' = rpc /\ svc' = svc /\ alone' = alone /\ closed' = closed
  BY DEF Loop, LoopStart, LoopMake, LoopEnter, LoopStop, LoopTimer, LoopCheck
<1>2. running' = running \/ running' = [running EXCEPT ![s] = @ + 1]
  BY DEF Loop, LoopStart, LoopMake, LoopEnter, LoopStop, LoopTimer, LoopCheck
<1>3. ASSUME NEW q \in Requests, rpc[q] = "close", IsRunning(svc[q])
      PROVE  running'[svc[q]] # 0 /\ running'[svc[q]] \notin closed[svc[q]]
  <2>1. svc[q] \in Services
    BY <1>3 DEF Working, RequestPCs
  <2>2. running[s] + 1 # 0 /\ running[s] + 1 \notin closed[s]
    OBVIOUS
  <2> QED
    BY <1>2, <1>3, <2>1, <2>2 DEF IsRunning
<1> QED
  BY <1>1, <1>3 DEF PanicInv, PanicTakesTwo, InFlight, IsRunning

LEMMA PanicInductive == Spec => []PanicInv
<1>1. Init => PanicInv
  BY DEF Init, PanicInv, PanicTakesTwo
<1>2. TypeOK /\ PanicInv /\ [Next]_vars => PanicInv'
  <2> SUFFICES ASSUME TypeOK, PanicInv, [Next]_vars PROVE PanicInv'
    OBVIOUS
  <2>1. CASE \E b \in Spawners, s \in Services : Loop(b, s)
    BY <2>1, PanicLoop
  <2>2. CASE \E r \in Requests : RequestBegin(r) \/ RequestStep(r)
    BY <2>2, PanicBegin, PanicStep
  <2>3. CASE \E r \in Requests : ProbeCheck(r)
    BY <2>3 DEF ProbeCheck, Record, channelVars, requestVars, historyVars, PanicInv,
                PanicTakesTwo, InFlight, IsRunning
  <2>4. CASE UNCHANGED vars
    BY <2>4 DEF vars, channelVars, requestVars, historyVars, PanicInv, PanicTakesTwo,
                InFlight, IsRunning
  <2> QED
    BY <2>1, <2>2, <2>3, <2>4 DEF Next
<1> QED
  BY TypeCorrect, <1>1, <1>2, PTL DEF Spec

(* A request that no other overlaps never closes a closed channel. *)
THEOREM LonePanicFree == Spec => []PanicTakesTwo
<1>1. PanicInv => PanicTakesTwo
  BY DEF PanicInv
<1> QED
  BY <1>1, PanicInductive, PTL

-----------------------------------------------------------------------------
(* What a request that is alone has found stays found until it ends. *)
Found == \A r \in alone : rpc[r] \in Working => svc[r] \in registered

LEMMA FoundBegin ==
  ASSUME TypeOK, Found, NEW r \in Requests, RequestBegin(r)
  PROVE  Found'
<1> USE DEF TypeOK, serviceVars, requestVars, historyVars, Begin, Goto, Working, RequestPCs
<1>1. /\ registered \subseteq registered'
      /\ rpc'[r] \in Working => svc'[r] \in registered'
  BY DEF RequestBegin, BeginUpdateOrDelete, BeginPatch, BeginCreate, BeginClear, BeginReorder
<1>2. /\ \A q \in Requests \ {r} : rpc'[q] = rpc[q] /\ svc'[q] = svc[q]
      /\ \A q \in alone' \ {r} : ~InFlight(q)
  BY DEF RequestBegin, BeginUpdateOrDelete, BeginPatch, BeginCreate, BeginClear,
         BeginReorder, InFlight
<1>3. alone' \subseteq Requests
  BY DEF RequestBegin, BeginUpdateOrDelete, BeginPatch, BeginCreate, BeginClear, BeginReorder
<1> QED
  BY <1>1, <1>2, <1>3 DEF Found, InFlight

LEMMA FoundStep ==
  ASSUME TypeOK, PanicInv, Found, NEW r \in Requests, RequestStep(r)
  PROVE  Found'
<1> USE DEF TypeOK, serviceVars, requestVars, historyVars, Goto, End, Working, RequestPCs
<1>1. /\ alone' = alone /\ InFlight(r)
      /\ \A q \in Requests \ {r} : rpc'[q] = rpc[q] /\ svc'[q] = svc[q]
  BY DEF RequestStep, ReorderNext, CloseTest, CloseChannel, ClosePanics, AfterClose,
         UpdateRegister, SpawnLoop, DeletePurge, DeleteUnregister, InFlight
<1>2. \A q \in alone \ {r} : rpc[q] \notin Working
  BY <1>1 DEF PanicInv, InFlight
<1>3. r \in alone /\ rpc'[r] \in Working => svc'[r] \in registered'
  <2>1. CASE \E s \in Services \cup {None} : ReorderNext(r, s)
    BY <2>1 DEF ReorderNext
  <2>2. CASE CloseTest(r) \/ CloseChannel(r) \/ UpdateRegister(r)
    BY <2>2 DEF CloseTest, CloseChannel, AfterClose, UpdateRegister, Found
  <2>3. CASE ClosePanics(r) \/ SpawnLoop(r) \/ DeleteUnregister(r)
    BY <2>3 DEF ClosePanics, SpawnLoop, DeleteUnregister
  <2>4. CASE DeletePurge(r)
    BY <2>4 DEF DeletePurge, Found
  <2> QED
    BY <2>1, <2>2, <2>3, <2>4 DEF RequestStep
<1> QED
  BY <1>1, <1>2, <1>3 DEF Found

LEMMA FoundInductive == Spec => []Found
<1>1. Init => Found
  BY DEF Init, Found
<1>2. TypeOK /\ PanicInv /\ Found /\ [Next]_vars => Found'
  <2> SUFFICES ASSUME TypeOK, PanicInv, Found, [Next]_vars PROVE Found'
    OBVIOUS
  <2>1. CASE \E b \in Spawners, s \in Services : Loop(b, s)
    BY <2>1 DEF Loop, LoopStart, LoopMake, LoopEnter, LoopStop, LoopTimer, LoopCheck,
                serviceVars, requestVars, historyVars, Found
  <2>2. CASE \E r \in Requests : RequestBegin(r) \/ RequestStep(r)
    BY <2>2, FoundBegin, FoundStep
  <2>3. CASE (\E r \in Requests : ProbeCheck(r)) \/ UNCHANGED vars
    BY <2>3 DEF ProbeCheck, vars, serviceVars, requestVars, historyVars, Found
  <2> QED
    BY <2>1, <2>2, <2>3 DEF Next
<1> QED
  BY TypeCorrect, PanicInductive, <1>1, <1>2, PTL DEF Spec

(* Only a create that was given a new id, and an update that was not       *)
(* alone, can put a service into the registry (Service.Update writes       *)
(* allServices without a look; findService and services.Find looked        *)
(* before).                                                                *)
THEOREM DeletedStaysDeleted == Spec => ReturnTakesTwo
<1> DEFINE Returns(s) ==
      s \in unborn \/ \E r \in Requests \ alone : rpc[r] = "register" /\ svc[r] = s
<1>1. ASSUME TypeOK, Found, [Next]_vars, NEW s \in registered' \ registered
      PROVE  Returns(s)
  <2>1. PICK r \in Requests : RequestBegin(r) \/ RequestStep(r)
    BY <1>1 DEF Next, Loop, LoopStart, LoopMake, LoopEnter, LoopStop, LoopTimer, LoopCheck,
                ProbeCheck, vars, serviceVars
  <2>2. CASE RequestBegin(r)
    BY <1>1, <2>2 DEF RequestBegin, BeginUpdateOrDelete, BeginPatch, BeginCreate,
                      BeginClear, BeginReorder, serviceVars
  <2>3. CASE RequestStep(r)
    <3>1. UpdateRegister(r)
      BY <1>1, <2>3 DEF RequestStep, ReorderNext, CloseTest, CloseChannel, ClosePanics,
                        SpawnLoop, DeletePurge, DeleteUnregister, serviceVars
    <3>2. rpc[r] = "register" /\ svc[r] = s
      BY <1>1, <3>1 DEF UpdateRegister
    <3>3. r \notin alone
      BY <1>1, <3>2 DEF Found, Working, RequestPCs
    <3> QED
      BY <3>2, <3>3
  <2> QED
    BY <2>1, <2>2, <2>3
<1>2. TypeOK /\ Found /\ [Next]_vars => [\A s \in registered' \ registered : Returns(s)]_vars
  BY <1>1
<1> QED
  BY TypeCorrect, FoundInductive, <1>2, PTL DEF Spec, ReturnTakesTwo

=============================================================================
