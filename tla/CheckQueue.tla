------------------------------ MODULE CheckQueue ------------------------------
(***************************************************************************)
(* The life of the goroutines that monitor services.                       *)
(*                                                                         *)
(* Every service in the registry (the map allServices) should have a       *)
(* goroutine running ServiceCheckQueue.  Start makes the channel           *)
(* s.Running, Close closes it, and the goroutine's select stops it when    *)
(* the channel it is waiting on has been closed.  HTTP handlers close and  *)
(* respawn these goroutines while checks are in flight and while other     *)
(* handlers do the same: nothing in the code takes a lock.                 *)
(*                                                                         *)
(* A goroutine is named by who spawned it and for which service.  The      *)
(* channels of a service are numbered as they are made; running[s] is the  *)
(* number of the one s.Running points to, and 0 is the nil channel.        *)
(***************************************************************************)
EXTENDS Naturals, FiniteSets

CONSTANTS
  Services,   \* the ids a service row may get
  Requests,   \* HTTP handler goroutines: each serves one request (a bound)
  Boot,       \* the start-up goroutine, which runs CheckServices
  None,       \* no service
  Operations  \* what the requests ask for (a bound on the instance)

ASSUME BootAssumption == Boot \notin Requests
ASSUME NoneAssumption == None \notin Services

Spawners == Requests \cup {Boot}

(* PUT, PATCH, the reorder POST, the create POST, DELETE, and the two      *)
(* DELETEs of a service's hits or failures.                                *)
Ops == {"update", "patch", "reorder", "create", "delete", "clear"}

ASSUME OperationsAssumption == Operations \subseteq Ops

LoopPCs    == {"off", "start", "make", "enter", "select", "check"}
RequestPCs == {"idle", "next", "isrunning", "close", "register", "spawn",
               "purge", "unregister", "done", "panic"}
Working    == RequestPCs \ {"idle", "next", "done", "panic"}

VARIABLES
  registered,  \* keys of allServices
  unborn,      \* ids the database has not handed out yet
  records,     \* services that have rows in the hits or failures table
  running,     \* the channel s.Running points to
  closed,      \* the closed channels of each service
  lpc,         \* where each ServiceCheckQueue goroutine is
  waits,       \* the channel the goroutine's select is waiting on
  probe,       \* the service a PUT's `go service.CheckService(true)` checks
  rpc,         \* where each request is
  op, svc,     \* what it does, and the service it is working on
  todo,        \* ids a reorder has not come to yet
  abandoned,   \* history: closed by a DELETE, or half created, and not
               \* respawned since
  alone        \* history: requests no other request has overlapped

serviceVars == <<registered, unborn, records>>
channelVars == <<running, closed>>
loopVars    == <<lpc, waits>>
requestVars == <<rpc, op, svc, todo>>
historyVars == <<abandoned, alone>>
vars == <<serviceVars, channelVars, loopVars, probe, requestVars, historyVars>>

-----------------------------------------------------------------------------

(* Service.IsRunning: the channel exists and is not closed. *)
IsRunning(s) == running[s] # 0 /\ running[s] \notin closed[s]

(* main.start: SelectAllServices has filled the registry from the table    *)
(* and CheckServices has spawned a goroutine for each, before the HTTP     *)
(* server listens.                                                         *)
Init ==
  /\ registered \in SUBSET Services
  /\ unborn = Services \ registered
  /\ records = {}
  /\ running = [s \in Services |-> 0]
  /\ closed = [s \in Services |-> {}]
  /\ lpc = [b \in Spawners |-> [s \in Services |->
              IF b = Boot /\ s \in registered THEN "start" ELSE "off"]]
  /\ waits = [b \in Spawners |-> [s \in Services |-> 0]]
  /\ probe = [r \in Requests |-> None]
  /\ rpc = [r \in Requests |-> "idle"]
  /\ op = [r \in Requests |-> "none"]
  /\ svc = [r \in Requests |-> None]
  /\ todo = [r \in Requests |-> {}]
  /\ abandoned = {}
  /\ alone = {}

-----------------------------------------------------------------------------
(* The goroutine ServiceCheckQueue(s, true) spawned by b.                  *)

(* Mutant: Start makes a channel only when there is none yet. *)
LoopStartIfNil(b, s) ==
  /\ lpc[b][s] = "start"
  /\ lpc' = [lpc EXCEPT ![b][s] = IF running[s] # 0 THEN "enter" ELSE "make"]
  /\ UNCHANGED <<serviceVars, channelVars, waits, probe, requestVars, historyVars>>

(* Service.Start: return if IsRunning, otherwise go on to make a channel. *)
LoopStart(b, s) ==
  /\ lpc[b][s] = "start"
  /\ lpc' = [lpc EXCEPT ![b][s] = IF IsRunning(s) THEN "enter" ELSE "make"]
  /\ UNCHANGED <<serviceVars, channelVars, waits, probe, requestVars, historyVars>>

(* s.Running = make(chan bool) *)
LoopMake(b, s) ==
  /\ lpc[b][s] = "make"
  /\ running' = [running EXCEPT ![s] = @ + 1]
  /\ lpc' = [lpc EXCEPT ![b][s] = "enter"]
  /\ UNCHANGED <<serviceVars, closed, waits, probe, requestVars, historyVars>>

(* The select evaluates s.Running afresh each time round the loop, and     *)
(* then waits on that channel whatever s.Running becomes.                  *)
LoopEnter(b, s) ==
  /\ lpc[b][s] = "enter"
  /\ waits' = [waits EXCEPT ![b][s] = running[s]]
  /\ lpc' = [lpc EXCEPT ![b][s] = "select"]
  /\ UNCHANGED <<serviceVars, channelVars, probe, requestVars, historyVars>>

(* Mutant: the break leaves the select and not the loop. *)
LoopStopBreaksSelect(b, s) ==
  /\ lpc[b][s] = "select"
  /\ waits[b][s] \in closed[s]
  /\ lpc' = [lpc EXCEPT ![b][s] = "enter"]
  /\ waits' = [waits EXCEPT ![b][s] = 0]
  /\ UNCHANGED <<serviceVars, channelVars, probe, requestVars, historyVars>>

(* case <-s.Running *)
LoopStop(b, s) ==
  /\ lpc[b][s] = "select"
  /\ waits[b][s] \in closed[s]
  /\ lpc' = [lpc EXCEPT ![b][s] = "off"]
  /\ waits' = [waits EXCEPT ![b][s] = 0]
  /\ UNCHANGED <<serviceVars, channelVars, probe, requestVars, historyVars>>

(* case <-time.After(s.SleepDuration); both cases may be ready *)
LoopTimer(b, s) ==
  /\ lpc[b][s] = "select"
  /\ lpc' = [lpc EXCEPT ![b][s] = "check"]
  /\ waits' = [waits EXCEPT ![b][s] = 0]
  /\ UNCHANGED <<serviceVars, channelVars, probe, requestVars, historyVars>>

(* What a check leaves in the database: RecordSuccess creates a hit,       *)
(* RecordFailure a failure; a static service, and a Create that fails      *)
(* (which is only logged), leave nothing.                                  *)
Record(s) == records' = records \cup {s} \/ records' = records

(* s.CheckService(record) returns. *)
LoopCheck(b, s) ==
  /\ lpc[b][s] = "check"
  /\ Record(s)
  /\ lpc' = [lpc EXCEPT ![b][s] = "enter"]
  /\ UNCHANGED <<registered, unborn, channelVars, waits, probe,
                 requestVars, historyVars>>

Loop(b, s) ==
  \/ LoopStart(b, s) \/ LoopMake(b, s) \/ LoopEnter(b, s)
  \/ LoopStop(b, s) \/ LoopTimer(b, s) \/ LoopCheck(b, s)

(* The single check a PUT starts beside the new loop. *)
ProbeCheck(r) ==
  /\ probe[r] # None
  /\ Record(probe[r])
  /\ probe' = [probe EXCEPT ![r] = None]
  /\ UNCHANGED <<registered, unborn, channelVars, loopVars,
                 requestVars, historyVars>>

-----------------------------------------------------------------------------
(* Requests.  A request that ends forgets what it was doing.               *)

Goto(r, label) == rpc' = [rpc EXCEPT ![r] = label]

InFlight(r) == rpc[r] \notin {"idle", "done", "panic"}

Begin(r, what, s, label) ==
  /\ rpc[r] = "idle"
  /\ what \in Operations
  /\ Goto(r, label)
  /\ op' = [op EXCEPT ![r] = what]
  /\ svc' = [svc EXCEPT ![r] = s]
  /\ LET others == {q \in Requests : InFlight(q)} IN
       alone' = IF others = {} THEN alone \cup {r} ELSE alone \ others

End(r, label) ==
  /\ Goto(r, label)
  /\ op' = [op EXCEPT ![r] = "none"]
  /\ svc' = [svc EXCEPT ![r] = None]
  /\ todo' = [todo EXCEPT ![r] = {}]

(* apiServiceUpdateHandler, apiServiceDeleteHandler: findService, which    *)
(* looks in the registry, then Update or Delete.                           *)
BeginUpdateOrDelete(r, s, what) ==
  /\ s \in registered
  /\ Begin(r, what, s, "isrunning")
  /\ UNCHANGED <<serviceVars, channelVars, loopVars, probe, todo, abandoned>>

(* apiServicePatchHandler records a success or a failure, then Update. *)
BeginPatch(r, s) ==
  /\ s \in registered
  /\ Begin(r, "patch", s, "isrunning")
  /\ Record(s)
  /\ UNCHANGED <<registered, unborn, channelVars, loopVars, probe, todo, abandoned>>

(* reorderServiceHandler: the request lists ids, each at most once; None   *)
(* stands for one that is no service's.                                    *)
BeginReorder(r, list) ==
  /\ Begin(r, "reorder", None, "next")
  /\ todo' = [todo EXCEPT ![r] = list]
  /\ UNCHANGED <<serviceVars, channelVars, loopVars, probe, abandoned>>

(* Mutant: the error of services.Find is not looked at. *)
ReorderAnyway(r, s) ==
  /\ rpc[r] = "next"
  /\ s \in todo[r] \ {None}
  /\ Goto(r, "isrunning")
  /\ svc' = [svc EXCEPT ![r] = s]
  /\ todo' = [todo EXCEPT ![r] = @ \ {s, None}]
  /\ UNCHANGED <<serviceVars, channelVars, loopVars, probe, op, historyVars>>

(* services.Find of the next item; one that is not found ends the request. *)
ReorderNext(r, s) ==
  /\ rpc[r] = "next"
  /\ s \in todo[r]
  /\ \/ /\ s \in registered
        /\ Goto(r, "isrunning")
        /\ svc' = [svc EXCEPT ![r] = s]
        /\ todo' = [todo EXCEPT ![r] = @ \ {s}]
        /\ UNCHANGED op
     \/ s \notin registered /\ End(r, "done")
  /\ UNCHANGED <<serviceVars, channelVars, loopVars, probe, historyVars>>

(* apiCreateServiceHandler: the insert and AfterCreate, which registers    *)
(* the service, share a transaction; if the commit then fails the request  *)
(* ends with the service registered and no goroutine for it.               *)
BeginCreate(r, s) ==
  /\ s \in unborn
  /\ unborn' = unborn \ {s}
  /\ registered' = registered \cup {s}
  /\ \/ /\ Begin(r, "create", s, "spawn")
        /\ UNCHANGED abandoned
     \/ /\ Begin(r, "create", None, "done")
        /\ abandoned' = abandoned \cup {s}
  /\ UNCHANGED <<records, channelVars, loopVars, probe, todo>>

(* servicesDeleteFailuresHandler and apiServiceHitsDeleteHandler: the rows *)
(* of one kind go, so there may be rows left.                              *)
BeginClear(r, s) ==
  /\ s \in registered
  /\ Begin(r, "clear", None, "done")
  /\ records' = records \ {s} \/ records' = records
  /\ UNCHANGED <<registered, unborn, channelVars, loopVars, probe, todo, abandoned>>

(* What follows s.Close(): Delete goes on to the rows, Update to the       *)
(* registry.                                                               *)
AfterClose(r) ==
  \/ /\ op[r] = "delete"
     /\ Goto(r, "purge")
     /\ abandoned' = abandoned \cup {svc[r]}
  \/ /\ op[r] # "delete"
     /\ Goto(r, "register")
     /\ UNCHANGED abandoned

(* Mutant: Close does not test anything. *)
CloseAnyway(r) ==
  /\ rpc[r] = "isrunning"
  /\ Goto(r, "close")
  /\ UNCHANGED <<serviceVars, channelVars, loopVars, probe, op, svc, todo, historyVars>>

(* Mutant: Close tests for nil only. *)
CloseTestNil(r) ==
  /\ rpc[r] = "isrunning"
  /\ \/ running[svc[r]] # 0 /\ Goto(r, "close") /\ UNCHANGED abandoned
     \/ running[svc[r]] = 0 /\ AfterClose(r)
  /\ UNCHANGED <<serviceVars, channelVars, loopVars, probe, op, svc, todo, alone>>

(* Service.Close, first half: the IsRunning test. *)
CloseTest(r) ==
  /\ rpc[r] = "isrunning"
  /\ \/ IsRunning(svc[r]) /\ Goto(r, "close") /\ UNCHANGED abandoned
     \/ ~IsRunning(svc[r]) /\ AfterClose(r)
  /\ UNCHANGED <<serviceVars, channelVars, loopVars, probe, op, svc, todo, alone>>

(* Service.Close, second half: close(s.Running). *)
CloseChannel(r) ==
  /\ rpc[r] = "close"
  /\ running[svc[r]] \notin closed[svc[r]]
  /\ closed' = [closed EXCEPT ![svc[r]] = @ \cup {running[svc[r]]}]
  /\ AfterClose(r)
  /\ UNCHANGED <<serviceVars, running, loopVars, probe, op, svc, todo,
                 alone>>

(* Closing a closed channel panics; net/http recovers the panic and drops  *)
(* the request.                                                            *)
ClosePanics(r) ==
  /\ rpc[r] = "close"
  /\ running[svc[r]] \in closed[svc[r]]
  /\ End(r, "panic")
  /\ UNCHANGED <<serviceVars, channelVars, loopVars, probe, historyVars>>

(* Update: allServices[s.Id] = s *)
UpdateRegister(r) ==
  /\ rpc[r] = "register"
  /\ registered' = registered \cup {svc[r]}
  /\ Goto(r, "spawn")
  /\ UNCHANGED <<unborn, records, channelVars, loopVars, probe, op, svc, todo,
                 historyVars>>

(* Mutant: a reorder spawns a goroutine for its last item only. *)
SpawnLastLoop(r) ==
  /\ rpc[r] = "spawn"
  /\ \/ todo[r] = {} /\ lpc' = [lpc EXCEPT ![r][svc[r]] = "start"] /\ End(r, "done")
     \/ todo[r] # {} /\ UNCHANGED lpc /\ Goto(r, "next") /\ UNCHANGED <<op, svc, todo>>
  /\ UNCHANGED <<serviceVars, channelVars, waits, probe, historyVars>>

(* go ServiceCheckQueue(...), and the rest of the handler: a PUT whose     *)
(* database update succeeded also starts a single check; a reorder goes on *)
(* to its next item.                                                       *)
SpawnLoop(r) ==
  /\ rpc[r] = "spawn"
  /\ lpc' = [lpc EXCEPT ![r][svc[r]] = "start"]
  /\ abandoned' = abandoned \ {svc[r]}
  /\ \/ UNCHANGED probe
     \/ op[r] = "update" /\ probe' = [probe EXCEPT ![r] = svc[r]]
  /\ \/ todo[r] = {} /\ End(r, "done")
     \/ todo[r] # {} /\ Goto(r, "next") /\ UNCHANGED <<op, svc, todo>>
  /\ UNCHANGED <<serviceVars, channelVars, waits, alone>>

(* Delete: the failures, hits, checkins, incidents and messages go one     *)
(* after the other, and the first error returns: then rows may be left.    *)
DeletePurge(r) ==
  /\ rpc[r] = "purge"
  /\ \/ /\ records' = records \ {svc[r]}
        /\ Goto(r, "unregister")
        /\ UNCHANGED <<op, svc, todo>>
     \/ /\ records' = records \ {svc[r]} \/ records' = records
        /\ End(r, "done")
  /\ UNCHANGED <<registered, unborn, channelVars, loopVars, probe, historyVars>>

(* delete(allServices, s.Id); the row goes last. *)
DeleteUnregister(r) ==
  /\ rpc[r] = "unregister"
  /\ registered' = registered \ {svc[r]}
  /\ End(r, "done")
  /\ UNCHANGED <<unborn, records, channelVars, loopVars, probe, historyVars>>

(* What a request does once it has been accepted. *)
RequestStep(r) ==
  \/ \E s \in Services \cup {None} : ReorderNext(r, s)
  \/ CloseTest(r) \/ CloseChannel(r) \/ ClosePanics(r)
  \/ UpdateRegister(r) \/ SpawnLoop(r)
  \/ DeletePurge(r) \/ DeleteUnregister(r)

RequestBegin(r) ==
  \/ \E s \in Services, what \in {"update", "delete"} :
       BeginUpdateOrDelete(r, s, what)
  \/ \E s \in Services : BeginPatch(r, s) \/ BeginCreate(r, s) \/ BeginClear(r, s)
  \/ \E list \in SUBSET (Services \cup {None}) \ {{}} : BeginReorder(r, list)

Next ==
  \/ \E b \in Spawners, s \in Services : Loop(b, s)
  \/ \E r \in Requests : RequestBegin(r) \/ RequestStep(r) \/ ProbeCheck(r)

Spec == Init /\ [][Next]_vars

(* The Go scheduler runs every goroutine, timers fire and checks return    *)
(* (each has a timeout).  When a channel is closed and the timer is ready  *)
(* too, select picks pseudo-randomly, so it cannot pass over the closed    *)
(* channel for ever: strong fairness of LoopStop.  Nothing makes a client  *)
(* send a request.                                                         *)
Fairness ==
  /\ \A b \in Spawners, s \in Services :
       /\ WF_vars(LoopStart(b, s)) /\ WF_vars(LoopMake(b, s))
       /\ WF_vars(LoopEnter(b, s)) /\ WF_vars(LoopCheck(b, s))
       /\ WF_vars(LoopTimer(b, s)) /\ SF_vars(LoopStop(b, s))
  /\ \A r \in Requests : WF_vars(RequestStep(r)) /\ WF_vars(ProbeCheck(r))

FairSpec == Spec /\ Fairness

-----------------------------------------------------------------------------
(* Properties.                                                             *)

(* Every variable has its type; a service's closed channels are among the  *)
(* channels made for it so far; a request at work has a service, and never *)
(* closes a nil channel.                                                   *)
TypeOK ==
  /\ registered \in SUBSET Services
  /\ unborn \in SUBSET Services
  /\ records \in SUBSET Services
  /\ running \in [Services -> Nat]
  /\ closed \in [Services -> SUBSET Nat]
  /\ \A s \in Services : \A c \in closed[s] : c # 0 /\ c <= running[s]
  /\ lpc \in [Spawners -> [Services -> LoopPCs]]
  /\ waits \in [Spawners -> [Services -> Nat]]
  /\ probe \in [Requests -> Services \cup {None}]
  /\ rpc \in [Requests -> RequestPCs]
  /\ op \in [Requests -> Ops \cup {"none"}]
  /\ svc \in [Requests -> Services \cup {None}]
  /\ \A r \in Requests : rpc[r] \in Working => svc[r] \in Services
  /\ \A r \in Requests : rpc[r] = "close" => running[svc[r]] # 0
  /\ todo \in [Requests -> SUBSET (Services \cup {None})]
  /\ abandoned \in SUBSET Services
  /\ alone \in SUBSET Requests

(* A goroutine that has been spawned and has not stopped. *)
Live(b, s) == lpc[b][s] # "off"

(* It has not looked at the channel yet, and is going to. *)
Starting(b, s) == lpc[b][s] \in {"start", "make"}

(* It goes round its loop, and the channel it waits on is not closed. *)
Listening(b, s) ==
  \/ lpc[b][s] \in {"enter", "check"}
  \/ lpc[b][s] = "select" /\ waits[b][s] \notin closed[s]

(* A request has closed s and is about to spawn a goroutine for it. *)
Respawning(s) ==
  \E r \in Requests :
    svc[r] = s /\ rpc[r] \in {"register", "spawn"}

(* No lost monitoring.  Whatever updates, patches, reorders and creates do *)
(* concurrently (double closes that panic included), a registered service  *)
(* that no DELETE has closed since its last respawn has a goroutine on its *)
(* way to its loop, or an open channel and a goroutine that will go on     *)
(* looping: it never stays in the registry unmonitored.                    *)
Monitored ==
  \A s \in registered \ abandoned :
    \/ Respawning(s)
    \/ \E b \in Spawners : Starting(b, s)
    \/ IsRunning(s) /\ \E b \in Spawners : Listening(b, s)

(* Closing a closed channel takes two requests at once: a request that no  *)
(* other overlapped never panics, whatever failed or panicked before it: a *)
(* DELETE that failed half way leaves a registered service with a closed   *)
(* channel, and the requests that follow do not trip over it.              *)
PanicTakesTwo == \A r \in Requests : rpc[r] = "panic" => r \notin alone

(* A service that has been deleted does not come back, unless by a request *)
(* that had found it before and that another overlapped: Update puts its   *)
(* struct into allServices without looking whether it is still there       *)
(* (findService, services.Find, Service.Update).                           *)
ReturnTakesTwo ==
  [][\A s \in registered' \ registered :
       s \in unborn \/ \E r \in Requests \ alone : rpc[r] = "register" /\ svc[r] = s]_vars

(* Goroutines left waiting on a channel that is no longer s.Running (two   *)
(* of them were in Start at once) stop too once s.Running is closed for    *)
(* good, because select evaluates it afresh each time round.               *)
ClosedForGoodStops ==
  \A s \in Services :
    <>[](running[s] \in closed[s]) => <>[](\A b \in Spawners : ~Live(b, s))

(* A registered service that is not being deleted keeps being checked: the *)
(* spawn, Start, channel and loop hand over without ever losing it.        *)
KeepsChecking ==
  \A s \in Services :
    s \in registered \ abandoned ~>
      \/ s \notin registered \ abandoned
      \/ \E b \in Spawners : lpc[b][s] = "check"

-----------------------------------------------------------------------------
(* What the repository says and the code does not do.                      *)

(* methods.go says of Close that it "will stop the go routine that is      *)
(* checking if service is online or not": a goroutine that is inside a     *)
(* check when a request is about to close the open channel stops           *)
(* eventually, unless it has left the check before the channel is closed.  *)
(* One that has not comes back to a select that evaluates s.Running        *)
(* afresh, finds the channel of the goroutine that Update spawned, and     *)
(* goes on beside it.                                                      *)
CloseStopsLoop ==
  \A r \in Requests, b \in Spawners, s \in Services :
    (/\ rpc[r] = "close" /\ svc[r] = s /\ running[s] \notin closed[s]
     /\ lpc[b][s] = "check")
      ~> (\/ lpc[b][s] = "off"
          \/ rpc[r] = "close" /\ lpc[b][s] # "check")

=============================================================================
