-------------------------------- MODULE Checkins --------------------------------
(***************************************************************************)
(* The checkins of one service.                                            *)
(*                                                                         *)
(* An application has to hit a checkin's URL every Period minutes.  At     *)
(* start-up CheckinProcess starts one goroutine per checkin attached to    *)
(* the service; it looks at the last hit every Period minutes and writes   *)
(* a failure when that is too long ago.  Requests create, hit and delete   *)
(* checkins and delete the service meanwhile, on structs of their own: the *)
(* only structs that hold a goroutine's channel are those in the registry. *)
(* services.Find replaces these by copies, in the registry itself: it      *)
(* empties the list of checkins, queries the table and appends what comes, *)
(* while other requests do the same or work through the list.              *)
(*                                                                         *)
(* Time advances by Tick, one minute at a time, and goroutines act within  *)
(* the minute their timer expires.                                         *)
(***************************************************************************)
EXTENDS Naturals, FiniteSets

CONSTANTS
  CheckinIds,  \* the ids a checkin row may get
  Requests,    \* HTTP handler goroutines: each serves one request at a time
  Period,      \* Checkin.Period, in minutes
  Faults       \* what may fail: database reads, writes (a bound)

ASSUME PeriodAssumption == Period \in Nat \ {0}
ASSUME FaultsAssumption == Faults \subseteq {"read", "write"}

(* Ages are not told apart beyond this; it also stands for the zero time   *)
(* LastHit returns when there is no hit.                                   *)
Cap == 2 * Period + 1

Loaders == {"create", "deleteService", "other"}  \* those that call Find
Ops == Loaders \cup {"hit", "delete"}

(* A struct of a checkin: with the goroutine's channel, or a copy of the   *)
(* row whose Running is nil.                                               *)
Structs == [checkin : CheckinIds, owns : BOOLEAN]
Named(structs) == {s.checkin : s \in structs}

VARIABLES
  listed, saved, \* the service is in allServices, and in the services table
  rows, unborn,  \* checkin rows, and ids not handed out yet
  hits,          \* checkins that have rows in checkin_hits
  attached,      \* s.Checkins of the service in the registry
  age,           \* minutes since the last hit of each checkin
  routine,       \* the goroutine of each checkin
  timer,         \* minutes until its time.After(reCheck) fires
  closed,        \* checkins whose goroutine's channel is closed
  rpc, op, target, \* where each request is, what it does, to which checkin
  todo,          \* structs a Find has not appended yet, or a DELETE of the
                 \* service has not come to yet
  quiet,         \* history: minutes since a goroutine started or a hit came;
                 \* a report that is lost takes it back to a Period
  reported,      \* history: checkins with a failure in the table, and no hit
                 \* since
  lapsed,        \* history: a hit since the last look came after more than
                 \* a Period without one
  blind,         \* history: the last look could not read the hits
  troubled,      \* history: DELETEs of the service about to use a list of
                 \* checkins that they could not read, or that another
                 \* request has taken checkins from
  overlooked     \* history: checkins written after a DELETE of the service
                 \* has read them, or not seen by one that was troubled

serviceVars == <<listed, saved, rows, unborn, attached>>
hitVars     == <<hits, age>>
loopVars    == <<routine, timer, closed>>
requestVars == <<rpc, op, target, todo>>
lookVars    == <<quiet, reported, lapsed, blind>>
findVars    == <<troubled, overlooked>>
historyVars == <<lookVars, findVars>>
vars == <<serviceVars, hitVars, loopVars, requestVars, historyVars>>

-----------------------------------------------------------------------------

ReadFails  == "read" \in Faults
WriteFails == "write" \in Faults

(* What Related(&s.Checkins) of Service.AfterFind loads. *)
Copies == [checkin : rows, owns : {FALSE}]

(* CheckinProcess starts a goroutine for every checkin all() has loaded    *)
(* with the service: LastHit returns a pointer to a local, never nil.      *)
CheckinProcess(loaded) ==
  /\ attached' = [checkin : loaded, owns : {TRUE}]
  /\ routine' = [c \in CheckinIds |-> IF c \in loaded THEN "wait" ELSE "off"]
  /\ timer' = [c \in CheckinIds |-> IF c \in loaded THEN Period ELSE 0]

Init ==
  /\ listed = TRUE /\ saved = TRUE
  /\ rows \in SUBSET CheckinIds
  /\ unborn = CheckinIds \ rows
  /\ hits \in SUBSET rows
  /\ attached = [checkin : rows, owns : {TRUE}]
  /\ age \in {f \in [CheckinIds -> 0..Cap] : \A c \in CheckinIds \ hits : f[c] = Cap}
  /\ routine = [c \in CheckinIds |-> IF c \in rows THEN "wait" ELSE "off"]
  /\ timer = [c \in CheckinIds |-> IF c \in rows THEN Period ELSE 0]
  /\ closed = {}
  /\ rpc = [r \in Requests |-> "idle"]
  /\ op = [r \in Requests |-> "none"]
  /\ target = [r \in Requests |-> {}]
  /\ todo = [r \in Requests |-> {}]
  /\ quiet = [c \in CheckinIds |-> 0]
  /\ reported = {}
  /\ lapsed = {} /\ blind = {}
  /\ troubled = {} /\ overlooked = {}

-----------------------------------------------------------------------------
(* The goroutine checkinRoutine. *)

(* Mutant: a hit exactly a Period ago is late. *)
LateTooSoon(c) == age[c] >= Period

(* Mutant: a second Period of grace. *)
LateTooLate(c) == age[c] > 2 * Period

(* ago.Seconds() > c.Period().Seconds() *)
Late(c) == age[c] > Period

(* case <-time.After(reCheck): read the last hit; when it is late, go on   *)
(* to CreateFailure.  The error of the read is not looked at: a hit that   *)
(* cannot be read is one at the zero time, and late.                       *)
Wake(c) ==
  /\ routine[c] = "wait" /\ timer[c] = 0
  /\ \/ /\ routine' = [routine EXCEPT ![c] = IF Late(c) THEN "late" ELSE "wait"]
        /\ timer' = [timer EXCEPT ![c] = IF Late(c) THEN 0 ELSE Period]
        /\ reported' = IF Late(c) THEN reported ELSE reported \ {c}
        /\ blind' = blind \ {c}
     \/ /\ ReadFails
        /\ routine' = [routine EXCEPT ![c] = "late"]
        /\ blind' = blind \cup {c}
        /\ UNCHANGED <<timer, reported>>
  /\ lapsed' = lapsed \ {c}
  /\ UNCHANGED <<serviceVars, hitVars, closed, requestVars, quiet, findVars>>

(* Mutant: the goroutine waits longer after a failure. *)
FailBacksOff(c) ==
  /\ routine[c] = "late"
  /\ reported' = reported \cup {c}
  /\ routine' = [routine EXCEPT ![c] = "wait"]
  /\ timer' = [timer EXCEPT ![c] = 2 * Period]
  /\ UNCHANGED <<serviceVars, hitVars, closed, requestVars, quiet, lapsed, blind, findVars>>

(* CreateFailure; its error is only logged, and then there is no failure   *)
(* until the next round.                                                   *)
Fail(c) ==
  /\ routine[c] = "late"
  /\ \/ reported' = reported \cup {c} /\ UNCHANGED quiet
     \/ /\ WriteFails
        /\ quiet' = [quiet EXCEPT ![c] = IF @ > Period THEN Period ELSE @]
        /\ UNCHANGED reported
  /\ routine' = [routine EXCEPT ![c] = "wait"]
  /\ timer' = [timer EXCEPT ![c] = Period]
  /\ UNCHANGED <<serviceVars, hitVars, closed, requestVars, lapsed, blind, findVars>>

(* case <-c.Running *)
Stop(c) ==
  /\ routine[c] = "wait" /\ c \in closed
  /\ routine' = [routine EXCEPT ![c] = "off"]
  /\ timer' = [timer EXCEPT ![c] = 0]
  /\ UNCHANGED <<serviceVars, hitVars, closed, requestVars, historyVars>>

Older(f) == [c \in CheckinIds |-> IF f[c] < Cap THEN f[c] + 1 ELSE Cap]

(* A minute passes when no goroutine has something to do at once. *)
Tick ==
  /\ \A c \in CheckinIds : routine[c] # "off" =>
       routine[c] = "wait" /\ timer[c] > 0 /\ c \notin closed
  /\ age' = Older(age)
  /\ quiet' = Older(quiet)
  /\ timer' = [c \in CheckinIds |-> IF routine[c] = "wait" THEN timer[c] - 1 ELSE 0]
  /\ UNCHANGED <<serviceVars, hits, routine, closed, requestVars, reported, lapsed, blind, findVars>>

-----------------------------------------------------------------------------
(* Requests. *)

Done(r) ==
  /\ rpc' = [rpc EXCEPT ![r] = "idle"]
  /\ op' = [op EXCEPT ![r] = "none"]
  /\ target' = [target EXCEPT ![r] = {}]
  /\ todo' = [todo EXCEPT ![r] = {}]

Goto(r, pc) ==
  /\ rpc' = [rpc EXCEPT ![r] = pc]
  /\ UNCHANGED <<op, target, todo>>

(* A DELETE of the service that has read the checkins. *)
Deleting ==
  \E r \in Requests : op[r] = "deleteService" /\ rpc[r] \notin {"first", "query"}

(* Checkins are written. *)
NewRows(some) ==
  /\ rows' = rows \cup some
  /\ overlooked' = IF Deleting \/ ~saved THEN overlooked \cup (some \ rows) ELSE overlooked

(* services.Find looks the service up in the registry (the handlers that   *)
(* create a checkin or delete the service, and others that name it), ...   *)
FindService(r, o) ==
  /\ rpc[r] = "idle" /\ listed
  /\ rpc' = [rpc EXCEPT ![r] = "first"]
  /\ op' = [op EXCEPT ![r] = o]
  /\ UNCHANGED <<serviceVars, hitVars, loopVars, target, todo, historyVars>>

(* ... and what comes after it. *)
Found(r) == IF op[r] = "deleteService" THEN "range" ELSE op[r]

(* DELETEs that count on what their own Find puts on the list. *)
Counting ==
  {r \in Requests : op[r] = "deleteService" /\ rpc[r] \in {"query", "append", "range"}}

(* r makes the list what `list` says.  There is no lock: while another     *)
(* request appends, each may write back a list it read before the other    *)
(* wrote.                                                                  *)
ListBecomes(r, list) ==
  /\ attached' \in {list} \cup
       (IF \E q \in Requests \ {r} : rpc[q] = "append" THEN SUBSET (attached \cup list) ELSE {})
  /\ troubled' = IF attached \cup list \subseteq attached'
                 THEN troubled ELSE troubled \cup Counting

(* A read of r's failed. *)
Misses(r) == troubled' = IF op[r] = "deleteService" THEN troubled \cup {r} ELSE troubled

(* Mutant: a DELETE goes on with the list it finds. *)
ReadRowKeepsList(r) ==
  /\ rpc[r] = "first"
  /\ Goto(r, Found(r))
  /\ UNCHANGED <<serviceVars, hitVars, loopVars, historyVars>>

(* db.First reads the row into the struct, and AfterFind hands gorm the    *)
(* list, which it empties.  When the row is gone or cannot be read, which  *)
(* Find does not look at, the list stays as it is.                         *)
ReadRow(r) ==
  /\ rpc[r] = "first"
  /\ \/ saved /\ ListBecomes(r, {}) /\ Goto(r, "query")
     \/ /\ ~saved \/ ReadFails
        /\ Misses(r)
        /\ Goto(r, Found(r))
        /\ UNCHANGED attached
  /\ UNCHANGED <<listed, saved, rows, unborn, hitVars, loopVars, lookVars, overlooked>>

(* gorm's SELECT of the checkins. *)
QueryCheckins(r) ==
  /\ rpc[r] = "query"
  /\ \/ /\ rpc' = [rpc EXCEPT ![r] = "append"]
        /\ todo' = [todo EXCEPT ![r] = Copies]
        /\ UNCHANGED <<op, target, troubled>>
     \/ /\ ReadFails
        /\ Misses(r)
        /\ Goto(r, Found(r))
  /\ UNCHANGED <<serviceVars, hitVars, loopVars, lookVars, overlooked>>

(* Its result goes to the list one by one, as far as it can be read. *)
AppendCheckin(r) ==
  /\ rpc[r] = "append"
  /\ \/ \E s \in todo[r] :
          /\ ListBecomes(r, attached \cup {s})
          /\ todo' = [todo EXCEPT ![r] = @ \ {s}]
          /\ UNCHANGED <<rpc, op, target>>
     \/ /\ \/ todo[r] = {} /\ UNCHANGED troubled
           \/ ReadFails /\ Misses(r)
        /\ rpc' = [rpc EXCEPT ![r] = Found(r)]
        /\ todo' = [todo EXCEPT ![r] = {}]
        /\ UNCHANGED <<attached, op, target>>
  /\ UNCHANGED <<listed, saved, rows, unborn, hitVars, loopVars, lookVars, overlooked>>

(* A request that only reads the service ends here; Update puts the struct *)
(* into the registry, and gorm may save the checkins on its list too.      *)
OtherEnd(r) ==
  /\ rpc[r] = "other"
  /\ \E some \in SUBSET Named(attached) : NewRows(some)
  /\ listed' \in {listed, TRUE}
  /\ Done(r)
  /\ UNCHANGED <<saved, unborn, attached, hitVars, loopVars, lookVars, troubled>>

(* checkinCreateHandler: when the service has been found, the row is       *)
(* written, or not; no goroutine is started.                               *)
CreateRow(r) ==
  /\ rpc[r] = "create"
  /\ \/ \E c \in unborn : NewRows({c}) /\ unborn' = unborn \ {c}
     \/ (WriteFails \/ unborn = {}) /\ UNCHANGED <<rows, unborn, overlooked>>
  /\ Done(r)
  /\ UNCHANGED <<listed, saved, attached, hitVars, loopVars, lookVars, troubled>>

(* findCheckin of the hit and delete handlers: a copy of the row. *)
FindCheckin(r, o) ==
  /\ rpc[r] = "idle"
  /\ \E c \in rows :
       /\ target' = [target EXCEPT ![r] = {c}]
       /\ op' = [op EXCEPT ![r] = o]
       /\ rpc' = [rpc EXCEPT ![r] = IF o = "hit" THEN "hit" ELSE "dropHits"]
  /\ UNCHANGED <<serviceVars, hitVars, loopVars, todo, historyVars>>

(* checkinHitHandler: last is never nil, so no goroutine is started; the   *)
(* hit is written, or not.                                                 *)
HitRow(r) ==
  /\ rpc[r] = "hit"
  /\ \/ \E c \in target[r] :
          /\ hits' = hits \cup {c}
          /\ age' = [age EXCEPT ![c] = 0]
          /\ quiet' = [quiet EXCEPT ![c] = 0]
          /\ reported' = reported \ {c}
          /\ lapsed' = IF age[c] > Period THEN lapsed \cup {c} ELSE lapsed
     \/ WriteFails /\ UNCHANGED <<hitVars, quiet, reported, lapsed>>
  /\ Done(r)
  /\ UNCHANGED <<serviceVars, loopVars, blind, findVars>>

(* apiServiceDeleteHandler has found the service; Delete closes its        *)
(* channel and purges its hits and failures, or fails to; then             *)
(* DeleteCheckins ranges over the list it finds.                           *)
DeleteServiceRange(r) ==
  /\ rpc[r] = "range"
  /\ \/ /\ todo' = [todo EXCEPT ![r] = attached]
        /\ rpc' = [rpc EXCEPT ![r] = "next"]
        /\ overlooked' = IF r \in troubled
                         THEN overlooked \cup (rows \ Named(attached)) ELSE overlooked
        /\ UNCHANGED <<op, target>>
     \/ WriteFails /\ Done(r) /\ UNCHANGED overlooked
  /\ troubled' = troubled \ {r}
  /\ UNCHANGED <<serviceVars, hitVars, loopVars, lookVars>>

(* Checkin.Close of a struct: nothing for a copy, and a panic (which ends  *)
(* the request) when the channel is closed already.                        *)
CloseOf(s) == closed' = IF s.owns THEN closed \cup {s.checkin} ELSE closed
Panics(s)  == s.owns /\ s.checkin \in closed

DeleteServiceNext(r) ==
  /\ rpc[r] = "next"
  /\ \E s \in todo[r] :
       \/ /\ ~Panics(s)
          /\ CloseOf(s)
          /\ todo' = [todo EXCEPT ![r] = @ \ {s}]
          /\ target' = [target EXCEPT ![r] = {s.checkin}]
          /\ rpc' = [rpc EXCEPT ![r] = "dropHits"]
          /\ UNCHANGED op
       \/ /\ Panics(s)
          /\ Done(r)
          /\ UNCHANGED closed
  /\ UNCHANGED <<serviceVars, hitVars, routine, timer, historyVars>>

(* Checkin.Delete: the hits go first, *)
DropHits(r) ==
  /\ rpc[r] = "dropHits"
  /\ \/ /\ hits' = hits \ target[r]
        /\ age' = [c \in CheckinIds |-> IF c \in target[r] THEN Cap ELSE age[c]]
        /\ Goto(r, "dropRow")
     \/ WriteFails /\ UNCHANGED hitVars /\ Done(r)
  /\ UNCHANGED <<serviceVars, loopVars, historyVars>>

(* then the row; an error ends the request. *)
DropRow(r) ==
  /\ rpc[r] = "dropRow"
  /\ \/ /\ rows' = rows \ target[r]
        /\ IF op[r] = "deleteService" THEN Goto(r, "next") ELSE Done(r)
     \/ WriteFails /\ UNCHANGED rows /\ Done(r)
  /\ UNCHANGED <<listed, saved, unborn, attached, hitVars, loopVars, historyVars>>

(* Association("Checkins").Clear empties s.Checkins; incidents and         *)
(* messages may fail to be deleted; then the service leaves the registry   *)
(* and its row is deleted, or not.                                         *)
DeleteServiceEnd(r) ==
  /\ rpc[r] = "next" /\ todo[r] = {}
  /\ ListBecomes(r, {})
  /\ \/ listed' = FALSE /\ saved' = FALSE
     \/ WriteFails /\ listed' \in {listed, FALSE} /\ UNCHANGED saved
  /\ Done(r)
  /\ UNCHANGED <<rows, unborn, hitVars, loopVars, lookVars, overlooked>>

(* The process ends and is started again; all() does not look at errors,   *)
(* and may find no service, or not all of its checkins.                    *)
Restart ==
  /\ listed' \in {saved} \cup (IF ReadFails THEN {FALSE} ELSE {})
  /\ \E seen \in SUBSET rows :
       /\ seen # rows => ReadFails
       /\ CheckinProcess(IF listed' THEN seen ELSE {})
  /\ closed' = {}
  /\ rpc' = [r \in Requests |-> "idle"]
  /\ op' = [r \in Requests |-> "none"]
  /\ target' = [r \in Requests |-> {}]
  /\ todo' = [r \in Requests |-> {}]
  /\ quiet' = [c \in CheckinIds |-> 0]
  /\ reported' = {}
  /\ troubled' = {}
  /\ UNCHANGED <<saved, rows, unborn, hitVars, lapsed, blind, overlooked>>

LoadService(r)   == \/ \E o \in Loaders : FindService(r, o)
                    \/ ReadRow(r) \/ QueryCheckins(r) \/ AppendCheckin(r)
HitCheckin(r)    == FindCheckin(r, "hit") \/ HitRow(r)
DeleteCheckin(r) == FindCheckin(r, "delete") \/ DropHits(r) \/ DropRow(r)
DeleteService(r) == DeleteServiceRange(r) \/ DeleteServiceNext(r) \/ DeleteServiceEnd(r)
Request(r)       == \/ LoadService(r) \/ OtherEnd(r) \/ CreateRow(r)
                    \/ HitCheckin(r) \/ DeleteCheckin(r) \/ DeleteService(r)
Loop(c)          == Wake(c) \/ Fail(c) \/ Stop(c)

Next ==
  \/ \E c \in CheckinIds : Loop(c)
  \/ \E r \in Requests : Request(r)
  \/ Tick
  \/ Restart

Spec == Init /\ [][Next]_vars

(* Time passes and goroutines run. *)
FairSpec ==
  /\ Spec
  /\ WF_vars(Tick)
  /\ \A c \in CheckinIds : WF_vars(Loop(c))

-----------------------------------------------------------------------------
(* Properties. *)

(* The state is well typed; a checkin with no hits has the age of one that *)
(* was never hit; only a goroutine that waits has a timer; and a request   *)
(* that loads the service does it for one of three reasons.                *)
TypeOK ==
  /\ listed \in BOOLEAN /\ saved \in BOOLEAN
  /\ rows \subseteq CheckinIds /\ unborn \subseteq CheckinIds \ rows
  /\ hits \subseteq CheckinIds \ unborn
  /\ attached \subseteq Structs
  /\ age \in [CheckinIds -> 0..Cap]
  /\ \A c \in CheckinIds \ hits : age[c] = Cap
  /\ routine \in [CheckinIds -> {"off", "wait", "late"}]
  /\ timer \in [CheckinIds -> 0..Period]
  /\ \A c \in CheckinIds : routine[c] # "wait" => timer[c] = 0
  /\ closed \subseteq CheckinIds
  /\ rpc \in [Requests -> {"idle", "first", "query", "append", "other", "create", "hit",
                           "range", "next", "dropHits", "dropRow"}]
  /\ op \in [Requests -> Ops \cup {"none"}]
  /\ \A r \in Requests : rpc[r] \in {"first", "query", "append"} => op[r] \in Loaders
  /\ target \in [Requests -> SUBSET CheckinIds]
  /\ todo \in [Requests -> SUBSET Structs]
  /\ quiet \in [CheckinIds -> 0..Cap]
  /\ reported \subseteq CheckinIds /\ lapsed \subseteq CheckinIds
  /\ blind \subseteq CheckinIds
  /\ troubled \subseteq Requests /\ overlooked \subseteq CheckinIds

(* A checkin whose goroutine runs and that has heard nothing for more than *)
(* two Periods has been reported: the goroutine looks once per Period, so  *)
(* a silence cannot hide between two looks, nor behind looks that could    *)
(* not read; and a report that could not be written is followed by another *)
(* within a Period (checkinRoutine).                                       *)
SilenceReported ==
  \A c \in CheckinIds :
    routine[c] # "off" /\ quiet[c] > 2 * Period => c \in reported

(* A failure is written only for a checkin that was more than a Period     *)
(* without a hit, now or until the hit that came between the look and the  *)
(* write, unless that look could not read the hits (checkinRoutine,        *)
(* LastHit, checkinHitHandler).                                            *)
OnlyLateReported ==
  \A c \in reported : age[c] > Period \/ c \in lapsed \/ c \in blind

(* The goroutines keep a Watchdog's promise by looking once per Period at  *)
(* a last hit that others write and delete meanwhile, some of them between *)
(* a look and its report (checkinRoutine, checkinHitHandler, Delete).      *)
Watch == INSTANCE Watchdog WITH
  Things <- CheckinIds, Patience <- Period,
  on <- {c \in CheckinIds : routine[c] # "off"}, silence <- quiet
KeepsWatch == Watch!Spec

(* A checkin outlives its service only if it was written after a DELETE    *)
(* had read the checkins, or was missed by one that could not read them or *)
(* that another request took them from: else DELETEs that overlap, fail    *)
(* half way, panic or are tried again, on the one list that each empties,  *)
(* fills and clears, leave none (Find, AfterFind, Service.Delete).         *)
OrphansOverlooked == ~saved => rows \subseteq overlooked

(* The goroutine of a checkin that has been deleted comes to an end        *)
(* ("Close will stop the checkin routine", and Delete calls it).           *)
DeletedStops ==
  \A c \in CheckinIds :
    (c \notin rows \cup unborn) ~> (routine[c] = "off" \/ c \in rows)

=============================================================================
