----------------------------- MODULE CheckinsProofs -----------------------------
(***************************************************************************)
(* Proofs about Checkins, for any checkins, requests, period and faults.   *)
(***************************************************************************)
EXTENDS Checkins, TLAPS

(* Requests and the registry only know checkins that have been created. *)
Born ==
  /\ \A r \in Requests : target[r] \cap unborn = {}
  /\ \A s \in attached : s.checkin \notin unborn
  /\ \A r \in Requests : \A s \in todo[r] : s.checkin \notin unborn

(* No goroutine has run for longer than the silence it has seen, *)
QuietIsSilence == \A c \in CheckinIds : quiet[c] <= age[c]

(* one that is writing a failure, or has written one, saw a late hit or    *)
(* none,                                                                   *)
LateHasReason ==
  \A c \in CheckinIds :
    routine[c] = "late" \/ c \in reported =>
      age[c] > Period \/ c \in lapsed \/ c \in blind

(* and one that has not will look again in time. *)
LooksInTime ==
  \A c \in CheckinIds : c \notin reported =>
    /\ routine[c] = "wait" => quiet[c] + timer[c] <= 2 * Period
    /\ routine[c] = "late" => quiet[c] <= 2 * Period

IInv == TypeOK /\ Born /\ QuietIsSilence /\ LateHasReason /\ LooksInTime

Timed == TypeOK /\ QuietIsSilence /\ LateHasReason /\ LooksInTime

LEMMA CapFacts == Cap \in Nat /\ Cap > Period /\ Cap > 2 * Period /\ Period \in Nat
BY PeriodAssumption DEF Cap

-----------------------------------------------------------------------------

LEMMA IInvInit == Init => IInv
<1> SUFFICES ASSUME Init PROVE IInv
  OBVIOUS
<1> USE CapFacts DEF Init
<1>1. TypeOK
  <2>1. attached \subseteq Structs
    BY DEF Structs
  <2>2. /\ age \in [CheckinIds -> 0..Cap]
        /\ \A c \in CheckinIds \ hits : age[c] = Cap
    OBVIOUS
  <2>3. /\ timer \in [CheckinIds -> 0..Period]
        /\ routine \in [CheckinIds -> {"off", "wait", "late"}]
        /\ quiet \in [CheckinIds -> 0..Cap]
    OBVIOUS
  <2> QED
    BY <2>1, <2>2, <2>3 DEF TypeOK
<1>2. Born
  BY DEF Born
<1>3. QuietIsSilence /\ LateHasReason /\ LooksInTime
  BY <1>1 DEF QuietIsSilence, LateHasReason, LooksInTime, TypeOK
<1> QED
  BY <1>1, <1>2, <1>3 DEF IInv

(* The steps of goroutines and of time. *)
LEMMA TimedWake ==
  ASSUME NEW c \in CheckinIds, Timed, Wake(c)
  PROVE  Timed'
<1> USE CapFacts DEF Timed, Wake, Late, serviceVars, hitVars, requestVars, findVars
<1>1. TypeOK'
  BY DEF TypeOK
<1>2. QuietIsSilence'
  BY DEF QuietIsSilence
<1>3. LateHasReason'
  BY DEF LateHasReason, TypeOK
<1>4. LooksInTime'
  <2> SUFFICES ASSUME NEW d \in CheckinIds, d \notin reported'
               PROVE  /\ routine'[d] = "wait" => quiet'[d] + timer'[d] <= 2 * Period
                      /\ routine'[d] = "late" => quiet'[d] <= 2 * Period
    BY DEF LooksInTime
  <2>1. CASE d # c
    <3>1. /\ routine'[d] = routine[d] /\ timer'[d] = timer[d]
          /\ quiet'[d] = quiet[d] /\ d \notin reported
      BY <2>1 DEF TypeOK
    <3> QED
      BY <3>1 DEF LooksInTime
  <2>2. CASE d = c /\ routine'[c] = "late"
    <3>1. quiet[c] + timer[c] <= 2 * Period /\ timer[c] = 0 /\ quiet[c] \in Nat
      BY <2>2 DEF LooksInTime, TypeOK
    <3> QED
      BY <2>2, <3>1
  <2>3. CASE d = c /\ routine'[c] # "late" /\ ~(age[c] > Period)
    <3>1. quiet[c] <= Period /\ quiet[c] \in Nat
      BY <2>3 DEF QuietIsSilence, TypeOK
    <3>2. routine'[c] = "wait" /\ timer'[c] = Period /\ quiet'[c] = quiet[c]
      BY <2>3 DEF TypeOK
    <3> QED
      BY <2>3, <3>1, <3>2
  <2>4. d # c \/ routine'[c] = "late" \/ ~(age[c] > Period)
    BY DEF TypeOK
  <2> QED
    BY <2>1, <2>2, <2>3, <2>4
<1> QED
  BY <1>1, <1>2, <1>3, <1>4

LEMMA TimedFail ==
  ASSUME NEW c \in CheckinIds, Timed, Fail(c)
  PROVE  Timed'
<1> USE CapFacts DEF Timed, Fail, serviceVars, hitVars, requestVars, findVars
<1>1. TypeOK'
  BY DEF TypeOK
<1>2. QuietIsSilence'
  <2>1. ASSUME NEW d \in CheckinIds
        PROVE  /\ quiet'[d] <= quiet[d] /\ age'[d] = age[d]
               /\ quiet[d] \in Nat /\ quiet'[d] \in Nat /\ age[d] \in Nat
    BY DEF TypeOK
  <2> QED
    BY <2>1 DEF QuietIsSilence
<1>3. LateHasReason'
  BY DEF LateHasReason, TypeOK
<1>4. LooksInTime'
  BY DEF LooksInTime, TypeOK
<1> QED
  BY <1>1, <1>2, <1>3, <1>4

LEMMA TimedStop ==
  ASSUME NEW c \in CheckinIds, Timed, Stop(c)
  PROVE  Timed'
<1> USE CapFacts DEF Timed, Stop, serviceVars, hitVars, requestVars, historyVars, lookVars, findVars
<1>1. TypeOK'
  BY DEF TypeOK
<1>2. QuietIsSilence'
  BY DEF QuietIsSilence
<1>3. LateHasReason'
  BY DEF LateHasReason, TypeOK
<1>4. LooksInTime'
  BY DEF LooksInTime, TypeOK
<1> QED
  BY <1>1, <1>2, <1>3, <1>4

LEMMA TimedTick ==
  ASSUME Timed, Tick
  PROVE  Timed'
<1> USE CapFacts DEF Timed, Tick, Older, serviceVars, requestVars, findVars
<1>1. \A c \in CheckinIds :
        /\ age'[c] = (IF age[c] < Cap THEN age[c] + 1 ELSE Cap)
        /\ quiet'[c] = (IF quiet[c] < Cap THEN quiet[c] + 1 ELSE Cap)
        /\ timer'[c] = (IF routine[c] = "wait" THEN timer[c] - 1 ELSE 0)
        /\ routine'[c] = routine[c]
        /\ age[c] \in 0..Cap /\ quiet[c] \in 0..Cap /\ timer[c] \in 0..Period
        /\ routine[c] = "wait" => timer[c] > 0
        /\ routine[c] # "late"
  BY DEF TypeOK
<1>2. TypeOK'
  <2>1. /\ age' \in [CheckinIds -> 0..Cap] /\ quiet' \in [CheckinIds -> 0..Cap]
    BY DEF TypeOK
  <2>2. timer' \in [CheckinIds -> 0..Period]
    BY <1>1
  <2>3. \A c \in CheckinIds \ hits : age'[c] = Cap
    BY <1>1 DEF TypeOK
  <2>4. \A c \in CheckinIds : routine'[c] # "wait" => timer'[c] = 0
    BY <1>1
  <2> QED
    BY <2>1, <2>2, <2>3, <2>4 DEF TypeOK
<1>3. QuietIsSilence'
  BY <1>1 DEF QuietIsSilence
<1>4. LateHasReason'
  BY <1>1 DEF LateHasReason
<1>5. LooksInTime'
  BY <1>1 DEF LooksInTime
<1> QED
  BY <1>2, <1>3, <1>4, <1>5

-----------------------------------------------------------------------------
(* The steps of requests.  What they change besides rows and structs is    *)
(* the age of a checkin that is hit, or whose hits are deleted.            *)

(* Steps that leave ages and goroutines alone keep the timing facts. *)
LEMMA TimedFrame ==
  ASSUME QuietIsSilence, LateHasReason, LooksInTime,
         age' = age, routine' = routine, timer' = timer,
         UNCHANGED lookVars
  PROVE  (QuietIsSilence /\ LateHasReason /\ LooksInTime)'
BY DEF QuietIsSilence, LateHasReason, LooksInTime, lookVars

LEMMA ListBecomesStep ==
  ASSUME NEW r \in Requests, NEW list, ListBecomes(r, list), troubled \subseteq Requests
  PROVE  attached' \subseteq attached \cup list /\ troubled' \subseteq Requests
BY DEF ListBecomes, Counting

LEMMA IInvFindSteps ==
  ASSUME IInv, NEW r \in Requests, LoadService(r)
  PROVE  IInv'
<1> USE DEF IInv, Goto, Found, Misses, serviceVars, hitVars, loopVars, historyVars, findVars
<1>1. ASSUME NEW o \in Loaders, FindService(r, o) PROVE IInv'
  <2>1. TypeOK' /\ Born'
    BY <1>1 DEF FindService, TypeOK, Born, Ops, Loaders, lookVars
  <2> QED
    BY <1>1, <2>1, TimedFrame DEF FindService
<1>2. CASE ReadRow(r)
  <2>1. attached' \subseteq attached /\ troubled' \subseteq Requests
    BY <1>2, ListBecomesStep DEF ReadRow, TypeOK
  <2>2. rpc' \in [Requests -> {"idle", "first", "query", "append", "other", "create", "hit",
                             "range", "next", "dropHits", "dropRow"}]
    BY <1>2 DEF ReadRow, TypeOK, Ops, Loaders
  <2>3. TypeOK' /\ Born'
    BY <1>2, <2>1, <2>2 DEF ReadRow, TypeOK, Born, lookVars
  <2> QED
    BY <1>2, <2>3, TimedFrame DEF ReadRow
<1>3. CASE QueryCheckins(r)
  <2>1. Copies \subseteq Structs /\ \A s \in Copies : s.checkin \notin unborn
    BY DEF TypeOK, Copies, Structs
  <2>2. /\ rpc' \in [Requests -> {"idle", "first", "query", "append", "other", "create", "hit",
                                "range", "next", "dropHits", "dropRow"}]
        /\ troubled' \subseteq Requests
    BY <1>3 DEF QueryCheckins, TypeOK, Ops, Loaders
  <2>3. TypeOK'
    BY <1>3, <2>1, <2>2 DEF QueryCheckins, TypeOK, lookVars
  <2>4. \A q \in Requests : \A s \in todo'[q] : s.checkin \notin unborn
    BY <1>3, <2>1 DEF QueryCheckins, TypeOK, Born
  <2>5. Born'
    BY <1>3, <2>4 DEF QueryCheckins, Born
  <2> QED
    BY <1>3, <2>3, <2>5, TimedFrame DEF QueryCheckins
<1>4. CASE AppendCheckin(r)
  <2>1. /\ attached' \subseteq attached \cup todo[r] /\ troubled' \subseteq Requests
        /\ \A q \in Requests : todo'[q] \subseteq todo[q]
        /\ todo' \in [Requests -> SUBSET Structs]
    <3>1. ASSUME NEW s \in todo[r], ListBecomes(r, attached \cup {s}),
                 todo' = [todo EXCEPT ![r] = @ \ {s}]
          PROVE  /\ attached' \subseteq attached \cup todo[r] /\ troubled' \subseteq Requests
                 /\ \A q \in Requests : todo'[q] \subseteq todo[q]
                 /\ todo' \in [Requests -> SUBSET Structs]
      <4>1. attached' \subseteq attached \cup {s} /\ troubled' \subseteq Requests
        BY <3>1, ListBecomesStep DEF TypeOK
      <4> QED
        BY <3>1, <4>1 DEF TypeOK
    <3>2. CASE todo' = [todo EXCEPT ![r] = {}] /\ UNCHANGED attached /\ troubled' \subseteq Requests
      BY <3>2 DEF TypeOK
    <3> QED
      <4>1. CASE \E s \in todo[r] :
                   /\ ListBecomes(r, attached \cup {s})
                   /\ todo' = [todo EXCEPT ![r] = @ \ {s}]
        <5>1. PICK s \in todo[r] : /\ ListBecomes(r, attached \cup {s})
                                   /\ todo' = [todo EXCEPT ![r] = @ \ {s}]
          BY <4>1
        <5> QED
          BY <3>1, <5>1
      <4>2. CASE /\ \/ todo[r] = {} /\ UNCHANGED troubled
                    \/ ReadFails /\ Misses(r)
                 /\ todo' = [todo EXCEPT ![r] = {}]
                 /\ UNCHANGED attached
        <5>1. troubled' \subseteq Requests
          BY <4>2 DEF TypeOK
        <5> QED
          BY <3>2, <4>2, <5>1
      <4> QED
        BY <1>4, <4>1, <4>2 DEF AppendCheckin
  <2>2. rpc' \in [Requests -> {"idle", "first", "query", "append", "other", "create", "hit",
                             "range", "next", "dropHits", "dropRow"}]
    BY <1>4 DEF AppendCheckin, TypeOK, Ops, Loaders
  <2>3. TypeOK' /\ Born'
    BY <1>4, <2>1, <2>2 DEF AppendCheckin, TypeOK, Born, lookVars
  <2> QED
    BY <1>4, <2>3, TimedFrame DEF AppendCheckin
<1> QED
  BY <1>1, <1>2, <1>3, <1>4 DEF LoadService

LEMMA IInvFindCheckin ==
  ASSUME IInv, NEW r \in Requests,
         FindCheckin(r, "hit") \/ FindCheckin(r, "delete")
  PROVE  IInv'
<1> USE DEF IInv, serviceVars, hitVars, loopVars, historyVars
<1>1. PICK c \in rows, o \in {"hit", "delete"} :
        /\ target' = [target EXCEPT ![r] = {c}]
        /\ op' = [op EXCEPT ![r] = o]
        /\ rpc' = [rpc EXCEPT ![r] = IF o = "hit" THEN "hit" ELSE "dropHits"]
  BY DEF FindCheckin
<1>2. UNCHANGED <<serviceVars, hitVars, loopVars, todo, historyVars>>
  BY DEF FindCheckin
<1>3. TypeOK'
  BY <1>1, <1>2 DEF TypeOK, Ops, Loaders, lookVars, findVars
<1>4. Born'
  BY <1>1, <1>2 DEF TypeOK, Born
<1> QED
  BY <1>2, <1>3, <1>4, TimedFrame

LEMMA IInvHitRow ==
  ASSUME IInv, NEW r \in Requests, HitRow(r)
  PROVE  IInv'
<1> USE CapFacts DEF IInv, HitRow, Done, serviceVars, loopVars, findVars
<1>1. CASE UNCHANGED <<hitVars, quiet, reported, lapsed>>
  <2>1. TypeOK'
    BY <1>1 DEF TypeOK, hitVars
  <2>2. Born'
    BY DEF Born, TypeOK
  <2> QED
    BY <1>1, <2>1, <2>2, TimedFrame DEF hitVars, lookVars
<1>2. CASE \E c \in target[r] :
             /\ hits' = hits \cup {c}
             /\ age' = [age EXCEPT ![c] = 0]
             /\ quiet' = [quiet EXCEPT ![c] = 0]
             /\ reported' = reported \ {c}
             /\ lapsed' = IF age[c] > Period THEN lapsed \cup {c} ELSE lapsed
  <2>1. PICK c \in target[r] :
             /\ hits' = hits \cup {c}
             /\ age' = [age EXCEPT ![c] = 0]
             /\ quiet' = [quiet EXCEPT ![c] = 0]
             /\ reported' = reported \ {c}
             /\ lapsed' = IF age[c] > Period THEN lapsed \cup {c} ELSE lapsed
    BY <1>2
  <2>2. c \in CheckinIds /\ c \notin unborn
    BY DEF TypeOK, Born
  <2>3. TypeOK'
    BY <2>1, <2>2 DEF TypeOK
  <2>4. Born'
    BY DEF Born, TypeOK
  <2>5. \A d \in CheckinIds :
          /\ age'[d] = (IF d = c THEN 0 ELSE age[d])
          /\ quiet'[d] = (IF d = c THEN 0 ELSE quiet[d])
          /\ routine'[d] = routine[d] /\ timer'[d] = timer[d]
          /\ timer[d] \in 0..Period
    BY <2>1, <2>2 DEF TypeOK
  <2>6. QuietIsSilence'
    BY <2>5 DEF QuietIsSilence
  <2>7. LateHasReason'
    BY <2>1, <2>5 DEF LateHasReason
  <2>8. LooksInTime'
    BY <2>1, <2>5 DEF LooksInTime
  <2> QED
    BY <2>3, <2>4, <2>6, <2>7, <2>8
<1> QED
  BY <1>1, <1>2

LEMMA IInvDropHits ==
  ASSUME IInv, NEW r \in Requests, DropHits(r)
  PROVE  IInv'
<1> USE CapFacts DEF IInv, DropHits, Done, Goto, serviceVars, loopVars, historyVars, lookVars, findVars
<1>1. CASE UNCHANGED hitVars
  <2>1. TypeOK'
    BY <1>1 DEF TypeOK, hitVars
  <2>2. Born'
    BY DEF Born, TypeOK
  <2> QED
    BY <1>1, <2>1, <2>2, TimedFrame DEF hitVars
<1>2. CASE /\ hits' = hits \ target[r]
           /\ age' = [c \in CheckinIds |-> IF c \in target[r] THEN Cap ELSE age[c]]
           /\ Goto(r, "dropRow")
  <2>1. TypeOK'
    BY <1>2 DEF TypeOK
  <2>2. Born'
    BY <1>2 DEF Born, TypeOK
  <2>3. \A d \in CheckinIds :
          /\ age'[d] = (IF d \in target[r] THEN Cap ELSE age[d])
          /\ quiet'[d] = quiet[d] /\ quiet[d] \in 0..Cap
    BY <1>2 DEF TypeOK
  <2>4. QuietIsSilence'
    BY <2>3 DEF QuietIsSilence
  <2>5. LateHasReason'
    BY <2>3 DEF LateHasReason
  <2>6. LooksInTime'
    BY DEF LooksInTime
  <2> QED
    BY <2>1, <2>2, <2>4, <2>5, <2>6
<1> QED
  BY <1>1, <1>2

(* The other steps of requests touch neither ages nor goroutines. *)
LEMMA IInvOtherSteps ==
  ASSUME IInv, NEW r \in Requests,
         \/ OtherEnd(r) \/ CreateRow(r) \/ DeleteServiceRange(r) \/ DeleteServiceNext(r)
         \/ DropRow(r) \/ DeleteServiceEnd(r)
  PROVE  IInv'
<1> USE DEF IInv, Done, Goto, NewRows, serviceVars, hitVars, loopVars, historyVars, findVars
<1>1. CASE CreateRow(r)
  <2>1. TypeOK' /\ Born'
    BY <1>1 DEF CreateRow, TypeOK, Born, lookVars
  <2> QED
    BY <1>1, <2>1, TimedFrame DEF CreateRow
<1>2. CASE DeleteServiceRange(r)
  <2>1. TypeOK' /\ Born'
    BY <1>2 DEF DeleteServiceRange, TypeOK, Born, lookVars
  <2> QED
    BY <1>2, <2>1, TimedFrame DEF DeleteServiceRange
<1>3. CASE DeleteServiceNext(r)
  <2>1. PICK s \in todo[r] :
          \/ /\ CloseOf(s)
             /\ todo' = [todo EXCEPT ![r] = @ \ {s}]
             /\ target' = [target EXCEPT ![r] = {s.checkin}]
             /\ rpc' = [rpc EXCEPT ![r] = "dropHits"]
             /\ UNCHANGED op
          \/ /\ Done(r)
             /\ UNCHANGED closed
    BY <1>3 DEF DeleteServiceNext
  <2>2. s \in Structs /\ s.checkin \in CheckinIds /\ s.checkin \notin unborn
    BY <2>1 DEF TypeOK, Born, Structs
  <2>3. UNCHANGED <<serviceVars, hitVars, routine, timer, historyVars>>
    BY <1>3 DEF DeleteServiceNext
  <2>4. TypeOK'
    BY <2>1, <2>2, <2>3 DEF TypeOK, CloseOf, lookVars
  <2>5. Born'
    BY <2>1, <2>2, <2>3 DEF TypeOK, Born
  <2> QED
    BY <2>3, <2>4, <2>5, TimedFrame
<1>4. CASE DropRow(r)
  <2>1. TypeOK' /\ Born'
    BY <1>4 DEF DropRow, TypeOK, Born, lookVars
  <2> QED
    BY <1>4, <2>1, TimedFrame DEF DropRow
<1>5. CASE DeleteServiceEnd(r)
  <2>1. attached' \subseteq attached /\ troubled' \subseteq Requests
    BY <1>5, ListBecomesStep DEF DeleteServiceEnd, TypeOK
  <2>2. TypeOK' /\ Born'
    BY <1>5, <2>1 DEF DeleteServiceEnd, TypeOK, Born, lookVars
  <2> QED
    BY <1>5, <2>2, TimedFrame DEF DeleteServiceEnd
<1>6. CASE OtherEnd(r)
  <2>1. PICK some \in SUBSET Named(attached) : NewRows(some)
    BY <1>6 DEF OtherEnd
  <2>2. some \subseteq CheckinIds \ unborn
    BY <2>1 DEF TypeOK, Born, Named, Structs
  <2>3. /\ rows' = rows \cup some /\ rows' \subseteq CheckinIds \ unborn
        /\ overlooked' \subseteq CheckinIds
    BY <2>1, <2>2 DEF TypeOK
  <2>4. TypeOK' /\ Born'
    BY <1>6, <2>3 DEF OtherEnd, TypeOK, Born, lookVars
  <2> QED
    BY <1>6, <2>4, TimedFrame DEF OtherEnd
<1> QED
  BY <1>1, <1>2, <1>3, <1>4, <1>5, <1>6

LEMMA IInvRestart ==
  ASSUME IInv, Restart
  PROVE  IInv'
<1> USE CapFacts DEF IInv, Restart, hitVars
<1>1. PICK some \in SUBSET rows : CheckinProcess(some)
  <2>1. PICK seen \in SUBSET rows : CheckinProcess(IF listed' THEN seen ELSE {})
    OBVIOUS
  <2>2. (IF listed' THEN seen ELSE {}) \in SUBSET rows
    OBVIOUS
  <2> QED
    BY <2>1, <2>2
<1>2. TypeOK'
  <2>1. attached' \subseteq Structs
    BY <1>1 DEF TypeOK, Structs, CheckinProcess
  <2>2. /\ routine' \in [CheckinIds -> {"off", "wait", "late"}]
        /\ timer' \in [CheckinIds -> 0..Period]
        /\ \A c \in CheckinIds : routine'[c] # "wait" => timer'[c] = 0
    BY <1>1 DEF CheckinProcess
  <2>3. quiet' \in [CheckinIds -> 0..Cap]
    OBVIOUS
  <2>4. listed' \in BOOLEAN
    BY DEF TypeOK
  <2> QED
    BY <2>1, <2>2, <2>3, <2>4 DEF TypeOK
<1>3. Born'
  BY <1>1 DEF Born, TypeOK, CheckinProcess
<1>4. QuietIsSilence'
  BY DEF QuietIsSilence, TypeOK
<1>5. LateHasReason'
  BY <1>1 DEF LateHasReason, CheckinProcess
<1>6. LooksInTime'
  BY <1>1 DEF LooksInTime, CheckinProcess
<1> QED
  BY <1>2, <1>3, <1>4, <1>5, <1>6

-----------------------------------------------------------------------------

LEMMA IInvNext == IInv /\ [Next]_vars => IInv'
<1> SUFFICES ASSUME IInv, [Next]_vars PROVE IInv'
  OBVIOUS
<1>1. ASSUME NEW c \in CheckinIds, Loop(c) PROVE IInv'
  <2>1. Timed'
    BY <1>1, TimedWake, TimedFail, TimedStop DEF Loop, IInv, Timed
  <2>2. UNCHANGED <<target, todo, attached, unborn>>
    BY <1>1 DEF Loop, Wake, Fail, Stop, serviceVars, requestVars
  <2> QED
    BY <2>1, <2>2 DEF IInv, Timed, Born
<1>2. CASE Tick
  <2>1. Timed'
    BY <1>2, TimedTick DEF IInv, Timed
  <2>2. UNCHANGED <<target, todo, attached, unborn>>
    BY <1>2 DEF Tick, serviceVars, requestVars
  <2> QED
    BY <2>1, <2>2 DEF IInv, Timed, Born
<1>3. ASSUME NEW r \in Requests, Request(r) PROVE IInv'
  BY <1>3, IInvFindSteps, IInvFindCheckin, IInvHitRow, IInvDropHits, IInvOtherSteps
     DEF Request, HitCheckin, DeleteCheckin, DeleteService
<1>4. CASE Restart
  BY <1>4, IInvRestart
<1>5. CASE UNCHANGED vars
  BY <1>5 DEF IInv, TypeOK, Born, QuietIsSilence, LateHasReason, LooksInTime, vars,
              serviceVars, hitVars, loopVars, requestVars, historyVars, lookVars, findVars
<1> QED
  BY <1>1, <1>2, <1>3, <1>4, <1>5 DEF Next

THEOREM Inductive == Spec => []IInv
BY IInvInit, IInvNext, PTL DEF Spec

(* Type correctness. *)
THEOREM TypeCorrect == Spec => []TypeOK
<1>1. IInv => TypeOK
  BY DEF IInv
<1> QED
  BY <1>1, Inductive, PTL

(* For any Period, a silence of more than two Periods has been reported,   *)
(* or again within a Period if a report was lost: the time a goroutine has *)
(* been kept waiting and its timer never exceed two Periods together       *)
(* (checkinRoutine).                                                       *)
THEOREM SilenceIsReported == Spec => []SilenceReported
<1>1. IInv => SilenceReported
  BY CapFacts DEF IInv, TypeOK, LooksInTime, SilenceReported
<1> QED
  BY <1>1, Inductive, PTL

(* For any Period, a failure is written only after more than a Period      *)
(* without a hit, or after a look that could not read the hits             *)
(* (checkinRoutine, LastHit, checkinHitHandler).                           *)
THEOREM ReportsAreLate == Spec => []OnlyLateReported
<1>1. IInv => OnlyLateReported
  BY DEF IInv, TypeOK, LateHasReason, OnlyLateReported
<1> QED
  BY <1>1, Inductive, PTL

-----------------------------------------------------------------------------
(* The refinement of Watchdog.                                             *)

LEMMA SameLimit == Watch!Limit = Cap
BY DEF Watch!Limit, Cap

(* What a Watchdog sees of a state; it stutters when none of this changes. *)
LEMMA WatchStutter ==
  ASSUME UNCHANGED <<routine, age, lookVars>>
  PROVE  UNCHANGED Watch!vars
BY DEF Watch!vars, lookVars

LEMMA WatchInit == Init => Watch!Init
BY SameLimit DEF Init, Watch!Init

(* A goroutine that looks, and goes on or not, *)
LEMMA WatchWake ==
  ASSUME TypeOK, NEW c \in CheckinIds, Wake(c)
  PROVE  Watch!Look(c)
<1>1. /\ \A d \in CheckinIds : routine'[d] # "off" <=> routine[d] # "off"
      /\ routine[c] # "off"
  BY DEF Wake, TypeOK
<1> QED
  BY <1>1 DEF Wake, Late, Watch!Look, Watch!Late, hitVars

(* has seen a silence, or nothing, when it comes to write the failure,     *)
(* whatever was hit in between and whether it is written or not,           *)
LEMMA WatchFail ==
  ASSUME IInv, NEW c \in CheckinIds, Fail(c)
  PROVE  Watch!Report(c) \/ Watch!Lose(c)
<1>1. /\ \A d \in CheckinIds : routine'[d] # "off" <=> routine[d] # "off"
      /\ routine[c] # "off"
  BY DEF Fail, IInv, TypeOK
<1>2. age[c] > Period \/ c \in lapsed \/ c \in blind
  BY DEF Fail, IInv, LateHasReason
<1>3. Watch!MayReport(c)
  BY <1>1, <1>2 DEF Watch!MayReport, Watch!Late
<1>4. CASE reported' = reported \cup {c} /\ UNCHANGED quiet
  BY <1>1, <1>3, <1>4 DEF Fail, Watch!Report, hitVars
<1>5. CASE /\ quiet' = [quiet EXCEPT ![c] = IF @ > Period THEN Period ELSE @]
           /\ UNCHANGED reported
  BY <1>1, <1>3, <1>5 DEF Fail, Watch!Lose, hitVars
<1> QED
  BY <1>4, <1>5 DEF Fail

LEMMA WatchStop ==
  ASSUME TypeOK, NEW c \in CheckinIds, Stop(c)
  PROVE  Watch!Leave(c)
<1>1. \A d \in CheckinIds : routine'[d] # "off" <=> routine[d] # "off" /\ d # c
  BY DEF Stop, TypeOK
<1> QED
  BY <1>1 DEF Stop, Watch!Leave, hitVars, historyVars, lookVars

(* and looks again before the silence it has not reported is too long. *)
LEMMA WatchTick ==
  ASSUME IInv, Tick
  PROVE  Watch!Minute
<1>1. ASSUME NEW c \in CheckinIds, routine[c] # "off", c \notin reported
      PROVE  quiet[c] < 2 * Period
  <2>1. routine[c] = "wait" /\ timer[c] > 0
    BY <1>1 DEF Tick
  <2>2. quiet[c] + timer[c] <= 2 * Period
    BY <1>1, <2>1 DEF IInv, LooksInTime
  <2> QED
    BY <2>1, <2>2, CapFacts DEF IInv, TypeOK
<1>2. age' = Watch!Older(age) /\ quiet' = Watch!Older(quiet)
  BY SameLimit DEF Tick, Older, Watch!Older
<1> QED
  BY <1>1, <1>2 DEF Tick, Watch!Minute

LEMMA WatchHitRow ==
  ASSUME IInv, NEW r \in Requests, HitRow(r)
  PROVE  Watch!Next \/ UNCHANGED Watch!vars
<1>1. UNCHANGED routine
  BY DEF HitRow, loopVars
<1>2. CASE UNCHANGED <<hitVars, quiet, reported, lapsed>>
  BY <1>1, <1>2, WatchStutter DEF HitRow, hitVars, lookVars
<1>3. ASSUME NEW c \in target[r],
             age' = [age EXCEPT ![c] = 0], quiet' = [quiet EXCEPT ![c] = 0],
             reported' = reported \ {c},
             lapsed' = IF age[c] > Period THEN lapsed \cup {c} ELSE lapsed
      PROVE  Watch!Next
  <2>1. c \in CheckinIds
    BY DEF IInv, TypeOK
  <2>2. Watch!Hear(c)
    BY <1>1, <1>3 DEF HitRow, Watch!Hear, Watch!Late
  <2> QED
    BY <2>1, <2>2 DEF Watch!Next
<1> QED
  BY <1>2, <1>3 DEF HitRow

LEMMA WatchDropHits ==
  ASSUME IInv, NEW r \in Requests, DropHits(r)
  PROVE  Watch!Next \/ UNCHANGED Watch!vars
<1>1. UNCHANGED <<routine, lookVars>>
  BY DEF DropHits, loopVars, historyVars
<1>2. CASE UNCHANGED hitVars
  BY <1>1, <1>2, WatchStutter DEF hitVars
<1>3. CASE age' = [c \in CheckinIds |-> IF c \in target[r] THEN Cap ELSE age[c]]
  <2>1. target[r] \in SUBSET CheckinIds
    BY DEF IInv, TypeOK
  <2>2. Watch!Forget(target[r])
    BY <1>1, <1>3, SameLimit DEF Watch!Forget, lookVars
  <2> QED
    BY <2>1, <2>2 DEF Watch!Next
<1> QED
  BY <1>2, <1>3 DEF DropHits

LEMMA WatchRestart ==
  ASSUME Restart
  PROVE  Watch!Restart
BY DEF Restart, Watch!Restart, hitVars

LEMMA WatchNext ==
  ASSUME IInv, [Next]_vars
  PROVE  [Watch!Next]_Watch!vars
<1>1. ASSUME NEW c \in CheckinIds, Loop(c) PROVE Watch!Next
  BY <1>1, WatchWake, WatchFail, WatchStop DEF Loop, Watch!Next, IInv
<1>2. CASE Tick
  BY <1>2, WatchTick DEF Watch!Next
<1>3. CASE Restart
  BY <1>3, WatchRestart DEF Watch!Next
<1>4. ASSUME NEW r \in Requests, HitRow(r) \/ DropHits(r)
      PROVE  [Watch!Next]_Watch!vars
  BY <1>4, WatchHitRow, WatchDropHits
<1>5. ASSUME NEW r \in Requests,
             \/ LoadService(r) \/ OtherEnd(r) \/ CreateRow(r)
             \/ FindCheckin(r, "hit") \/ FindCheckin(r, "delete")
             \/ DropRow(r) \/ DeleteService(r)
      PROVE  UNCHANGED Watch!vars
  <2>1. UNCHANGED <<routine, age, lookVars>>
    BY <1>5 DEF LoadService, FindService, ReadRow, QueryCheckins, AppendCheckin, OtherEnd,
                CreateRow, FindCheckin, DropRow, DeleteService,
                DeleteServiceRange, DeleteServiceNext, DeleteServiceEnd,
                hitVars, loopVars, historyVars
  <2> QED
    BY <2>1, WatchStutter
<1>6. CASE UNCHANGED vars
  BY <1>6, WatchStutter DEF vars, hitVars, loopVars, historyVars
<1> QED
  BY <1>1, <1>2, <1>3, <1>4, <1>5, <1>6 DEF Next, Request, HitCheckin, DeleteCheckin

(* For any Period, checkins and requests, goroutines that look once per    *)
(* Period implement Watchdog: they report before twice the Period has gone *)
(* by, again when a report was lost, and nobody too early unless they      *)
(* could not look (checkinRoutine).                                        *)
THEOREM WatchIsKept == Spec => KeepsWatch
<1>1. IInv /\ [Next]_vars => [Watch!Next]_Watch!vars
  BY WatchNext
<1> QED
  BY <1>1, WatchInit, Inductive, PTL DEF Spec, KeepsWatch, Watch!Spec

-----------------------------------------------------------------------------
(* No deletion of the service loses a checkin that its own Find could      *)
(* load and nobody took away: it stands on the list of the DELETE that     *)
(* will clear s.Checkins.                                                  *)

(* A row not overlooked has been appended or is about to be, is in the     *)
(* registry when the list is about to be taken, on the list while it is    *)
(* worked through, or in hand.                                             *)
Kept(r) == op[r] = "deleteService" =>
  /\ rpc[r] = "append" /\ r \notin troubled =>
       rows \subseteq overlooked \cup Named(attached) \cup Named(todo[r])
  /\ rpc[r] = "range" /\ r \notin troubled =>
       rows \subseteq overlooked \cup Named(attached)
  /\ rpc[r] = "next" => rows \subseteq overlooked \cup Named(todo[r])
  /\ rpc[r] \in {"dropHits", "dropRow"} =>
       rows \subseteq overlooked \cup Named(todo[r]) \cup target[r]

(* Only DELETEs of the service have a list. *)
Ranging == \A r \in Requests : rpc[r] \in {"range", "next"} => op[r] = "deleteService"

ListInv == OrphansOverlooked /\ Ranging /\ \A r \in Requests : Kept(r)

LEMMA NamedCopies == Named(Copies) = rows
<1>1. ASSUME NEW c \in rows PROVE c \in Named(Copies)
  <2>1. [checkin |-> c, owns |-> FALSE] \in Copies
    BY DEF Copies
  <2> QED
    BY <2>1 DEF Named
<1>2. Named(Copies) \subseteq rows
  BY DEF Named, Copies
<1> QED
  BY <1>1, <1>2

LEMMA NamedLess ==
  ASSUME NEW S, NEW s \in S
  PROVE  Named(S) \subseteq Named(S \ {s}) \cup {s.checkin}
BY DEF Named

(* A request that stays where it is keeps its part when no row is added    *)
(* that is not overlooked, and nothing is taken that it counts on.         *)
LEMMA KeptFrame ==
  ASSUME NEW r \in Requests, Kept(r),
         rpc'[r] = rpc[r], op'[r] = op[r], target'[r] = target[r], todo'[r] = todo[r],
         /\ op[r] = "deleteService" /\ rpc[r] \notin {"first", "query"}
            => rows' \subseteq rows \cup overlooked',
         overlooked \subseteq overlooked',
         /\ op[r] = "deleteService" /\ rpc[r] \in {"append", "range"} /\ r \notin troubled'
            => attached \subseteq attached' /\ r \notin troubled
  PROVE  Kept(r)'
<1>1. Named(attached) \subseteq Named(attached') \/ ~(attached \subseteq attached')
  BY DEF Named
<1> QED
  BY <1>1 DEF Kept

(* A request that is not at work on a list has no part. *)
LEMMA KeptIdle ==
  ASSUME NEW r \in Requests,
         \/ rpc'[r] \notin {"append", "range", "next", "dropHits", "dropRow"}
         \/ op'[r] # "deleteService"
  PROVE  Kept(r)'
BY DEF Kept

(* Whoever changes the registry's list takes nothing from others unless    *)
(* these are troubled.                                                     *)
LEMMA ListBecomesOthers ==
  ASSUME NEW r \in Requests, NEW list, ListBecomes(r, list),
         NEW q \in Requests, op[q] = "deleteService", rpc[q] \in {"append", "range"},
         q \notin troubled'
  PROVE  attached \cup list \subseteq attached' /\ q \notin troubled
BY DEF ListBecomes, Counting

LEMMA ListLoad ==
  ASSUME TypeOK, ListInv, NEW r \in Requests, LoadService(r)
  PROVE  ListInv'
<1> USE DEF Goto, serviceVars, historyVars, findVars
<1>1. ASSUME NEW o \in Loaders, FindService(r, o) PROVE ListInv'
  <2>1. ASSUME NEW q \in Requests, q # r PROVE Kept(q)'
    BY <1>1, <2>1, KeptFrame DEF FindService, TypeOK, ListInv
  <2>2. Kept(r)'
    BY <1>1, KeptIdle DEF FindService, TypeOK
  <2> QED
    BY <1>1, <2>1, <2>2 DEF FindService, ListInv, OrphansOverlooked, Ranging, TypeOK
<1>2. CASE ReadRow(r)
  <2>1. ASSUME NEW q \in Requests, q # r PROVE Kept(q)'
    <3>1. CASE ListBecomes(r, {})
      BY <1>2, <2>1, <3>1, ListBecomesOthers, KeptFrame DEF ReadRow, TypeOK, ListInv
    <3>2. CASE attached' = attached /\ Misses(r)
      BY <1>2, <2>1, <3>2, KeptFrame DEF ReadRow, TypeOK, ListInv, Misses
    <3> QED
      BY <1>2, <3>1, <3>2 DEF ReadRow
  <2>2. Kept(r)'
    BY <1>2 DEF ReadRow, Kept, Found, Misses, TypeOK
  <2> QED
    BY <1>2, <2>1, <2>2 DEF ReadRow, ListInv, OrphansOverlooked, Ranging, Found, TypeOK, Ops, Loaders
<1>3. CASE QueryCheckins(r)
  <2>1. ASSUME NEW q \in Requests, q # r PROVE Kept(q)'
    BY <1>3, <2>1, KeptFrame DEF QueryCheckins, Misses, TypeOK, ListInv
  <2>2. Kept(r)'
    BY <1>3, NamedCopies DEF QueryCheckins, Kept, Found, Misses, TypeOK
  <2> QED
    BY <1>3, <2>1, <2>2 DEF QueryCheckins, ListInv, OrphansOverlooked, Ranging, Found, TypeOK, Ops, Loaders
<1>4. CASE AppendCheckin(r)
  <2>1. CASE /\ \/ todo[r] = {} /\ UNCHANGED troubled
                \/ Misses(r)
             /\ rpc' = [rpc EXCEPT ![r] = Found(r)]
             /\ todo' = [todo EXCEPT ![r] = {}]
             /\ UNCHANGED <<attached, op, target>>
    <3>1. ASSUME NEW q \in Requests, q # r PROVE Kept(q)'
      BY <1>4, <2>1, <3>1, KeptFrame DEF AppendCheckin, Misses, TypeOK, ListInv
    <3>2. Kept(r)'
      BY <1>4, <2>1 DEF AppendCheckin, ListInv, Kept, Found, Misses, Named, TypeOK
    <3> QED
      BY <1>4, <2>1, <3>1, <3>2
         DEF AppendCheckin, ListInv, OrphansOverlooked, Ranging, Found, TypeOK, Ops, Loaders
  <2>2. ASSUME NEW s \in todo[r], ListBecomes(r, attached \cup {s}),
               todo' = [todo EXCEPT ![r] = @ \ {s}], UNCHANGED <<rpc, op, target>>
        PROVE  ListInv'
    <3>1. ASSUME NEW q \in Requests, q # r PROVE Kept(q)'
      BY <1>4, <2>2, <3>1, ListBecomesOthers, KeptFrame DEF AppendCheckin, TypeOK, ListInv
    <3>2. Kept(r)'
      <4>1. op[r] = "deleteService" /\ r \notin troubled' =>
              attached \cup {s} \subseteq attached' /\ r \notin troubled
        BY <1>4, <2>2 DEF AppendCheckin, ListBecomes, Counting
      <4>2. todo'[r] = todo[r] \ {s}
        BY <2>2 DEF TypeOK
      <4>3. attached \cup {s} \subseteq attached' =>
              Named(attached) \cup Named(todo[r]) \subseteq Named(attached') \cup Named(todo'[r])
        BY <4>2 DEF Named
      <4> QED
        BY <1>4, <2>2, <4>1, <4>3 DEF AppendCheckin, ListInv, Kept
    <3> QED
      BY <1>4, <2>2, <3>1, <3>2 DEF AppendCheckin, ListInv, OrphansOverlooked, Ranging
  <2> QED
    BY <1>4, <2>1, <2>2 DEF AppendCheckin
<1> QED
  BY <1>1, <1>2, <1>3, <1>4 DEF LoadService

(* A row written when no DELETE has read the checkins belongs to a service *)
(* that is there, and no list is in use.                                   *)
LEMMA ListNewRows ==
  ASSUME TypeOK, ListInv, NEW r \in Requests, NEW some, NewRows(some), Done(r),
         attached' = attached, saved' = saved, troubled' = troubled
  PROVE  ListInv'
<1> USE DEF Done, NewRows
<1>1. ASSUME NEW q \in Requests, q # r PROVE Kept(q)'
  <2>1. rpc'[q] = rpc[q] /\ op'[q] = op[q] /\ target'[q] = target[q] /\ todo'[q] = todo[q]
    BY <1>1 DEF TypeOK
  <2>2. op[q] = "deleteService" /\ rpc[q] \notin {"first", "query"}
          => rows' \subseteq rows \cup overlooked'
    BY DEF Deleting
  <2>3. Kept(q) /\ overlooked \subseteq overlooked'
    BY DEF ListInv
  <2> QED
    BY <2>1, <2>2, <2>3, KeptFrame
<1>2. Kept(r)'
  BY KeptIdle DEF TypeOK
<1>3. OrphansOverlooked'
  BY DEF ListInv, OrphansOverlooked
<1> QED
  BY <1>1, <1>2, <1>3 DEF ListInv, Ranging, TypeOK

LEMMA ListWrites ==
  ASSUME TypeOK, ListInv, NEW r \in Requests, OtherEnd(r) \/ CreateRow(r)
  PROVE  ListInv'
<1>1. CASE UNCHANGED <<rows, overlooked>> /\ CreateRow(r)
  <2>1. NewRows({})
    BY <1>1 DEF NewRows
  <2> QED
    BY <1>1, <2>1, ListNewRows DEF CreateRow
<1>2. ASSUME NEW c \in unborn, NewRows({c}), CreateRow(r) PROVE ListInv'
  BY <1>2, ListNewRows DEF CreateRow
<1>3. CASE OtherEnd(r)
  BY <1>3, ListNewRows DEF OtherEnd
<1> QED
  BY <1>1, <1>2, <1>3 DEF CreateRow

(* The requests that are not at work on a list only remove rows. *)
LEMMA ListCheckinSteps ==
  ASSUME TypeOK, ListInv, NEW r \in Requests,
         FindCheckin(r, "hit") \/ FindCheckin(r, "delete") \/ HitRow(r)
  PROVE  ListInv'
<1>1. /\ UNCHANGED <<serviceVars, findVars>>
      /\ \A q \in Requests \ {r} : /\ rpc'[q] = rpc[q] /\ op'[q] = op[q]
                                 /\ target'[q] = target[q] /\ todo'[q] = todo[q]
  BY DEF FindCheckin, HitRow, Done, TypeOK, historyVars
<1>2. ASSUME NEW q \in Requests \ {r} PROVE Kept(q)'
  BY <1>1, KeptFrame DEF ListInv, serviceVars, findVars
<1>3. Kept(r)' /\ rpc'[r] \notin {"range", "next"}
  <2>1. CASE HitRow(r)
    BY <2>1, KeptIdle DEF HitRow, Done, TypeOK
  <2>2. CASE FindCheckin(r, "hit") \/ FindCheckin(r, "delete")
    <3>1. rpc'[r] \in {"hit", "dropHits"} /\ op'[r] \in {"hit", "delete"}
      BY <2>2 DEF FindCheckin, TypeOK
    <3> QED
      BY <3>1, KeptIdle
  <2> QED
    BY <2>1, <2>2
<1> QED
  BY <1>1, <1>2, <1>3 DEF ListInv, OrphansOverlooked, Ranging, serviceVars, findVars

(* The list is taken whole, *)
LEMMA ListDeleteServiceRange ==
  ASSUME TypeOK, ListInv, NEW r \in Requests, DeleteServiceRange(r)
  PROVE  ListInv'
<1> USE DEF DeleteServiceRange, Done, serviceVars
<1>1. ASSUME NEW q \in Requests, q # r PROVE Kept(q)'
  BY <1>1, KeptFrame DEF TypeOK, ListInv
<1>2. Kept(r)'
  <2>1. CASE Done(r)
    BY <2>1, KeptIdle DEF TypeOK
  <2>2. CASE /\ todo' = [todo EXCEPT ![r] = attached]
             /\ rpc' = [rpc EXCEPT ![r] = "next"]
             /\ overlooked' = IF r \in troubled
                              THEN overlooked \cup (rows \ Named(attached)) ELSE overlooked
             /\ UNCHANGED <<op, target>>
    <3>1. op[r] = "deleteService" /\ todo'[r] = attached /\ rpc'[r] = "next"
      BY <2>2 DEF ListInv, Ranging, TypeOK
    <3>2. rows' \subseteq overlooked' \cup Named(attached)
      BY <2>2, <3>1 DEF ListInv, Kept
    <3>3. rows' \subseteq overlooked' \cup Named(todo'[r])
      BY <3>1, <3>2
    <3> QED
      BY <3>1, <3>3 DEF Kept, Named
  <2> QED
    BY <2>1, <2>2
<1> QED
  BY <1>1, <1>2 DEF ListInv, OrphansOverlooked, Ranging, TypeOK

(* a struct that leaves it is in hand, *)
LEMMA ListDeleteServiceNext ==
  ASSUME TypeOK, ListInv, NEW r \in Requests, DeleteServiceNext(r)
  PROVE  ListInv'
<1> USE DEF DeleteServiceNext, Done, serviceVars, historyVars, findVars
<1>1. ASSUME NEW q \in Requests, q # r PROVE Kept(q)'
  BY <1>1, KeptFrame DEF TypeOK, ListInv
<1>2. Kept(r)'
  <2>1. CASE Done(r)
    BY <2>1, KeptIdle DEF TypeOK
  <2>2. ASSUME NEW s \in todo[r],
               todo' = [todo EXCEPT ![r] = @ \ {s}],
               target' = [target EXCEPT ![r] = {s.checkin}],
               rpc' = [rpc EXCEPT ![r] = "dropHits"]
        PROVE  Kept(r)'
    <3>1. todo'[r] = todo[r] \ {s} /\ target'[r] = {s.checkin} /\ rpc'[r] = "dropHits"
      BY <2>2 DEF TypeOK
    <3>2. rows' \subseteq overlooked' \cup Named(todo[r])
      BY DEF ListInv, Kept, Ranging
    <3>3. Named(todo[r]) \subseteq Named(todo'[r]) \cup target'[r]
      BY <3>1, NamedLess
    <3> QED
      BY <3>1, <3>2, <3>3 DEF Kept
  <2> QED
    BY <2>1, <2>2
<1> QED
  BY <1>1, <1>2 DEF ListInv, OrphansOverlooked, Ranging, TypeOK

(* and what is in hand is gone before the list goes on. *)
LEMMA ListDrop ==
  ASSUME TypeOK, ListInv, NEW r \in Requests, DropHits(r) \/ DropRow(r)
  PROVE  ListInv'
<1> USE DEF Done, Goto
<1>1. /\ rows' \subseteq rows /\ UNCHANGED <<listed, saved, attached, findVars>>
      /\ \A q \in Requests \ {r} : /\ rpc'[q] = rpc[q] /\ op'[q] = op[q]
                                 /\ target'[q] = target[q] /\ todo'[q] = todo[q]
  BY DEF DropHits, DropRow, TypeOK, serviceVars, historyVars
<1>2. ASSUME NEW q \in Requests \ {r} PROVE Kept(q)'
  BY <1>1, KeptFrame DEF ListInv, findVars
<1>3. Kept(r)' /\ (rpc'[r] \in {"range", "next"} => op'[r] = "deleteService")
  <2>1. CASE Done(r)
    BY <2>1, KeptIdle DEF TypeOK
  <2>2. CASE DropHits(r) /\ Goto(r, "dropRow")
    BY <1>1, <2>2 DEF DropHits, ListInv, Kept, TypeOK, findVars
  <2>3. CASE DropRow(r) /\ rows' = rows \ target[r] /\ op[r] = "deleteService" /\ Goto(r, "next")
    BY <1>1, <2>3 DEF DropRow, ListInv, Kept, TypeOK, findVars
  <2> QED
    BY <2>1, <2>2, <2>3 DEF DropHits, DropRow
<1> QED
  BY <1>1, <1>2, <1>3 DEF ListInv, OrphansOverlooked, Ranging, findVars

(* Only a DELETE that has come to the end of its list clears the           *)
(* registry's, and then every row is overlooked.                           *)
LEMMA ListDeleteServiceEnd ==
  ASSUME TypeOK, ListInv, NEW r \in Requests, DeleteServiceEnd(r)
  PROVE  ListInv'
<1> USE DEF DeleteServiceEnd, Done
<1>1. rows' \subseteq overlooked'
  BY DEF ListInv, Kept, Ranging, Named
<1>2. ASSUME NEW q \in Requests, q # r PROVE Kept(q)'
  BY <1>2, ListBecomesOthers, KeptFrame DEF TypeOK, ListInv
<1>3. Kept(r)'
  BY KeptIdle DEF TypeOK
<1> QED
  BY <1>1, <1>2, <1>3 DEF ListInv, OrphansOverlooked, Ranging, TypeOK

LEMMA ListInvNext == TypeOK /\ ListInv /\ [Next]_vars => ListInv'
<1> SUFFICES ASSUME TypeOK, ListInv, [Next]_vars PROVE ListInv'
  OBVIOUS
<1>1. CASE \/ \E c \in CheckinIds : Loop(c)
           \/ Tick
           \/ UNCHANGED vars
  <2>1. UNCHANGED <<serviceVars, requestVars, findVars>>
    BY <1>1 DEF Loop, Wake, Fail, Stop, Tick, vars, historyVars
  <2> QED
    BY <2>1 DEF ListInv, OrphansOverlooked, Ranging, Kept, Named,
                serviceVars, requestVars, findVars
<1>2. ASSUME NEW r \in Requests, Request(r) PROVE ListInv'
  BY <1>2, ListLoad, ListWrites, ListCheckinSteps, ListDrop,
     ListDeleteServiceRange, ListDeleteServiceNext, ListDeleteServiceEnd
     DEF Request, HitCheckin, DeleteCheckin, DeleteService
<1>3. CASE Restart
  <2>1. \A r \in Requests : Kept(r)'
    BY <1>3, KeptIdle DEF Restart
  <2> QED
    BY <1>3, <2>1 DEF Restart, ListInv, OrphansOverlooked, Ranging
<1> QED
  BY <1>1, <1>2, <1>3 DEF Next

(* The list of a DELETE leaves nothing out that it could have seen.        *)
THEOREM ListInductive == Spec => []ListInv
<1>1. Init => ListInv
  BY KeptIdle DEF Init, ListInv, OrphansOverlooked, Ranging, Kept
<1> QED
  BY <1>1, ListInvNext, TypeCorrect, PTL DEF Spec

(* However many requests create and delete checkins and the service at a   *)
(* time, or save it, and whichever of their steps fail, a checkin that     *)
(* outlives the service was written after a DELETE had read the checkins,  *)
(* or missed by one that could not read them or that another request took  *)
(* them from (Find, AfterFind, Service.Delete).                            *)
THEOREM OrphansAreOverlooked == Spec => []OrphansOverlooked
<1>1. ListInv => OrphansOverlooked
  BY DEF ListInv
<1> QED
  BY <1>1, ListInductive, PTL

=============================================================================
