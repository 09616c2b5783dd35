----------------------------- MODULE NoticesProofs -----------------------------
(***************************************************************************)
(* Proofs about Notices, for any notifiers, goroutines and limit.          *)
(***************************************************************************)
EXTENDS Notices, TLAPS, FiniteSetTheorems

LEMMA Bounds ==
  /\ Limits \in Nat /\ Cardinality(Senders) \in Nat
  /\ MostLate = Cardinality(Senders) + 1
  /\ MostBurst = Limits + Cardinality(Senders)
BY SendersAssumption, LimitsAssumption, FS_CardinalityType DEF MostLate, MostBurst

LEMMA UpToType ==
  ASSUME NEW b \in Nat, NEW x \in Nat
  PROVE  UpTo(b, x) \in 0..b /\ UpTo(b, x) <= x
BY DEF UpTo

-----------------------------------------------------------------------------
(* Types. *)

LEMMA StartTypes ==
  /\ Zero \in [Notifiers -> Nat] /\ Zero \in [Notifiers -> 0..MostBurst]
  /\ Zero \in [Notifiers -> 0..MostLate]
  /\ Idle \in [Senders -> Notifiers \cup {None}]
  /\ \A rows \in [Notifiers -> Switch] : Loaded(rows) \subseteq [Notifiers -> Switch]
BY Bounds DEF Zero, Idle, Loaded, Switch

LEMMA SenderTypesIdle ==
  ASSUME at' = Idle, call' = [x \in Senders |-> "out"], row' = [x \in Senders |-> "none"]
  PROVE  SenderTypes'
BY StartTypes DEF SenderTypes, Calls

LEMMA TypeOKInit == Init => TypeOK
<1> SUFFICES ASSUME Init PROVE TypeOK
  OBVIOUS
<1>1. NotifierTypes /\ HistoryTypes
  BY StartTypes DEF Init, NotifierTypes, HistoryTypes
<1>2. SenderTypes
  BY StartTypes DEF Init, SenderTypes, Calls
<1> QED
  BY <1>1, <1>2 DEF TypeOK

LEMMA DecayedType ==
  ASSUME NotifierTypes, NEW n \in Notifiers
  PROVE  Decayed(n) \in Nat /\ Decayed(n) <= sentCount[n]
BY DEF Decayed, NotifierTypes

(* The types of what one goroutine's step changes. *)
LEMMA SenderMoves ==
  ASSUME SenderTypes, NEW x \in Senders,
         NEW m \in Notifiers \cup {None}, NEW c \in Calls, NEW r \in Switch \cup {"none"},
         at' = [at EXCEPT ![x] = m], call' = [call EXCEPT ![x] = c],
         row' = [row EXCEPT ![x] = r],
         m = None => c = "out", c = "out" => r = "none"
  PROVE  SenderTypes'
BY DEF SenderTypes

LEMMA TypeOKCanSend ==
  ASSUME TypeOK, NEW x \in Senders, NEW n \in Notifiers, CanSend(x, n)
  PROVE  TypeOK'
<1> USE DEF TypeOK
<1>1. NotifierTypes' /\ HistoryTypes'
  BY DecayedType DEF CanSend, NotifierTypes, HistoryTypes
<1>2. SenderTypes'
  <2>1. /\ call[x] = "out" /\ row[x] = "none"
        /\ call' = [call EXCEPT ![x] = call[x]] /\ row' = [row EXCEPT ![x] = row[x]]
    BY DEF CanSend, SenderTypes
  <2>2. \E m \in {n, None} : at' = [at EXCEPT ![x] = m]
    BY DEF CanSend
  <2> QED
    BY <2>1, <2>2, SenderMoves DEF Calls
<1> QED
  BY <1>1, <1>2

LEMMA TypeOKSend ==
  ASSUME TypeOK, NEW x \in Senders, NEW n \in Notifiers, Send(x, n)
  PROVE  TypeOK'
<1> USE DEF TypeOK
<1>1. NotifierTypes'
  BY DEF Send, notifierVars, NotifierTypes
<1>2. PICK result \in Calls \ {"out"}, arrived \in BOOLEAN :
        /\ call' = [call EXCEPT ![x] = result]
        /\ late' = IF arrived THEN [late EXCEPT ![n] = UpTo(MostLate, @ + 1)] ELSE late
        /\ burst' = IF arrived /\ result # "lost"
                    THEN [burst EXCEPT ![n] = UpTo(MostBurst, @ + 1)] ELSE burst
  BY DEF Send
<1>3. SenderTypes'
  <2>1. /\ at' = [at EXCEPT ![x] = at[x]] /\ row' = [row EXCEPT ![x] = row[x]]
        /\ at[x] = n /\ row[x] = "none"
    BY DEF Send, SenderTypes
  <2> QED
    BY <1>2, <2>1, NoneAssumption, SenderMoves
<1>4. HistoryTypes'
  <2>1. late[n] + 1 \in Nat /\ burst[n] + 1 \in Nat /\ MostLate \in Nat /\ MostBurst \in Nat
    BY Bounds DEF HistoryTypes
  <2>2. UpTo(MostLate, late[n] + 1) \in 0..MostLate /\ UpTo(MostBurst, burst[n] + 1) \in 0..MostBurst
    BY <2>1, UpToType
  <2> QED
    BY <1>2, <2>2 DEF HistoryTypes
<1> QED
  BY <1>1, <1>3, <1>4

LEMMA TypeOKFind ==
  ASSUME TypeOK, NEW x \in Senders, NEW n \in Notifiers, FindNotifier(x, n)
  PROVE  TypeOK'
<1> USE DEF TypeOK
<1>1. NotifierTypes' /\ HistoryTypes'
  BY DEF FindNotifier, notifierVars, NotifierTypes, HistoryTypes
<1>2. SenderTypes'
  <2>1. /\ at' = [at EXCEPT ![x] = at[x]] /\ call' = [call EXCEPT ![x] = call[x]]
        /\ row' = [row EXCEPT ![x] = saved[n]]
        /\ at[x] = n /\ call[x] # "out"
    BY DEF FindNotifier, SenderTypes
  <2>2. at[x] \in Notifiers \cup {None} /\ call[x] \in Calls /\ saved[n] \in Switch
    BY DEF SenderTypes, NotifierTypes
  <2> QED
    BY <2>1, <2>2, NoneAssumption, SenderMoves
<1> QED
  BY <1>1, <1>2

LEMMA FieldsTypes ==
  ASSUME NotifierTypes, HistoryTypes, NEW n \in Notifiers, NEW v \in Switch,
         UpdateFields(n, v)
  PROVE  enabled' \in [Notifiers -> Switch] /\ late' \in [Notifiers -> 0..MostLate]
BY Bounds DEF UpdateFields, NotifierTypes, HistoryTypes

LEMMA TypeOKLog ==
  ASSUME TypeOK, NEW x \in Senders, NEW n \in Notifiers, LogMessage(x, n)
  PROVE  TypeOK'
<1> USE DEF TypeOK
<1>1. row[x] \in Switch /\ sentCount[n] + 1 \in Nat
  BY DEF LogMessage, SenderTypes, NotifierTypes
<1>2. enabled' \in [Notifiers -> Switch] /\ late' \in [Notifiers -> 0..MostLate]
  BY <1>1, FieldsTypes DEF LogMessage
<1>3. NotifierTypes' /\ HistoryTypes'
  <2>1. saved' = saved /\ burst' = burst
    BY DEF LogMessage
  <2>2. \/ sentCount' = sentCount /\ quiet' = quiet
        \/ /\ sentCount' = [sentCount EXCEPT ![n] = sentCount[n] + 1]
           /\ quiet' = [quiet EXCEPT ![n] = FALSE]
    BY DEF LogMessage
  <2>3. sentCount' \in [Notifiers -> Nat] /\ quiet' \in [Notifiers -> BOOLEAN]
    BY <1>1, <2>2 DEF NotifierTypes
  <2> QED
    BY <1>2, <2>1, <2>3 DEF NotifierTypes, HistoryTypes
<1>4. SenderTypes'
  <2>1. row' = [row EXCEPT ![x] = "none"]
    BY DEF LogMessage
  <2>2. CASE call[x] = "again"
    <3>1. at' = [at EXCEPT ![x] = n] /\ call' = [call EXCEPT ![x] = "ok"]
      BY <2>2 DEF LogMessage, SenderTypes
    <3>2. n # None /\ "ok" \in Calls
      BY NoneAssumption DEF Calls
    <3> QED
      BY <2>1, <3>1, <3>2, SenderMoves
  <2>3. CASE call[x] # "again"
    <3>1. at' = [at EXCEPT ![x] = None] /\ call' = [call EXCEPT ![x] = "out"]
      BY <2>3 DEF LogMessage
    <3>2. "out" \in Calls
      BY DEF Calls
    <3> QED
      BY <2>1, <3>1, <3>2, SenderMoves
  <2> QED
    BY <2>2, <2>3
<1> QED
  BY <1>3, <1>4

LEMMA TypeOKRest ==
  ASSUME TypeOK,
         \/ \E n \in Notifiers : EditNotifier(n) \/ RequestCopies(n) \/ HourPasses(n)
         \/ Restart
         \/ UNCHANGED vars
  PROVE  TypeOK'
<1> USE DEF TypeOK
<1>1. ASSUME NEW n \in Notifiers, EditNotifier(n) PROVE TypeOK'
  BY <1>1, Bounds DEF EditNotifier, senderVars, NotifierTypes, SenderTypes, HistoryTypes, Switch
<1>2. ASSUME NEW n \in Notifiers, RequestCopies(n) PROVE TypeOK'
  BY <1>2, FieldsTypes DEF RequestCopies, senderVars, NotifierTypes, SenderTypes, HistoryTypes
<1>3. ASSUME NEW n \in Notifiers, HourPasses(n) PROVE TypeOK'
  BY <1>3, Bounds DEF HourPasses, senderVars, NotifierTypes, SenderTypes, HistoryTypes
<1>4. CASE Restart
  <2>1. NotifierTypes' /\ HistoryTypes'
    BY <1>4, StartTypes DEF Restart, NotifierTypes, HistoryTypes
  <2> QED
    BY <1>4, <2>1, SenderTypesIdle DEF Restart
<1>5. CASE UNCHANGED vars
  BY <1>5 DEF vars, notifierVars, senderVars, NotifierTypes, SenderTypes, HistoryTypes
<1> QED
  BY <1>1, <1>2, <1>3, <1>4, <1>5

LEMMA TypeOKNext == TypeOK /\ [Next]_vars => TypeOK'
BY TypeOKCanSend, TypeOKSend, TypeOKFind, TypeOKLog, TypeOKRest DEF Next

(* Type correctness: CanSend never takes LastSentCount below zero, and a   *)
(* goroutine logs only what it has sent.                                   *)
THEOREM TypeCorrect == Spec => []TypeOK
BY TypeOKInit, TypeOKNext, PTL DEF Spec

-----------------------------------------------------------------------------
(* The goroutines that are busy with n: those whose call is out, and, of   *)
(* those whose call has returned, those whose notice will count.           *)
Busy(n)     == {x \in Senders : at[x] = n}
Out(n)      == {x \in Senders : at[x] = n /\ call[x] = "out"}
Returned(n) == {x \in Senders : at[x] = n /\ call[x] # "out"}
Uncounted(n) == {x \in Senders : at[x] = n /\ call[x] \in {"ok", "again"}}

LEMMA Crowd ==
  ASSUME NEW n
  PROVE  /\ Cardinality(Busy(n)) \in Nat /\ Cardinality(Out(n)) \in Nat
         /\ Cardinality(Returned(n)) \in Nat /\ Cardinality(Uncounted(n)) \in Nat
         /\ Cardinality(Busy(n)) <= Cardinality(Senders)
         /\ Cardinality(Uncounted(n)) <= Cardinality(Busy(n))
         /\ Cardinality(Out(n)) + Cardinality(Returned(n)) = Cardinality(Busy(n))
<1>1. /\ Busy(n) \subseteq Senders /\ Uncounted(n) \subseteq Busy(n)
      /\ Busy(n) = Out(n) \cup Returned(n) /\ Out(n) \cap Returned(n) = {}
  BY DEF Busy, Out, Returned, Uncounted
<1>2. /\ IsFiniteSet(Busy(n)) /\ Cardinality(Busy(n)) <= Cardinality(Senders)
  BY <1>1, SendersAssumption, FS_Subset
<1>3. /\ IsFiniteSet(Out(n)) /\ IsFiniteSet(Returned(n)) /\ IsFiniteSet(Uncounted(n))
      /\ Cardinality(Uncounted(n)) <= Cardinality(Busy(n))
  BY <1>1, <1>2, FS_Subset
<1>4. Cardinality(Busy(n)) = Cardinality(Out(n)) + Cardinality(Returned(n)) - Cardinality({})
  BY <1>1, <1>3, FS_Union
<1>5. Cardinality({}) = 0
  BY FS_EmptySet
<1> QED
  BY <1>2, <1>3, <1>4, <1>5, FS_CardinalityType

(* LastSentCount and the notices still to be counted cover what was sent   *)
(* since the last quiet hour, because it goes down only when an hour has   *)
(* been quiet; and the last goroutine that was let send found room,        *)
(* whoever else was busy then.                                             *)
Counted(n) ==
  /\ burst[n] <= Cardinality(Uncounted(n)) + (IF quiet[n] THEN 0 ELSE sentCount[n])
  /\ LET total == sentCount[n] + Cardinality(Busy(n)) IN
       total > Limits => total < Limits + Cardinality(Senders)

(* While the row says that n is disabled: as long as it is not known, only *)
(* goroutines that have yet to log have sent; and afterwards only those    *)
(* whose call was out then still may.                                      *)
Silenced(n) ==
  saved[n] = "off" =>
    /\ enabled[n] = "on" => late[n] <= Cardinality(Returned(n))
    /\ enabled[n] = "off" => late[n] + Cardinality(Out(n)) <= Cardinality(Senders)

Inv == \A n \in Notifiers : Counted(n) /\ Silenced(n)

(* The numbers of a notifier. *)
LEMMA Numbers ==
  ASSUME TypeOK, NEW n \in Notifiers
  PROVE  /\ burst[n] \in Nat /\ late[n] \in Nat /\ sentCount[n] \in Nat
         /\ enabled[n] \in {"on", "off"} /\ saved[n] \in {"on", "off"}
         /\ quiet[n] \in BOOLEAN
BY Bounds DEF TypeOK, NotifierTypes, HistoryTypes, Switch

LEMMA InvInit == Init => Inv
<1> SUFFICES ASSUME Init, NEW n \in Notifiers PROVE Counted(n) /\ Silenced(n)
  BY DEF Inv
<1>1. Busy(n) = {} /\ Out(n) = {} /\ Uncounted(n) = {}
  BY NoneAssumption DEF Init, Idle, Busy, Out, Uncounted
<1>2. Cardinality(Busy(n)) = 0 /\ Cardinality(Out(n)) = 0 /\ Cardinality(Uncounted(n)) = 0
  BY <1>1, FS_EmptySet
<1>3. burst[n] = 0 /\ late[n] = 0 /\ sentCount[n] = 0
  BY DEF Init, Zero
<1> QED
  BY <1>2, <1>3, Bounds, Crowd DEF Counted, Silenced

(* Steps that move no goroutine. *)
LEMMA Standing ==
  ASSUME at' = at, call' = call, NEW n
  PROVE  /\ Cardinality(Busy(n))' = Cardinality(Busy(n))
         /\ Cardinality(Out(n))' = Cardinality(Out(n))
         /\ Cardinality(Returned(n))' = Cardinality(Returned(n))
         /\ Cardinality(Uncounted(n))' = Cardinality(Uncounted(n))
BY DEF Busy, Out, Returned, Uncounted

(* What a goroutine that comes or goes adds or takes. *)
LEMMA Joins ==
  ASSUME NEW S, IsFiniteSet(S), NEW x, x \notin S
  PROVE  Cardinality(S \cup {x}) = Cardinality(S) + 1
BY FS_AddElement

LEMMA Leaves ==
  ASSUME NEW S, IsFiniteSet(S), NEW x, x \in S
  PROVE  Cardinality(S \ {x}) = Cardinality(S) - 1
BY FS_RemoveElement

LEMMA FiniteCrowd ==
  ASSUME NEW n
  PROVE  /\ IsFiniteSet(Busy(n)) /\ IsFiniteSet(Out(n))
         /\ IsFiniteSet(Returned(n)) /\ IsFiniteSet(Uncounted(n))
<1>1. /\ Busy(n) \subseteq Senders /\ Out(n) \subseteq Senders
      /\ Returned(n) \subseteq Senders /\ Uncounted(n) \subseteq Senders
  BY DEF Busy, Out, Returned, Uncounted
<1> QED
  BY <1>1, SendersAssumption, FS_Subset

(* A goroutine that is busy with n does not disturb the others. *)
LEMMA Elsewhere ==
  ASSUME TypeOK, NEW x \in Senders, NEW n \in Notifiers, NEW m \in Notifiers, m # n,
         at[x] \in {n, None}, at'[x] \in {n, None},
         \A y \in Senders : y # x => at'[y] = at[y] /\ call'[y] = call[y]
  PROVE  /\ Cardinality(Busy(m))' = Cardinality(Busy(m))
         /\ Cardinality(Out(m))' = Cardinality(Out(m))
         /\ Cardinality(Returned(m))' = Cardinality(Returned(m))
         /\ Cardinality(Uncounted(m))' = Cardinality(Uncounted(m))
<1>1. /\ Busy(m)' = Busy(m) /\ Out(m)' = Out(m)
      /\ Returned(m)' = Returned(m) /\ Uncounted(m)' = Uncounted(m)
  BY NoneAssumption DEF Busy, Out, Returned, Uncounted
<1> QED
  BY <1>1

(* CanSend lets one more goroutine send, and only below the limit. *)
LEMMA InvCanSend ==
  ASSUME TypeOK, Inv, NEW x \in Senders, NEW n \in Notifiers, CanSend(x, n)
  PROVE  Inv'
<1> SUFFICES ASSUME NEW m \in Notifiers PROVE (Counted(m) /\ Silenced(m))'
  BY DEF Inv
<1>1. /\ burst' = burst /\ quiet' = quiet /\ late' = late /\ saved' = saved
      /\ enabled' = enabled /\ call' = call /\ at[x] = None /\ enabled[n] = "on"
      /\ at'[x] \in {n, None}
      /\ \A y \in Senders : y # x => at'[y] = at[y] /\ call'[y] = call[y]
  BY DEF CanSend, TypeOK, SenderTypes
<1>2. CASE m # n
  <2>1. sentCount'[m] = sentCount[m]
    BY <1>2 DEF CanSend, TypeOK, NotifierTypes
  <2> QED
    BY <1>1, <1>2, <2>1, Elsewhere DEF Inv, Counted, Silenced
<1>3. CASE m = n
  <2>1. sentCount'[n] = Decayed(n) /\ Decayed(n) \in Nat /\ Decayed(n) <= sentCount[n]
        /\ (~quiet[n] => Decayed(n) = sentCount[n])
    <3>1. sentCount'[n] = Decayed(n)
      BY DEF CanSend, TypeOK, NotifierTypes
    <3>2. ~quiet[n] => Decayed(n) = sentCount[n]
      BY DEF Decayed
    <3> QED
      BY <3>1, <3>2, DecayedType DEF TypeOK
  <2>2. Returned(n)' = Returned(n) /\ Uncounted(n)' = Uncounted(n)
    <3>1. call[x] = "out"
      BY <1>1 DEF TypeOK, SenderTypes
    <3> QED
      BY <1>1, <3>1, NoneAssumption DEF Returned, Uncounted
  <2>3. /\ Cardinality(Returned(n))' = Cardinality(Returned(n))
        /\ Cardinality(Uncounted(n))' = Cardinality(Uncounted(n))
    BY <2>2
  <2>4. /\ Cardinality(Busy(n))' \in Nat /\ Cardinality(Busy(n))' <= Cardinality(Senders)
    <3>1. Busy(n)' \subseteq Senders
      BY DEF Busy
    <3> QED
      BY <3>1, SendersAssumption, FS_Subset, FS_CardinalityType
  <2>5. Decayed(n) < Limits \/ Cardinality(Busy(n))' = Cardinality(Busy(n))
    <3>1. CASE ~(Decayed(n) < Limits)
      <4>1. at' = at
        BY <3>1 DEF CanSend, TypeOK, SenderTypes
      <4> QED
        BY <1>1, <4>1, Standing
    <3> QED
      BY <3>1
  <2>6. Counted(n)'
    <3>1. burst'[n] <= Cardinality(Uncounted(n))' + (IF quiet'[n] THEN 0 ELSE sentCount'[n])
      BY <1>1, <2>1, <2>3 DEF Inv, Counted
    <3>2. LET total == sentCount'[n] + Cardinality(Busy(n))' IN
            total > Limits => total < Limits + Cardinality(Senders)
      <4>1. CASE Decayed(n) < Limits
        BY <2>1, <2>4, <4>1, Bounds
      <4>2. CASE Cardinality(Busy(n))' = Cardinality(Busy(n))
        <5>1. /\ Cardinality(Busy(n)) \in Nat /\ sentCount[n] \in Nat
              /\ LET total == sentCount[n] + Cardinality(Busy(n)) IN
                   total > Limits => total < Limits + Cardinality(Senders)
          BY Crowd, Numbers DEF Inv, Counted
        <5> QED
          BY <2>1, <4>2, <5>1, Bounds, Crowd
      <4> QED
        BY <2>5, <4>1, <4>2
    <3> QED
      BY <3>1, <3>2 DEF Counted
  <2>7. Silenced(n)'
    BY <1>1, <2>3 DEF Inv, Silenced
  <2> QED
    BY <1>3, <2>6, <2>7
<1> QED
  BY <1>2, <1>3

(* A call returns: with a notice that counts, or not, or with none. *)
LEMMA InvSend ==
  ASSUME TypeOK, Inv, NEW x \in Senders, NEW n \in Notifiers, Send(x, n)
  PROVE  Inv'
<1> SUFFICES ASSUME NEW m \in Notifiers PROVE (Counted(m) /\ Silenced(m))'
  BY DEF Inv
<1>1. PICK result \in Calls \ {"out"}, arrived \in BOOLEAN :
        /\ call' = [call EXCEPT ![x] = result]
        /\ late' = IF arrived THEN [late EXCEPT ![n] = UpTo(MostLate, @ + 1)] ELSE late
        /\ burst' = IF arrived /\ result # "lost"
                    THEN [burst EXCEPT ![n] = UpTo(MostBurst, @ + 1)] ELSE burst
  BY DEF Send
<1>2. /\ at[x] = n /\ call[x] = "out" /\ at' = at /\ sentCount' = sentCount /\ quiet' = quiet
      /\ enabled' = enabled /\ saved' = saved
      /\ call'[x] = result
      /\ \A y \in Senders : y # x => at'[y] = at[y] /\ call'[y] = call[y]
  BY <1>1 DEF Send, notifierVars, TypeOK, SenderTypes
<1>3. CASE m # n
  <2>1. burst'[m] = burst[m] /\ late'[m] = late[m]
    BY <1>1, <1>3 DEF TypeOK, HistoryTypes
  <2> QED
    BY <1>2, <1>3, <2>1, Elsewhere DEF Inv, Counted, Silenced
<1>4. CASE m = n
  <2>1. /\ Cardinality(Busy(n))' = Cardinality(Busy(n))
        /\ Cardinality(Out(n))' = Cardinality(Out(n)) - 1
        /\ Cardinality(Returned(n))' = Cardinality(Returned(n)) + 1
    <3>1. /\ Busy(n)' = Busy(n) /\ Out(n)' = Out(n) \ {x} /\ x \in Out(n)
          /\ Returned(n)' = Returned(n) \cup {x} /\ x \notin Returned(n)
      BY <1>2 DEF Busy, Out, Returned
    <3> QED
      BY <3>1, FiniteCrowd, Joins, Leaves
  <2>2. Cardinality(Uncounted(n))' = Cardinality(Uncounted(n)) + (IF result = "lost" THEN 0 ELSE 1)
    <3>1. CASE result = "lost"
      <4>1. Uncounted(n)' = Uncounted(n)
        BY <1>2, <3>1 DEF Uncounted
      <4>2. Cardinality(Uncounted(n)) \in Nat
        BY Crowd
      <4> QED
        BY <3>1, <4>1, <4>2
    <3>2. CASE result # "lost"
      <4>1. Uncounted(n)' = Uncounted(n) \cup {x} /\ x \notin Uncounted(n)
        BY <1>2, <3>2 DEF Uncounted, Calls
      <4> QED
        BY <3>2, <4>1, FiniteCrowd, Joins
    <3> QED
      BY <3>1, <3>2
  <2>3. /\ burst[n] \in Nat /\ late[n] \in Nat /\ sentCount[n] \in Nat
        /\ MostBurst \in Nat /\ MostLate \in Nat
    BY Numbers, Bounds
  <2>4. /\ burst'[n] <= burst[n] + (IF result = "lost" THEN 0 ELSE 1)
        /\ late'[n] <= late[n] + 1 /\ burst'[n] \in Nat /\ late'[n] \in Nat
    <3>1. burst[n] + 1 \in Nat /\ late[n] + 1 \in Nat
      BY <2>3
    <3>2. burst'[n] = IF arrived /\ result # "lost" THEN UpTo(MostBurst, burst[n] + 1) ELSE burst[n]
      BY <1>1 DEF TypeOK, HistoryTypes
    <3>3. late'[n] = IF arrived THEN UpTo(MostLate, late[n] + 1) ELSE late[n]
      BY <1>1 DEF TypeOK, HistoryTypes
    <3>4. /\ UpTo(MostBurst, burst[n] + 1) \in Nat /\ UpTo(MostBurst, burst[n] + 1) <= burst[n] + 1
          /\ UpTo(MostLate, late[n] + 1) \in Nat /\ UpTo(MostLate, late[n] + 1) <= late[n] + 1
      BY <2>3, <3>1 DEF UpTo
    <3> QED
      BY <2>3, <3>2, <3>3, <3>4
  <2>5. Counted(n)'
    BY <1>2, <2>1, <2>2, <2>3, <2>4, Crowd DEF Inv, Counted
  <2>6. Silenced(n)'
    BY <1>2, <2>1, <2>3, <2>4, Crowd, Bounds DEF Inv, Silenced
  <2> QED
    BY <1>4, <2>5, <2>6
<1> QED
  BY <1>3, <1>4

(* Fields are copied: what is outdated starts the count anew, and the row  *)
(* as it is silences the notifier.                                         *)
LEMMA SilencedByFields ==
  ASSUME TypeOK, Inv, NEW n \in Notifiers, NEW v \in Switch, UpdateFields(n, v),
         saved' = saved, NEW m \in Notifiers,
         Cardinality(Out(m))' = Cardinality(Out(m)),
         m # n => Cardinality(Returned(m))' = Cardinality(Returned(m)),
         Cardinality(Returned(m))' \in Nat
  PROVE  Silenced(m)'
<1>1. CASE m # n
  <2>1. enabled'[m] = enabled[m] /\ late'[m] = late[m]
    BY <1>1 DEF UpdateFields, TypeOK, NotifierTypes, HistoryTypes
  <2> QED
    BY <1>1, <2>1 DEF Inv, Silenced
<1>2. CASE m = n
  <2>1. enabled'[n] = v /\ late'[n] = IF v = saved[n] THEN late[n] ELSE 0
    BY DEF UpdateFields, TypeOK, NotifierTypes, HistoryTypes
  <2>2. CASE v # saved[n]
    <3>1. Cardinality(Out(n)) \in Nat /\ Cardinality(Out(n)) <= Cardinality(Senders)
      BY Crowd, Bounds
    <3> QED
      BY <1>2, <2>1, <2>2, <3>1, Bounds DEF Silenced
  <2>3. CASE v = saved[n]
    <3>1. saved[n] = "off" => late[n] + Cardinality(Out(n)) <= Cardinality(Senders)
      BY Crowd, Numbers, Bounds DEF Inv, Silenced
    <3> QED
      BY <1>2, <2>1, <2>3, <3>1 DEF Silenced
  <2> QED
    BY <2>2, <2>3
<1> QED
  BY <1>1, <1>2

LEMMA InvLog ==
  ASSUME TypeOK, Inv, NEW x \in Senders, NEW n \in Notifiers, LogMessage(x, n)
  PROVE  Inv'
<1> SUFFICES ASSUME NEW m \in Notifiers PROVE (Counted(m) /\ Silenced(m))'
  BY DEF Inv
<1>1. /\ at[x] = n /\ row[x] \in Switch /\ call[x] \in {"ok", "again", "lost"}
      /\ UpdateFields(n, row[x]) /\ saved' = saved /\ burst' = burst
      /\ at'[x] \in {n, None}
      /\ \A y \in Senders : y # x => at'[y] = at[y] /\ call'[y] = call[y]
  BY DEF LogMessage, TypeOK, SenderTypes, Calls
<1>2. Cardinality(Out(m))' = Cardinality(Out(m))
  <2>1. (at'[x] = n /\ call'[x] = "ok") \/ at'[x] = None
    BY DEF LogMessage, TypeOK, SenderTypes
  <2>2. Out(m)' = Out(m)
    BY <1>1, <2>1, NoneAssumption DEF Out
  <2> QED
    BY <2>2
<1>3. Cardinality(Returned(m))' \in Nat
  <2>1. Returned(m)' \subseteq Senders
    BY DEF Returned
  <2> QED
    BY <2>1, SendersAssumption, FS_Subset, FS_CardinalityType
<1>4. m # n => Cardinality(Returned(m))' = Cardinality(Returned(m))
  BY <1>1, Elsewhere
<1>5. Silenced(m)'
  BY <1>1, <1>2, <1>3, <1>4, SilencedByFields
<1>6. Counted(m)'
  <2>1. CASE m # n
    <3>1. sentCount'[m] = sentCount[m] /\ quiet'[m] = quiet[m]
      BY <2>1 DEF LogMessage, TypeOK, NotifierTypes
    <3> QED
      BY <1>1, <2>1, <3>1, Elsewhere DEF Inv, Counted
  <2>2. CASE m = n /\ call[x] = "again"
    <3>1. Busy(n)' = Busy(n) /\ Uncounted(n)' = Uncounted(n)
      <4>1. at' = at /\ call'[x] = "ok"
        BY <2>2 DEF LogMessage, TypeOK, SenderTypes
      <4> QED
        BY <1>1, <2>2, <4>1 DEF Busy, Uncounted
    <3>2. sentCount' = sentCount /\ quiet' = quiet
      BY <2>2 DEF LogMessage
    <3> QED
      BY <1>1, <2>2, <3>1, <3>2 DEF Inv, Counted
  <2>3. CASE m = n /\ call[x] # "again"
    <3>1. Cardinality(Busy(n))' = Cardinality(Busy(n)) - 1
      <4>1. Busy(n)' = Busy(n) \ {x} /\ x \in Busy(n)
        <5>1. at'[x] = None
          BY <2>3 DEF LogMessage, TypeOK, SenderTypes
        <5> QED
          BY <1>1, <5>1, NoneAssumption DEF Busy
      <4> QED
        BY <4>1, FiniteCrowd, Leaves
    <3>2. burst[n] \in Nat /\ sentCount[n] \in Nat
      BY Numbers
    <3>3. CASE call[x] = "ok"
      <4>1. sentCount'[n] = sentCount[n] + 1 /\ ~quiet'[n]
        BY <3>3 DEF LogMessage, TypeOK, NotifierTypes
      <4>2. Cardinality(Uncounted(n))' = Cardinality(Uncounted(n)) - 1
        <5>1. Uncounted(n)' = Uncounted(n) \ {x} /\ x \in Uncounted(n)
          <6>1. at'[x] = None
            BY <2>3 DEF LogMessage, TypeOK, SenderTypes
          <6> QED
            BY <1>1, <3>3, <6>1, NoneAssumption DEF Uncounted
        <5> QED
          BY <5>1, FiniteCrowd, Leaves
      <4> QED
        BY <1>1, <2>3, <3>1, <3>2, <4>1, <4>2, Crowd DEF Inv, Counted
    <3>4. CASE call[x] = "lost"
      <4>1. sentCount'[n] = sentCount[n] /\ quiet'[n] = quiet[n]
        BY <3>4 DEF LogMessage
      <4>2. Uncounted(n)' = Uncounted(n)
        <5>1. at'[x] = None
          BY <2>3 DEF LogMessage, TypeOK, SenderTypes
        <5> QED
          BY <1>1, <3>4, <5>1, NoneAssumption DEF Uncounted
      <4>3. Cardinality(Uncounted(n))' = Cardinality(Uncounted(n))
        BY <4>2
      <4> QED
        <5>1. burst'[n] <= Cardinality(Uncounted(n))' + (IF quiet'[n] THEN 0 ELSE sentCount'[n])
          BY <1>1, <4>1, <4>3 DEF Inv, Counted
        <5>2. LET total == sentCount'[n] + Cardinality(Busy(n))' IN
                total > Limits => total < Limits + Cardinality(Senders)
          BY <3>1, <3>2, <4>1, Crowd, Bounds DEF Inv, Counted
        <5> QED
          BY <2>3, <5>1, <5>2 DEF Counted
    <3> QED
      BY <1>1, <2>3, <3>3, <3>4
  <2> QED
    BY <2>1, <2>2, <2>3
<1> QED
  BY <1>5, <1>6

LEMMA InvRest ==
  ASSUME TypeOK, Inv,
         \/ \E x \in Senders, n \in Notifiers : FindNotifier(x, n)
         \/ \E n \in Notifiers : EditNotifier(n) \/ RequestCopies(n) \/ HourPasses(n)
         \/ Restart
         \/ UNCHANGED vars
  PROVE  Inv'
<1> USE DEF senderVars, notifierVars
<1> SUFFICES ASSUME NEW m \in Notifiers PROVE (Counted(m) /\ Silenced(m))'
  BY DEF Inv
<1>0. Counted(m) /\ Silenced(m)
  BY DEF Inv
<1>1. CASE (\E x \in Senders, n \in Notifiers : FindNotifier(x, n)) \/ UNCHANGED vars
  <2>1. /\ at' = at /\ call' = call /\ burst' = burst /\ late' = late /\ quiet' = quiet
        /\ sentCount' = sentCount /\ enabled' = enabled /\ saved' = saved
    BY <1>1 DEF FindNotifier, vars
  <2> QED
    BY <1>0, <2>1, Standing DEF Counted, Silenced
<1>2. ASSUME NEW n \in Notifiers, EditNotifier(n) PROVE (Counted(m) /\ Silenced(m))'
  <2>1. /\ at' = at /\ call' = call /\ burst' = burst /\ quiet' = quiet
        /\ sentCount' = sentCount /\ enabled' = enabled
    BY <1>2 DEF EditNotifier
  <2>2. CASE m # n
    <3>1. late'[m] = late[m] /\ saved'[m] = saved[m]
      BY <1>2, <2>2 DEF EditNotifier, TypeOK, NotifierTypes, HistoryTypes
    <3> QED
      BY <1>0, <2>1, <3>1, Standing DEF Counted, Silenced
  <2>3. CASE m = n
    <3>1. late'[m] = 0
      BY <1>2, <2>3 DEF EditNotifier, TypeOK, HistoryTypes
    <3>2. /\ Cardinality(Out(m))' = Cardinality(Out(m))
          /\ Cardinality(Returned(m))' = Cardinality(Returned(m))
          /\ Cardinality(Busy(m))' = Cardinality(Busy(m))
          /\ Cardinality(Uncounted(m))' = Cardinality(Uncounted(m))
      BY <2>1, Standing
    <3>3. Counted(m)'
      BY <1>0, <2>1, <3>2 DEF Counted
    <3>4. Silenced(m)'
      BY <3>1, <3>2, Crowd, Bounds DEF Silenced
    <3> QED
      BY <3>3, <3>4
  <2> QED
    BY <2>2, <2>3
<1>3. ASSUME NEW n \in Notifiers, RequestCopies(n) PROVE (Counted(m) /\ Silenced(m))'
  <2>1. /\ at' = at /\ call' = call /\ burst' = burst /\ quiet' = quiet
        /\ sentCount' = sentCount /\ saved' = saved
    BY <1>3 DEF RequestCopies
  <2>2. PICK v \in Switch : UpdateFields(n, v)
    BY <1>3 DEF RequestCopies
  <2>3. /\ Cardinality(Out(m))' = Cardinality(Out(m))
        /\ Cardinality(Returned(m))' = Cardinality(Returned(m))
        /\ Cardinality(Busy(m))' = Cardinality(Busy(m))
        /\ Cardinality(Uncounted(m))' = Cardinality(Uncounted(m))
    BY <2>1, Standing
  <2>4. Counted(m)'
    BY <1>0, <2>1, <2>3 DEF Counted
  <2>5. Cardinality(Returned(m))' \in Nat
    BY <2>3, Crowd
  <2>6. Silenced(m)'
    BY <2>1, <2>2, <2>3, <2>5, SilencedByFields
  <2> QED
    BY <2>4, <2>6
<1>4. ASSUME NEW n \in Notifiers, HourPasses(n) PROVE (Counted(m) /\ Silenced(m))'
  <2>1. /\ at' = at /\ call' = call /\ late' = late
        /\ sentCount' = sentCount /\ saved' = saved /\ enabled' = enabled
    BY <1>4 DEF HourPasses
  <2>2. \/ burst'[m] = burst[m] /\ quiet'[m] = quiet[m]
        \/ burst'[m] = 0
    BY <1>4 DEF HourPasses, TypeOK, NotifierTypes, HistoryTypes
  <2>3. /\ Cardinality(Out(m))' = Cardinality(Out(m))
        /\ Cardinality(Returned(m))' = Cardinality(Returned(m))
        /\ Cardinality(Busy(m))' = Cardinality(Busy(m))
        /\ Cardinality(Uncounted(m))' = Cardinality(Uncounted(m))
    BY <2>1, Standing
  <2>4. Silenced(m)'
    BY <1>0, <2>1, <2>3 DEF Silenced
  <2>5. Counted(m)'
    BY <1>0, <2>1, <2>2, <2>3, Crowd, Numbers DEF Counted
  <2> QED
    BY <2>4, <2>5
<1>5. CASE Restart
  <2>1. /\ sentCount'[m] = 0 /\ burst'[m] = 0 /\ late' = late /\ saved' = saved
        /\ saved[m] = "off" => enabled'[m] = "off"
    BY <1>5 DEF Restart, Zero, Loaded
  <2>2. Busy(m)' = {} /\ Out(m)' = {} /\ Uncounted(m)' = {}
    BY <1>5, NoneAssumption DEF Restart, Idle, Busy, Out, Uncounted
  <2>3. /\ Cardinality(Busy(m))' = 0 /\ Cardinality(Out(m))' = 0
        /\ Cardinality(Uncounted(m))' = 0
    BY <2>2, FS_EmptySet
  <2>4. saved[m] = "off" => late[m] <= Cardinality(Senders)
    BY <1>0, Crowd, Numbers, Bounds DEF Silenced
  <2>5. Counted(m)'
    BY <2>1, <2>3, Bounds DEF Counted
  <2>6. Silenced(m)'
    BY <2>1, <2>3, <2>4, Numbers, Bounds DEF Silenced
  <2> QED
    BY <2>5, <2>6
<1> QED
  BY <1>1, <1>2, <1>3, <1>4, <1>5

(* The invariant behind the two theorems that follow. *)
THEOREM Inductive == Spec => [](TypeOK /\ Inv)
<1>1. Init => TypeOK /\ Inv
  BY TypeOKInit, InvInit
<1>2. TypeOK /\ Inv /\ [Next]_vars => (TypeOK /\ Inv)'
  BY TypeOKNext, InvCanSend, InvSend, InvLog, InvRest DEF Next
<1> QED
  BY <1>1, <1>2, PTL DEF Spec

(* Between two quiet hours a notifier sends at most Limits notices that    *)
(* count (CanSend, LastSentCount), and one more for each goroutine but the *)
(* one that took the last of them: errors of OnFailure, edits, copies of   *)
(* outdated rows and the decrements of quiet hours add nothing.            *)
THEOREM LimitKept == Spec => []HourlyLimit
<1>1. TypeOK /\ Inv => HourlyLimit
  <2> SUFFICES ASSUME TypeOK, Inv, NEW n \in Notifiers, burst[n] > Limits
               PROVE  burst[n] < Limits + Cardinality(Senders)
    BY DEF HourlyLimit
  <2>1. burst[n] <= sentCount[n] + Cardinality(Busy(n))
    BY Crowd, Numbers DEF Inv, Counted
  <2> QED
    BY <2>1, Crowd, Numbers, Bounds DEF Inv, Counted
<1> QED
  BY <1>1, Inductive, PTL

(* The row of a disabled notifier is read back by whatever is sent to it   *)
(* (logMessage, FindNotifier), so that no more notices get through than    *)
(* there are goroutines, after the change and after every outdated copy.   *)
THEOREM SilentSoon == Spec => []DisabledSoonSilent
<1>1. TypeOK /\ Inv => DisabledSoonSilent
  BY Crowd, Numbers, Bounds DEF DisabledSoonSilent, Inv, Silenced
<1> QED
  BY <1>1, Inductive, PTL

=============================================================================
