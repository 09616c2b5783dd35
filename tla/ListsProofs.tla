----------------------------- MODULE ListsProofs -----------------------------
(***************************************************************************)
(* Theorems about Lists, for any tabs, calls, ids and contents and for     *)
(* behaviours of any length.                                               *)
(***************************************************************************)
EXTENDS Lists, WellFoundedInduction, TLAPS

-----------------------------------------------------------------------------
(* Operators.                                                              *)

LEMMA Extended ==
  ASSUME NEW S, NEW s \in Seq(S), NEW e \in S
  PROVE  /\ Append(s, e) \in Seq(S)
         /\ Len(Append(s, e)) = Len(s) + 1
         /\ DOMAIN Append(s, e) = 1 .. Len(s) + 1
         /\ DOMAIN s = 1 .. Len(s)
         /\ \A k \in DOMAIN s : k \in DOMAIN Append(s, e) /\ Append(s, e)[k] = s[k]
         /\ Append(s, e)[Len(s) + 1] = e
OBVIOUS

LEMMA CurrentIsTable ==
  ASSUME TypeOK
  PROVE  Current \in Table /\ Len(log) \in DOMAIN log /\ Len(log) \in Nat
BY DEF TypeOK, Current

LEMMA ChangedTable ==
  ASSUME NEW t \in Table, NEW i \in Ids, NEW text \in Contents
  PROVE  [t EXCEPT ![i] = text] \in Table
BY DEF Table

(* The table a step appends is a table. *)
LEMMA TableStored ==
  ASSUME TypeOK, NEW t \in Table, Put(t)
  PROVE  /\ log' \in Seq(Table) /\ Len(log') = Len(log) + 1 /\ Len(log') > 0
         /\ \A k \in DOMAIN log : k \in DOMAIN log' /\ log'[k] = log[k]
         /\ \A k \in DOMAIN log' : k \in DOMAIN log \/ log'[k] = t
<1>1. log \in Seq(Table) /\ log' = Append(log, t)
  BY DEF TypeOK, Put
<1>2. Len(log) \in Nat
  BY <1>1
<1>3. log' \in Seq(Table) /\ Len(log') = Len(log) + 1
      /\ DOMAIN log' = 1 .. Len(log) + 1 /\ DOMAIN log = 1 .. Len(log)
      /\ log'[Len(log) + 1] = t
      /\ \A k \in DOMAIN log : k \in DOMAIN log' /\ log'[k] = log[k]
  BY <1>1, Extended
<1>4. \A k \in DOMAIN log' : k \in DOMAIN log \/ k = Len(log) + 1
  BY <1>2, <1>3
<1>5. QED
  BY <1>2, <1>3, <1>4

(* The steps that change the table, and what they put. *)
Puts == \/ \E c \in Calls : Store(c)
        \/ \E c \in Calls, i \in Ids : StoreNext(c, i)
        \/ \E i \in Ids : SaveElsewhere(i)

LEMMA PutsTable ==
  ASSUME TypeOK, Puts
  PROVE  \E t \in Table : Put(t)
<1>1. ASSUME NEW c \in Calls, Store(c) PROVE \E t \in Table : Put(t)
  BY <1>1 DEF Store
<1>2. ASSUME NEW c \in Calls, NEW i \in Ids, StoreNext(c, i) PROVE \E t \in Table : Put(t)
  BY <1>2, CurrentIsTable, ChangedTable DEF StoreNext
<1>3. ASSUME NEW i \in Ids, SaveElsewhere(i) PROVE \E t \in Table : Put(t)
  BY <1>3, CurrentIsTable, ChangedTable DEF SaveElsewhere
<1>4. QED
  BY <1>1, <1>2, <1>3 DEF Puts

(* Typing into a list. *)
LEMMA Typed ==
  ASSUME TypeOK, NEW t \in Tabs, NEW text \in Contents, TypeInList(t, text)
  PROVE  /\ form[t].id \in Ids /\ shown[t][form[t].id] # Absent
         /\ shown' = [shown EXCEPT ![t] = [shown[t] EXCEPT ![form[t].id] = text]]
         /\ shown' \in [Tabs -> Table]
         /\ \A u \in Tabs, i \in Ids : shown'[u][i] = Absent <=> shown[u][i] = Absent
<1>1. form[t].id \in Ids /\ shown[t][form[t].id] # Absent
  BY DEF TypeInList, TypeOK
<1>2. shown' = [shown EXCEPT ![t] = [shown[t] EXCEPT ![form[t].id] = text]]
  BY DEF TypeInList
<1>3. shown[t] \in Table /\ [shown[t] EXCEPT ![form[t].id] = text] \in Table
  BY <1>1, ChangedTable DEF TypeOK
<1>4. shown' \in [Tabs -> Table]
  BY <1>2, <1>3 DEF TypeOK
<1>5. text # Absent
  BY AbsentAssumption
<1>6. ASSUME NEW u \in Tabs, NEW i \in Ids
      PROVE  shown'[u][i] = Absent <=> shown[u][i] = Absent
  <2>1. CASE u = t
    <3>1. shown'[u] = [shown[t] EXCEPT ![form[t].id] = text]
      BY <1>2, <2>1 DEF TypeOK
    <3>2. shown'[u][i] = IF i = form[t].id THEN text ELSE shown[t][i]
      BY <3>1, <1>3 DEF Table
    <3>3. QED
      BY <1>1, <1>5, <2>1, <3>2
  <2>2. CASE u # t
    BY <1>2, <2>2 DEF TypeOK
  <2>3. QED
    BY <2>1, <2>2
<1>7. QED
  BY <1>1, <1>2, <1>4, <1>6

-----------------------------------------------------------------------------
(* Types.                                                                  *)

LEMMA GivenIsTable ==
  ASSUME NEW c \in Calls, NEW t \in Table
  PROVE  /\ Given(c, t) \in Table
         /\ \A i \in Ids : Given(c, t)[i] = t[i]
                         \/ (Filtered /\ c \in part /\ Given(c, t)[i] = Absent)
BY DEF Given, Table

LEMMA InitTyped == Init => TypeOK
<1> SUFFICES ASSUME Init PROVE TypeOK
  OBVIOUS
<1>1. PICK t \in Start : log = <<t>> /\ shown = [tab \in Tabs |-> t]
  BY DEF Init
<1>2. t \in Table
  BY <1>1, StartAssumption
<1>3. log \in Seq(Table) /\ Len(log) > 0 /\ shown \in [Tabs -> Table]
  BY <1>1, <1>2
<1>4. Empty \in Table
  BY DEF Empty, Table
<1>5. QED
  BY <1>3, <1>4 DEF Init, TypeOK, Blank, NoRequest, PCs

LEMMA BeginTyped ==
  ASSUME TypeOK, NEW c \in Calls, NEW what \in Whats, NEW id \in Ids \cup {None},
         what \in {"update", "delete"} => id \in Ids, Begin(c, what, id)
  PROVE  /\ pc' \in [Calls -> PCs]
         /\ req' \in [Calls -> [what : Whats \cup {"none"}, id : Ids \cup {None}]]
         /\ \A d \in Calls :
              /\ req'[d].what \in {"update", "delete"} => req'[d].id \in Ids
              /\ pc'[d] = "answer" => pc[d] = "answer"
         /\ UNCHANGED <<from, answer, wrote, part>>
BY DEF Begin, TypeOK, PCs, readVars

LEMMA FinishTyped ==
  ASSUME TypeOK, NEW c \in Calls, Finish(c)
  PROVE  /\ pc' \in [Calls -> PCs]
         /\ req' \in [Calls -> [what : Whats \cup {"none"}, id : Ids \cup {None}]]
         /\ \A d \in Calls :
              /\ req'[d].what \in {"update", "delete"} => req'[d].id \in Ids
              /\ d # c => pc'[d] = pc[d] /\ req'[d] = req[d] /\ from'[d] = from[d]
                          /\ answer'[d] = answer[d] /\ wrote'[d] = wrote[d]
                          /\ (d \in part' <=> d \in part)
         /\ pc'[c] = "idle" /\ wrote'[c] = 0 /\ answer'[c] = Empty
         /\ left' \in [Calls -> SUBSET Ids] /\ from' \in [Calls -> Nat]
         /\ answer' \in [Calls -> Table] /\ wrote' \in [Calls -> Nat]
         /\ part' \subseteq Calls
<1>1. Empty \in Table
  BY DEF Empty, Table
<1>2. QED
  BY <1>1 DEF Finish, TypeOK, PCs, NoRequest, None

LEMMA NextTyped == TypeOK /\ [Next]_vars => TypeOK'
<1> SUFFICES ASSUME TypeOK, [Next]_vars PROVE TypeOK'
  OBVIOUS
<1> USE DEF serverVars, tabVars, callVars, readVars, listVars
<1>1. ASSUME NEW t \in Tabs, CloseForm(t) \/ CloseModal(t) PROVE TypeOK'
  <2>1. CASE CloseForm(t)
    <3>1. form' = [form EXCEPT ![t] = Blank] /\ form \in [Tabs -> [id : Ids \cup {None}, live : BOOLEAN]]
      BY <2>1 DEF CloseForm, TypeOK
    <3>2. Blank \in [id : Ids \cup {None}, live : BOOLEAN] /\ ~ Blank.live
      BY DEF Blank
    <3>3. form' \in [Tabs -> [id : Ids \cup {None}, live : BOOLEAN]]
      BY <3>1, <3>2
    <3>4. \A u \in Tabs : form'[u].live => form'[u] = form[u]
      BY <3>1, <3>2
    <3>5. QED
      BY <2>1, <3>3, <3>4 DEF CloseForm, TypeOK
  <2>2. CASE CloseModal(t)
    BY <2>2 DEF CloseModal, TypeOK
  <2>3. QED
    BY <1>1, <2>1, <2>2
<1>2. ASSUME NEW t \in Tabs, NEW i \in Ids, Edit(t, i) PROVE TypeOK'
  BY <1>2 DEF Edit, TypeOK
<1>3. ASSUME NEW t \in Tabs, NEW i \in Ids, AskDelete(t, i) PROVE TypeOK'
  BY <1>3 DEF AskDelete, TypeOK
<1>4. ASSUME NEW t \in Tabs, NEW text \in Contents, TypeInList(t, text) PROVE TypeOK'
  <2>1. shown' \in [Tabs -> Table] /\ form[t].id \in Ids
        /\ \A u \in Tabs, i \in Ids : shown'[u][i] = Absent <=> shown[u][i] = Absent
    BY <1>4, Typed
  <2>2. form' = form /\ \A u \in Tabs : form'[u].live =>
           form'[u].id \in Ids /\ shown'[u][form'[u].id] # Absent
    BY <1>4, <2>1 DEF TypeInList, TypeOK
  <2>3. QED
    BY <1>4, <2>1, <2>2 DEF TypeInList, TypeOK
<1>5. ASSUME NEW c \in Calls, Save(c) PROVE TypeOK'
  <2> DEFINE t == Home[c]
             what == IF form[t].id = None THEN "create" ELSE "update"
  <2>1. t \in Tabs
    BY HomeAssumption
  <2>2. form[t].id \in Ids \cup {None} /\ what \in Whats
        /\ (what \in {"update", "delete"} => form[t].id \in Ids)
    BY <2>1 DEF TypeOK, Whats
  <2>3. Begin(c, what, form[t].id) /\ busy' = [busy EXCEPT ![t] = Disables]
    BY <1>5 DEF Save
  <2>4. busy' \in [Tabs -> BOOLEAN]
    <3>1. Disables \in BOOLEAN
      BY DEF Disables
    <3>2. QED
      BY <2>3, <3>1, Zenon DEF TypeOK
  <2> HIDE DEF what, t
  <2>5. /\ pc' \in [Calls -> PCs]
        /\ req' \in [Calls -> [what : Whats \cup {"none"}, id : Ids \cup {None}]]
        /\ \A d \in Calls :
             /\ req'[d].what \in {"update", "delete"} => req'[d].id \in Ids
             /\ pc'[d] = "answer" => pc[d] = "answer"
        /\ UNCHANGED <<from, answer, wrote, part>>
    BY <2>2, <2>3, BeginTyped
  <2>6. QED
    BY <1>5, <2>4, <2>5 DEF Save, TypeOK
<1>6. ASSUME NEW c \in Calls, ConfirmDelete(c) PROVE TypeOK'
  <2> DEFINE t == Home[c]
  <2>1. t \in Tabs
    BY HomeAssumption
  <2>2. modal[t] \in Ids
    BY <1>6, <2>1 DEF ConfirmDelete, TypeOK
  <2>3. Begin(c, "delete", modal[t]) /\ "delete" \in Whats
    BY <1>6 DEF ConfirmDelete, Whats
  <2>4. /\ pc' \in [Calls -> PCs]
        /\ req' \in [Calls -> [what : Whats \cup {"none"}, id : Ids \cup {None}]]
        /\ \A d \in Calls :
             /\ req'[d].what \in {"update", "delete"} => req'[d].id \in Ids
             /\ pc'[d] = "answer" => pc[d] = "answer"
        /\ UNCHANGED <<from, answer, wrote, part>>
    BY <2>2, <2>3, BeginTyped
  <2>5. modal' \in [Tabs -> Ids \cup {None}]
    BY <1>6 DEF ConfirmDelete, TypeOK
  <2>6. busy' \in [Tabs -> BOOLEAN]
    <3>1. busy' = [busy EXCEPT ![t] = busy[t] \/ table = "services"]
      BY <1>6 DEF ConfirmDelete
    <3>2. (busy[t] \/ table = "services") \in BOOLEAN
      BY <2>1 DEF TypeOK
    <3>3. QED
      BY <3>1, <3>2, Zenon DEF TypeOK
  <2>7. QED
    BY <1>6, <2>4, <2>5, <2>6 DEF ConfirmDelete, TypeOK
<1>7. ASSUME NEW c \in Calls, Drag(c) PROVE TypeOK'
  <2>1. Begin(c, "reorder", None) /\ "reorder" \in Whats
    BY <1>7 DEF Drag, Whats
  <2>2. /\ pc' \in [Calls -> PCs]
        /\ req' \in [Calls -> [what : Whats \cup {"none"}, id : Ids \cup {None}]]
        /\ \A d \in Calls :
             /\ req'[d].what \in {"update", "delete"} => req'[d].id \in Ids
             /\ pc'[d] = "answer" => pc[d] = "answer"
        /\ UNCHANGED <<from, answer, wrote, part>>
    BY <2>1, BeginTyped
  <2>3. left' \in [Calls -> SUBSET Ids]
    BY <1>7 DEF Drag, TypeOK, Rows
  <2>4. QED
    BY <1>7, <2>2, <2>3 DEF Drag, TypeOK
<1>8. ASSUME NEW c \in Calls, Ask(c) PROVE TypeOK'
  BY <1>8 DEF Ask, TypeOK, PCs
<1>a. ASSUME NEW c \in Calls, Count(c) PROVE TypeOK'
  BY <1>a DEF Count, TypeOK, PCs
<1>b. ASSUME NEW t \in Tabs, Cookie(t) PROVE TypeOK'
  BY <1>b DEF Cookie, TypeOK
<1>9. ASSUME Puts PROVE TypeOK'
  <2>1. log' \in Seq(Table) /\ Len(log') > 0
        /\ \A k \in DOMAIN log : k \in DOMAIN log'
    BY <1>9, PutsTable, TableStored
  <2>2. ASSUME NEW c \in Calls, Store(c) PROVE TypeOK'
    BY <2>1, <2>2, CurrentIsTable DEF Store, TypeOK, PCs, Wrote
  <2>3. ASSUME NEW c \in Calls, NEW i \in Ids, StoreNext(c, i) PROVE TypeOK'
    <3>1. left' \in [Calls -> SUBSET Ids] /\ wrote' \in [Calls -> Nat]
      BY <2>3, CurrentIsTable DEF StoreNext, Wrote, TypeOK
    <3>2. pc' \in [Calls -> PCs]
      BY <2>3 DEF StoreNext, TypeOK, PCs
    <3>3. QED
      BY <2>1, <2>3, <3>1, <3>2 DEF StoreNext, TypeOK
  <2>4. ASSUME NEW i \in Ids, SaveElsewhere(i) PROVE TypeOK'
    BY <2>1, <2>4 DEF SaveElsewhere, TypeOK
  <2>5. QED
    BY <1>9, <2>2, <2>3, <2>4 DEF Puts
<1>10. ASSUME NEW c \in Calls, Get(c) PROVE TypeOK'
  <2>1. part' \subseteq Calls
    BY <1>10 DEF Get, TypeOK
  <2>2. QED
    BY <1>10, <2>1, CurrentIsTable DEF Get, TypeOK, PCs
<1>c. ASSUME NEW c \in Calls, Answer(c) PROVE TypeOK'
  <2>1. PICK t \in Table : answer' = [answer EXCEPT ![c] = Given(c, t)]
    BY <1>c DEF Answer, AnswerServices, AnswerRows
  <2>2. answer' \in [Calls -> Table]
    BY <2>1, GivenIsTable DEF TypeOK
  <2>3. part' \subseteq Calls
    BY <1>c DEF Answer, AnswerServices, AnswerRows, TypeOK
  <2>4. pc' \in [Calls -> PCs] /\ from' \in [Calls -> Nat]
    BY <1>c DEF Answer, TypeOK, PCs
  <2>5. QED
    BY <1>c, <2>2, <2>3, <2>4 DEF Answer, TypeOK
<1>11. ASSUME NEW c \in Calls, Commit(c) PROVE TypeOK'
  <2> DEFINE t == Home[c]
  <2>1. t \in Tabs /\ answer[c] \in Table
    BY HomeAssumption DEF TypeOK
  <2>2. shown' \in [Tabs -> Table] /\ touched' \in [Tabs -> SUBSET Ids]
        /\ lacking' \subseteq Tabs
        /\ \A u \in Tabs \ {t} : shown'[u] = shown[u]
    BY <1>11, <2>1 DEF Commit, Fresh, TypeOK
  <2>3. /\ form' \in [Tabs -> [id : Ids \cup {None}, live : BOOLEAN]]
        /\ ~ form'[t].live
        /\ \A u \in Tabs \ {t} : form'[u] = form[u]
    <3>1. CASE req[c].what \in {"create", "update"}
      BY <1>11, <2>1, <3>1 DEF Commit, TypeOK, Blank
    <3>2. CASE req[c].what \notin {"create", "update"}
      <4>1. form' = [form EXCEPT ![t] = [form[t] EXCEPT !.live = FALSE]]
        BY <1>11, <3>2 DEF Commit
      <4>2. form[t] \in [id : Ids \cup {None}, live : BOOLEAN]
        BY <2>1 DEF TypeOK
      <4> DEFINE f == [form[t] EXCEPT !.live = FALSE]
      <4>3. f \in [id : Ids \cup {None}, live : BOOLEAN] /\ ~ f.live
        BY <4>2
      <4> HIDE DEF f
      <4>4. form' = [form EXCEPT ![t] = f]
        BY <4>1 DEF f
      <4>5. QED
        BY <2>1, <4>3, <4>4 DEF TypeOK
    <3>3. QED
      BY <3>1, <3>2
  <2>4. \A u \in Tabs : form'[u].live =>
           form'[u].id \in Ids /\ shown'[u][form'[u].id] # Absent
    BY <2>2, <2>3 DEF TypeOK
  <2>5. busy' \in [Tabs -> BOOLEAN]
    BY <1>11 DEF Commit, TypeOK
  <2>6. Finish(c) /\ UNCHANGED <<table, log, modal, strangers>>
    BY <1>11 DEF Commit
  <2>7. QED
    BY <2>2, <2>3, <2>4, <2>5, <2>6, FinishTyped DEF TypeOK
<1>12. ASSUME NEW c \in Calls, Reject(c) PROVE TypeOK'
  <2>1. Finish(c) /\ UNCHANGED <<table, log, shown, form, busy, modal, strangers, touched, lacking>>
    BY <1>12 DEF Reject
  <2>2. QED
    BY <2>1, FinishTyped DEF TypeOK
<1>13. CASE UNCHANGED vars
  BY <1>13 DEF vars, TypeOK
<1>14. QED
  BY <1>1, <1>2, <1>3, <1>4, <1>5, <1>6, <1>7, <1>8, <1>a, <1>b, <1>c, <1>9, <1>10, <1>11,
     <1>12, <1>13
     DEF Next, Answered, Puts

(* Every variable keeps its type; a form that holds a row of the list      *)
(* holds one that the list shows, whatever answers arrive under it.        *)
THEOREM TypeCorrect == Spec => []TypeOK
BY InitTyped, NextTyped, PTL DEF Spec

-----------------------------------------------------------------------------
(* Answers are no older than the writes of their calls.                    *)

AnswerInv ==
  \A c \in Calls :
    /\ pc[c] \in {"get", "read", "answer"} => wrote[c] \in 1 .. Len(log)
    /\ pc[c] = "read" => from[c] \in wrote[c] .. Len(log)
    /\ pc[c] = "answer" =>
         \E t \in Table :
           /\ Since(wrote[c], t)
           /\ \A i \in Ids : answer[c][i] = t[i] \/ (c \in part /\ answer[c][i] = Absent)

(* What is said of one call stays true of the others, and as the server    *)
(* writes.                                                                 *)
LEMMA CallKeeps ==
  ASSUME TypeOK, AnswerInv, NEW d \in Calls, table' = table,
         pc'[d] = pc[d], from'[d] = from[d], wrote'[d] = wrote[d], answer'[d] = answer[d],
         d \in part' <=> d \in part,
         Len(log') \in Nat, Len(log) <= Len(log'),
         \A k \in 1 .. Len(log) : log'[k] = log[k]
  PROVE  /\ pc'[d] \in {"get", "read", "answer"} => wrote'[d] \in 1 .. Len(log')
         /\ pc'[d] = "read" => from'[d] \in wrote'[d] .. Len(log')
         /\ pc'[d] = "answer" =>
              \E t \in Table :
                /\ Since(wrote[d], t)'
                /\ \A i \in Ids : answer'[d][i] = t[i] \/ (d \in part' /\ answer'[d][i] = Absent)
<1>1. Len(log) \in Nat /\ wrote[d] \in Nat /\ from[d] \in Nat
  BY CurrentIsTable DEF TypeOK
<1>2. ASSUME pc[d] = "answer", NEW t \in Table, Since(wrote[d], t) PROVE Since(wrote[d], t)'
  <2>1. wrote[d] \in 1 .. Len(log)
    BY <1>2 DEF AnswerInv
  <2>2. \A n \in wrote[d] .. Len(log) : n \in wrote[d] .. Len(log') /\ log'[n] = log[n]
    BY <1>1, <2>1
  <2>3. CASE table = "services"
    BY <1>2, <2>2, <2>3 DEF Since
  <2>4. CASE table # "services"
    BY <1>2, <2>2, <2>4 DEF Since
  <2>5. QED
    BY <2>3, <2>4
<1>3. QED
  BY <1>1, <1>2 DEF AnswerInv

LEMMA PutLonger ==
  ASSUME TypeOK, NEW t \in Table, Put(t)
  PROVE  Len(log') \in Nat /\ Len(log') = Len(log) + 1 /\ \A k \in 1 .. Len(log) : log'[k] = log[k]
<1>1. Len(log) \in Nat /\ DOMAIN log = 1 .. Len(log)
  BY DEF TypeOK
<1>2. QED
  BY <1>1, TableStored

LEMMA NextAnswers == TypeOK /\ AnswerInv /\ [Next]_vars => AnswerInv'
<1> SUFFICES ASSUME TypeOK, AnswerInv, [Next]_vars PROVE AnswerInv'
  OBVIOUS
<1> USE DEF serverVars, tabVars, callVars, readVars, listVars
<1> DEFINE Good(d) == /\ pc[d] \in {"get", "read", "answer"} => wrote[d] \in 1 .. Len(log)
                      /\ pc[d] = "read" => from[d] \in wrote[d] .. Len(log)
                      /\ pc[d] = "answer" =>
                           \E t \in Table :
                             /\ Since(wrote[d], t)
                             /\ \A i \in Ids : answer[d][i] = t[i]
                                            \/ (d \in part /\ answer[d][i] = Absent)
<1>0. Len(log) \in Nat /\ \A k \in 1 .. Len(log) : log[k] = log[k]
  BY CurrentIsTable
<1>1. ASSUME UNCHANGED <<table, log, callVars>> PROVE AnswerInv'
  <2>1. \A d \in Calls : Good(d)'
    BY <1>0, <1>1, CallKeeps
  <2>2. QED
    BY <2>1 DEF AnswerInv
<1>2. ASSUME NEW c \in Calls, NEW what, NEW id, Begin(c, what, id), UNCHANGED <<table, log>>
      PROVE  AnswerInv'
  <2>1. ASSUME NEW d \in Calls, d # c PROVE Good(d)'
    <3>1. pc'[d] = pc[d] /\ from'[d] = from[d] /\ wrote'[d] = wrote[d] /\ answer'[d] = answer[d]
          /\ (d \in part' <=> d \in part)
      BY <1>2, <2>1 DEF Begin, TypeOK
    <3>2. QED
      BY <1>0, <1>2, <3>1, CallKeeps
  <2>2. pc'[c] = "ask"
    BY <1>2 DEF Begin, TypeOK
  <2>3. QED
    BY <2>1, <2>2 DEF AnswerInv
<1>3. ASSUME NEW c \in Calls, Save(c) \/ ConfirmDelete(c) \/ Drag(c) PROVE AnswerInv'
  BY <1>2, <1>3 DEF Save, ConfirmDelete, Drag
<1>4. ASSUME NEW c \in Calls, Count(c) \/ Ask(c) PROVE AnswerInv'
  <2>1. ASSUME NEW d \in Calls, d # c PROVE Good(d)'
    <3>1. pc'[d] = pc[d] /\ UNCHANGED <<table, log, from, wrote, answer, part>>
      BY <1>4, <2>1 DEF Count, Ask, TypeOK
    <3>2. QED
      BY <1>0, <3>1, CallKeeps
  <2>2. pc'[c] \in {"find", "store"}
    BY <1>4 DEF Count, Ask, TypeOK
  <2>3. QED
    BY <2>1, <2>2 DEF AnswerInv
<1>5. ASSUME NEW c \in Calls, NEW t \in Table, Put(t), Wrote(c),
             pc'[c] \in {"store", "get"}, \A d \in Calls \ {c} : pc'[d] = pc[d],
             UNCHANGED <<table, from, answer, part>>
      PROVE  AnswerInv'
  <2>1. Len(log') \in Nat /\ Len(log') = Len(log) + 1 /\ \A k \in 1 .. Len(log) : log'[k] = log[k]
    BY <1>5, PutLonger
  <2>2. \A d \in Calls : wrote'[d] = IF d = c THEN Len(log') ELSE wrote[d]
    BY <1>5, <2>1 DEF Wrote, TypeOK
  <2>3. ASSUME NEW d \in Calls, d # c PROVE Good(d)'
    BY <1>0, <1>5, <2>1, <2>2, <2>3, CallKeeps
  <2>4. wrote'[c] \in 1 .. Len(log')
    BY <1>0, <2>1, <2>2
  <2>5. QED
    BY <1>5, <2>3, <2>4 DEF AnswerInv
<1>6. ASSUME NEW c \in Calls, Store(c) PROVE AnswerInv'
  <2>1. PICK t \in Table : Put(t)
    BY <1>6 DEF Store
  <2>2. pc'[c] = "get" /\ \A d \in Calls \ {c} : pc'[d] = pc[d]
    BY <1>6 DEF Store, TypeOK
  <2>3. Wrote(c) /\ UNCHANGED <<table, from, answer, part>>
    BY <1>6 DEF Store
  <2>4. QED
    BY <1>5, <2>1, <2>2, <2>3
<1>7. ASSUME NEW c \in Calls, NEW i \in Ids, StoreNext(c, i) PROVE AnswerInv'
  <2>1. PICK t \in Table : Put(t)
    BY <1>7, PutsTable DEF Puts
  <2>2. pc'[c] \in {"store", "get"} /\ \A d \in Calls \ {c} : pc'[d] = pc[d]
    BY <1>7 DEF StoreNext, TypeOK
  <2>3. Wrote(c) /\ UNCHANGED <<table, from, answer, part>>
    BY <1>7 DEF StoreNext
  <2>4. QED
    BY <1>5, <2>1, <2>2, <2>3
<1>8. ASSUME NEW i \in Ids, SaveElsewhere(i) PROVE AnswerInv'
  <2>1. PICK t \in Table : Put(t)
    BY <1>8, PutsTable DEF Puts
  <2>2. Len(log') \in Nat /\ Len(log') = Len(log) + 1 /\ \A k \in 1 .. Len(log) : log'[k] = log[k]
    BY <2>1, PutLonger
  <2>3. \A d \in Calls : Good(d)'
    BY <1>0, <1>8, <2>2, CallKeeps DEF SaveElsewhere
  <2>4. QED
    BY <2>3 DEF AnswerInv
<1>9. ASSUME NEW c \in Calls, Get(c) PROVE AnswerInv'
  <2>1. ASSUME NEW d \in Calls, d # c PROVE Good(d)'
    <3>1. pc'[d] = pc[d] /\ from'[d] = from[d] /\ UNCHANGED <<table, log, wrote, answer>>
      BY <1>9, <2>1 DEF Get, TypeOK
    <3>2. d \in part' <=> d \in part
      BY <1>9, <2>1 DEF Get
    <3>3. QED
      BY <1>0, <3>1, <3>2, CallKeeps
  <2>2. pc'[c] = "read" /\ from'[c] = Len(log) /\ wrote'[c] = wrote[c] /\ log' = log
    BY <1>9 DEF Get, TypeOK
  <2>3. wrote[c] \in 1 .. Len(log)
    BY <1>9 DEF Get, AnswerInv
  <2>4. QED
    BY <1>0, <2>1, <2>2, <2>3 DEF AnswerInv
<1>10. ASSUME NEW c \in Calls, Answer(c) PROVE AnswerInv'
  <2>1. ASSUME NEW d \in Calls, d # c PROVE Good(d)'
    <3>1. pc'[d] = pc[d] /\ from'[d] = from[d] /\ answer'[d] = answer[d]
          /\ UNCHANGED <<table, log, wrote>>
      BY <1>10, <2>1 DEF Answer, AnswerServices, AnswerRows, TypeOK
    <3>2. d \in part' <=> d \in part
      BY <1>10, <2>1 DEF Answer, AnswerServices, AnswerRows
    <3>3. QED
      BY <1>0, <3>1, <3>2, CallKeeps
  <2>2. pc[c] = "read" /\ pc'[c] = "answer" /\ UNCHANGED <<table, log, wrote>>
    BY <1>10 DEF Answer, AnswerServices, AnswerRows, TypeOK
  <2>3. from[c] \in wrote[c] .. Len(log) /\ wrote[c] \in 1 .. Len(log)
    BY <2>2 DEF AnswerInv
  <2>4. \E t \in Table :
          /\ Since(wrote[c], t)
          /\ \A i \in Ids : answer'[c][i] = t[i] \/ (c \in part' /\ answer'[c][i] = Absent)
    <3>1. CASE AnswerServices(c)
      <4>1. PICK t \in Table : /\ \A i \in Ids : \E k \in from[c] .. Len(log) : t[i] = log[k][i]
                               /\ answer' = [answer EXCEPT ![c] = Given(c, t)]
        BY <3>1 DEF AnswerServices
      <4>2. Since(wrote[c], t)
        BY <1>0, <2>3, <3>1, <4>1 DEF AnswerServices, Since
      <4>3. answer'[c] = Given(c, t) /\ part' = part
        BY <3>1, <4>1 DEF AnswerServices, TypeOK
      <4>4. QED
        BY <4>2, <4>3, GivenIsTable
    <3>2. CASE AnswerRows(c)
      <4>1. PICK t \in Table : /\ All(t)
                               /\ answer' = [answer EXCEPT ![c] = Given(c, t)]
                               /\ part' = IF t = Current THEN part ELSE part \cup {c}
        BY <3>2 DEF AnswerRows
      <4>2. Since(wrote[c], Current) /\ Current \in Table
        BY <1>0, <2>3, <3>2, CurrentIsTable DEF AnswerRows, Since, Current
      <4>3. answer'[c] = Given(c, t) /\ part \subseteq part'
        BY <4>1 DEF TypeOK
      <4>4. \A i \in Ids : t[i] = Current[i] \/ (c \in part' /\ t[i] = Absent)
        BY <4>1 DEF All, Cut
      <4>5. \A i \in Ids : Given(c, t)[i] = t[i] \/ (c \in part /\ Given(c, t)[i] = Absent)
        BY GivenIsTable
      <4>6. \A i \in Ids : answer'[c][i] = Current[i] \/ (c \in part' /\ answer'[c][i] = Absent)
        BY <4>3, <4>4, <4>5
      <4>7. QED
        BY <4>2, <4>6
    <3>3. QED
      BY <1>10, <3>1, <3>2 DEF Answer
  <2>5. \E t \in Table :
          /\ Since(wrote[c], t)'
          /\ \A i \in Ids : answer'[c][i] = t[i] \/ (c \in part' /\ answer'[c][i] = Absent)
    BY <2>2, <2>4 DEF Since
  <2>6. Good(c)'
    BY <2>2, <2>3, <2>5
  <2>7. QED
    BY <2>1, <2>6 DEF AnswerInv
<1>11. ASSUME NEW c \in Calls, Commit(c) \/ Reject(c) PROVE AnswerInv'
  <2>1. Finish(c) /\ UNCHANGED <<table, log>>
    BY <1>11 DEF Commit, Reject
  <2>2. pc'[c] = "idle"
    BY <2>1, FinishTyped
  <2>3. ASSUME NEW d \in Calls, d # c PROVE Good(d)'
    <3>1. pc'[d] = pc[d] /\ from'[d] = from[d] /\ answer'[d] = answer[d] /\ wrote'[d] = wrote[d]
          /\ (d \in part' <=> d \in part)
      BY <2>1, <2>3, FinishTyped
    <3>2. QED
      BY <1>0, <2>1, <3>1, CallKeeps
  <2>4. QED
    BY <2>2, <2>3 DEF AnswerInv
<1>12. ASSUME NEW t \in Tabs, CloseForm(t) \/ CloseModal(t) \/ Cookie(t) PROVE AnswerInv'
  BY <1>1, <1>12 DEF CloseForm, CloseModal, Cookie
<1>13. ASSUME NEW t \in Tabs, NEW i \in Ids, Edit(t, i) \/ AskDelete(t, i) PROVE AnswerInv'
  BY <1>1, <1>13 DEF Edit, AskDelete
<1>14. ASSUME NEW t \in Tabs, NEW text \in Contents, TypeInList(t, text) PROVE AnswerInv'
  BY <1>1, <1>14 DEF TypeInList
<1>15. CASE UNCHANGED vars
  BY <1>1, <1>15 DEF vars
<1>16. QED
  BY <1>3, <1>4, <1>6, <1>7, <1>8, <1>9, <1>10, <1>11, <1>12, <1>13, <1>14, <1>15
     DEF Next, Answered

LEMMA InitAnswers == Init => AnswerInv
BY DEF Init, AnswerInv

(* What a call puts into its list is no older than its own write, however  *)
(* many calls overlap and however many rows a failed read leaves out.      *)
THEOREM OwnWritesAreShown == Spec => []AnswersFollowWrites
<1>1. AnswerInv => AnswersFollowWrites
  BY DEF AnswerInv, AnswersFollowWrites
<1>2. QED
  BY <1>1, InitAnswers, NextAnswers, TypeCorrect, PTL DEF Spec

-----------------------------------------------------------------------------
(* The lists are what Mirror promises.                                     *)

LEMMA InitMirrors == Init => Abstract!Init
<1> SUFFICES ASSUME Init PROVE Abstract!Init
  OBVIOUS
<1>1. PICK t \in Start : log = <<t>> /\ shown = [tab \in Tabs |-> t]
  BY DEF Init
<1>2. t \in Abstract!Table
  BY <1>1, StartAssumption DEF Table, Abstract!Table
<1>3. QED
  BY <1>1, <1>2 DEF Init, Abstract!Init, Tables

(* What an answer is, whole or not. *)
LEMMA AnswerShows ==
  ASSUME TypeOK, AnswerInv, NEW c \in Calls, pc[c] = "answer"
  PROVE  /\ answer[c] \in Abstract!Parts
         /\ c \notin part => answer[c] \in Abstract!Answers
<1>1. PICK t \in Table :
        /\ Since(wrote[c], t)
        /\ \A i \in Ids : answer[c][i] = t[i] \/ (c \in part /\ answer[c][i] = Absent)
  BY DEF AnswerInv
<1>2. wrote[c] \in 1 .. Len(log) /\ Len(log) \in Nat /\ DOMAIN log = 1 .. Len(log)
  BY DEF AnswerInv, TypeOK
<1>3. \A n \in wrote[c] .. Len(log) : log[n] \in Abstract!Held
  BY <1>2 DEF Abstract!Held
<1>4. t \in Abstract!Answers
  <2>1. CASE table = "services"
    <3>1. t \in Abstract!Table /\ \A i \in Ids : \E old \in Abstract!Held : t[i] = old[i]
      BY <1>1, <1>3, <2>1 DEF Since, Table, Abstract!Table
    <3>2. QED
      BY <2>1, <3>1 DEF Abstract!Answers
  <2>2. CASE table # "services"
    BY <1>1, <1>3, <2>2 DEF Since, Abstract!Answers
  <2>3. QED
    BY <2>1, <2>2
<1>5. answer[c] \in Table
  BY DEF TypeOK
<1>6. answer[c] \in Abstract!Parts
  BY <1>1, <1>4, <1>5 DEF Abstract!Parts, Table, Abstract!Table
<1>7. ASSUME c \notin part PROVE answer[c] = t
  BY <1>1, <1>5, <1>7 DEF Table
<1>8. QED
  BY <1>4, <1>6, <1>7

LEMMA CommitShows ==
  ASSUME TypeOK, AnswerInv, NEW c \in Calls, Commit(c)
  PROVE  Abstract!Show(Home[c])
<1>1. pc[c] = "answer" /\ shown' = [shown EXCEPT ![Home[c]] = answer[c]]
      /\ touched' = [touched EXCEPT ![Home[c]] = {}] /\ UNCHANGED <<table, log>>
      /\ lacking' = IF c \in part THEN lacking \cup {Home[c]} ELSE lacking \ {Home[c]}
  BY DEF Commit, Fresh, serverVars
<1>2. QED
  BY <1>1, AnswerShows DEF Abstract!Show

LEMMA NextMirrors == TypeOK /\ AnswerInv /\ [Next]_vars => [Abstract!Next]_Abstract!vars
<1> SUFFICES ASSUME TypeOK, AnswerInv, [Next]_vars
             PROVE  Abstract!Next \/ UNCHANGED <<table, log, shown, touched, lacking>>
  BY DEF Abstract!vars
<1> USE DEF serverVars, tabVars, callVars, readVars, listVars
<1>1. ASSUME NEW t \in Tabs, CloseForm(t) \/ CloseModal(t) \/ Cookie(t)
      PROVE  UNCHANGED <<table, log, shown, touched, lacking>>
  BY <1>1 DEF CloseForm, CloseModal, Cookie
<1>2. ASSUME NEW t \in Tabs, NEW i \in Ids, Edit(t, i) \/ AskDelete(t, i)
      PROVE  UNCHANGED <<table, log, shown, touched, lacking>>
  BY <1>2 DEF Edit, AskDelete
<1>3. ASSUME NEW t \in Tabs, NEW text \in Contents, TypeInList(t, text) PROVE Abstract!Next
  <2>1. form[t].id \in Ids /\ shown[t][form[t].id] # Absent
    BY <1>3, Typed
  <2>2. Abstract!Type(t, form[t].id)
    BY <1>3, <2>1 DEF TypeInList, Abstract!Type
  <2>3. QED
    BY <2>1, <2>2 DEF Abstract!Next
<1>4. ASSUME NEW c \in Calls,
             \/ Save(c) \/ ConfirmDelete(c) \/ Drag(c) \/ Count(c) \/ Ask(c)
             \/ Get(c) \/ Answer(c) \/ Reject(c)
      PROVE  UNCHANGED <<table, log, shown, touched, lacking>>
  BY <1>4 DEF Save, ConfirmDelete, Drag, Count, Ask, Get, Answer, Reject
<1>5. ASSUME Puts PROVE Abstract!Next
  <2>1. PICK t \in Table : Put(t)
    BY <1>5, PutsTable
  <2>2. UNCHANGED <<table, shown, touched, lacking>>
    BY <1>5 DEF Puts, Store, StoreNext, SaveElsewhere
  <2>3. Abstract!Write
    BY <2>1, <2>2 DEF Put, Table, Abstract!Table, Abstract!Write
  <2>4. QED
    BY <2>3 DEF Abstract!Next
<1>6. ASSUME NEW c \in Calls, Commit(c) PROVE Abstract!Next
  BY <1>6, CommitShows, HomeAssumption DEF Abstract!Next
<1>7. CASE UNCHANGED vars
  BY <1>7 DEF vars
<1>8. QED
  BY <1>1, <1>2, <1>3, <1>4, <1>5, <1>6, <1>7 DEF Next, Answered, Puts

(* The stores of all dashboards keep what Mirror promises: whatever calls  *)
(* overlap, overtake each other, are lost or answered with less, a list is *)
(* what the server held, but for the rows typed into since it was stored.  *)
THEOREM KeepsPromise == Spec => MirrorSpec
BY InitMirrors, NextMirrors, InitAnswers, NextAnswers, TypeCorrect, PTL
   DEF Spec, MirrorSpec, Abstract!Spec

-----------------------------------------------------------------------------
(* The first user stays.                                                   *)

LEMMA LeastExists ==
  ASSUME NEW S \in SUBSET Nat, S # {}
  PROVE  \E i \in S : \A j \in S : i <= j
<1> DEFINE R == {p \in Nat \X Nat : p[1] < p[2]}
<1>1. IsWellFoundedOn(R, Nat)
  BY NatLessThanWellFounded DEF OpToRel
<1>2. \E x \in S : \A y \in S : <<y, x>> \notin R
  <2> HIDE DEF R
  <2>1. QED
    BY <1>1, WFMin
<1>3. PICK x \in S : \A y \in S : <<y, x>> \notin R
  BY <1>2
<1>4. ASSUME NEW y \in S PROVE x <= y
  <2>1. <<y, x>> \in Nat \X Nat /\ <<y, x>> \notin R
    BY <1>3
  <2>2. ~ (y < x)
    BY <2>1
  <2>3. QED
    BY <2>2
<1>5. QED
  BY <1>4

Oldest(m, t) == t[m] # Absent /\ \A i \in Ids : t[i] # Absent => m <= i

(* m is the first row of an answer, unless the answer has none. *)
First(m, t) == \A i \in Ids : t[i] # Absent => t[m] # Absent /\ m <= i

(* m is the first row of every table, past and present, and nobody can     *)
(* delete it.                                                              *)
Stays(m) ==
  /\ \A k \in DOMAIN log : Oldest(m, log[k])
  /\ \A t \in Tabs : First(m, shown[t]) /\ modal[t] # m
  /\ \A c \in Calls : First(m, answer[c])
  /\ \A c \in Calls : req[c].what = "delete" => req[c].id # m

OneStays == InIdOrder /\ table = "users" => \E m \in Ids : Stays(m)

LEMMA InitStays == Init => OneStays
<1> SUFFICES ASSUME Init, table = "users" PROVE \E m \in Ids : Stays(m)
  BY DEF OneStays
<1>1. PICK t \in Start : log = <<t>> /\ shown = [tab \in Tabs |-> t] /\ Rows(t) # {}
  BY DEF Init
<1>2. Rows(t) \in SUBSET Nat /\ Rows(t) \subseteq Ids
  BY IdsAssumption DEF Rows
<1>3. PICK m \in Rows(t) : \A j \in Rows(t) : m <= j
  BY <1>1, <1>2, LeastExists
<1>4. Oldest(m, t) /\ m \in Ids /\ m # None
  BY <1>3, IdsAssumption DEF Oldest, Rows, None
<1>5. \A k \in DOMAIN log : log[k] = t
  BY <1>1
<1>6. Stays(m)
  BY <1>1, <1>4, <1>5 DEF Init, Stays, NoRequest, Oldest, First, Empty
<1>7. QED
  BY <1>4, <1>6

(* What a write does to the first row. *)
LEMMA OldestKept ==
  ASSUME NEW m \in Ids, NEW t \in Table, Oldest(m, t), NEW i \in Ids,
         NEW text \in Contents, t[i] # Absent \/ m < i
  PROVE  Oldest(m, [t EXCEPT ![i] = text])
<1> DEFINE new == [t EXCEPT ![i] = text]
<1>1. \A j \in Ids : new[j] = IF j = i THEN text ELSE t[j]
  BY DEF Table
<1>2. m <= i /\ text # Absent
  BY AbsentAssumption, IdsAssumption DEF Oldest
<1> HIDE DEF new
<1>3. Oldest(m, new)
  BY <1>1, <1>2 DEF Oldest
<1>4. QED
  BY <1>3 DEF new

LEMMA NewIsYounger ==
  ASSUME TypeOK, NEW m \in Ids, Oldest(m, Current), NEW i \in Ids, NewId(i)
  PROVE  m < i
BY DEF NewId, Rows, Oldest

LEMMA WrittenKeeps ==
  ASSUME TypeOK, NEW m \in Ids, Stays(m), NEW c \in Calls, NEW t \in Table,
         Written(req[c], t)
  PROVE  Oldest(m, t)
<1>1. Oldest(m, Current) /\ Current \in Table
  BY CurrentIsTable DEF Stays, Current
<1>2. CASE req[c].what = "create"
  <2>1. PICK i \in Ids, text \in Contents : NewId(i) /\ t = [Current EXCEPT ![i] = text]
    BY <1>2 DEF Written
  <2>2. QED
    BY <1>1, <2>1, NewIsYounger, OldestKept
<1>3. CASE req[c].what = "update" /\ Current[req[c].id] = Absent
  BY <1>1, <1>3 DEF Written
<1>4. CASE req[c].what = "update" /\ Current[req[c].id] # Absent
  <2>1. req[c].id \in Ids
    BY <1>4 DEF TypeOK
  <2>2. PICK text \in Contents : t = [Current EXCEPT ![req[c].id] = text]
    BY <1>4 DEF Written
  <2>3. QED
    BY <1>1, <1>4, <2>1, <2>2, OldestKept
<1>5. CASE req[c].what = "delete"
  <2>1. req[c].id # m /\ t = [Current EXCEPT ![req[c].id] = Absent]
    BY <1>5 DEF Stays, Written
  <2>2. t[m] = Current[m] /\ \A j \in Ids : t[j] = Current[j] \/ t[j] = Absent
    BY <1>1, <2>1 DEF Table
  <2>3. QED
    BY <1>1, <2>2 DEF Oldest
<1>6. QED
  BY <1>2, <1>3, <1>4, <1>5 DEF Written

LEMMA PutKeeps ==
  ASSUME TypeOK, NEW m \in Ids, Stays(m), NEW t \in Table, Put(t), Oldest(m, t)
  PROVE  \A k \in DOMAIN log' : Oldest(m, log'[k])
BY TableStored DEF Stays

LEMMA TabStays ==
  ASSUME NEW m \in Ids, Stays(m), UNCHANGED <<log, shown, modal, req, answer>>
  PROVE  Stays(m)'
BY DEF Stays

LEMMA NextStaysOne ==
  ASSUME TypeOK, InIdOrder, table = "users", NEW m \in Ids, Stays(m), [Next]_vars
  PROVE  Stays(m)'
<1> USE DEF serverVars, tabVars, callVars, readVars, listVars
<1>1. m # None
  BY IdsAssumption DEF None
<1>2. ASSUME NEW t \in Tabs, CloseForm(t) PROVE Stays(m)'
  BY <1>2, TabStays DEF CloseForm
<1>3. ASSUME NEW t \in Tabs, CloseModal(t) PROVE Stays(m)'
  BY <1>1, <1>3 DEF CloseModal, Stays, TypeOK
<1>4. ASSUME NEW t \in Tabs, NEW i \in Ids, Edit(t, i) PROVE Stays(m)'
  BY <1>4, TabStays DEF Edit
<1>5. ASSUME NEW t \in Tabs, NEW i \in Ids, AskDelete(t, i) PROVE Stays(m)'
  <2>1. PICK j \in Rows(shown[t]) \ {i} : j < i
    BY <1>5 DEF AskDelete, Deletable
  <2>2. i # m
    BY <2>1, IdsAssumption DEF Stays, First, Rows
  <2>3. QED
    BY <1>5, <2>2 DEF AskDelete, Stays, TypeOK
<1>6. ASSUME NEW t \in Tabs, NEW text \in Contents, TypeInList(t, text) PROVE Stays(m)'
  <2>1. \A u \in Tabs, i \in Ids : shown'[u][i] = Absent <=> shown[u][i] = Absent
    BY <1>6, Typed
  <2>2. \A u \in Tabs : First(m, shown'[u])
    BY <2>1 DEF Stays, First
  <2>3. QED
    BY <1>6, <2>2 DEF TypeInList, Stays
<1>7. ASSUME NEW c \in Calls, Save(c) PROVE Stays(m)'
  <2>1. \A d \in Calls : req'[d] = req[d] \/ req'[d].what # "delete"
    BY <1>7 DEF Save, Begin, TypeOK
  <2>2. QED
    BY <1>7, <2>1 DEF Save, Begin, Stays
<1>8. ASSUME NEW c \in Calls, ConfirmDelete(c) PROVE Stays(m)'
  <2>1. Home[c] \in Tabs
    BY HomeAssumption
  <2>2. \A d \in Calls : req'[d] = req[d] \/ req'[d].id = modal[Home[c]]
    BY <1>8 DEF ConfirmDelete, Begin, TypeOK
  <2>3. \A d \in Calls : req'[d].what = "delete" => req'[d].id # m
    BY <2>1, <2>2 DEF Stays
  <2>4. \A t \in Tabs : modal'[t] = modal[t] \/ modal'[t] = None
    BY <1>8 DEF ConfirmDelete, TypeOK
  <2>5. QED
    BY <1>1, <1>8, <2>3, <2>4 DEF ConfirmDelete, Begin, Stays
<1>9. ASSUME NEW c \in Calls, Drag(c) PROVE Stays(m)'
  BY <1>9 DEF Drag
<1>10. ASSUME NEW c \in Calls, Count(c) \/ Ask(c) \/ Get(c) PROVE Stays(m)'
  BY <1>10, TabStays DEF Count, Ask, Get
<1>a. ASSUME NEW t \in Tabs, Cookie(t) PROVE Stays(m)'
  BY <1>a, TabStays DEF Cookie
<1>b. ASSUME NEW c \in Calls, Answer(c) PROVE Stays(m)'
  <2>1. PICK t \in Table : All(t) /\ answer' = [answer EXCEPT ![c] = t]
    BY <1>b DEF Answer, AnswerServices, AnswerRows, Given, Filtered
  <2>2. Oldest(m, Current)
    BY CurrentIsTable DEF Stays, Current
  <2>3. First(m, t)
    BY <2>1, <2>2, IdsAssumption DEF All, Cut, First, Oldest
  <2>4. \A d \in Calls : First(m, answer'[d])
    BY <2>1, <2>3 DEF Stays, TypeOK
  <2>5. QED
    BY <1>b, <2>4 DEF Answer, Stays
<1>11. ASSUME Puts PROVE Stays(m)'
  <2>1. UNCHANGED <<shown, modal, req, answer>>
    BY <1>11 DEF Puts, Store, StoreNext, SaveElsewhere
  <2>2. Oldest(m, Current) /\ Current \in Table
    BY CurrentIsTable DEF Stays, Current
  <2>3. \E t \in Table : Put(t) /\ Oldest(m, t)
    <3>1. ASSUME NEW c \in Calls, Store(c) PROVE \E t \in Table : Put(t) /\ Oldest(m, t)
      BY <3>1, WrittenKeeps DEF Store
    <3>2. ASSUME NEW c \in Calls, NEW i \in Ids, StoreNext(c, i)
          PROVE  \E t \in Table : Put(t) /\ Oldest(m, t)
      BY <2>2, <3>2, OldestKept, ChangedTable DEF StoreNext
    <3>3. QED
      BY <1>11, <3>1, <3>2 DEF Puts, SaveElsewhere
  <2>4. \A k \in DOMAIN log' : Oldest(m, log'[k])
    BY <2>3, PutKeeps
  <2>5. QED
    BY <2>1, <2>4 DEF Stays
<1>12. ASSUME NEW c \in Calls, Finish(c)
       PROVE  \A d \in Calls : (req'[d].what = "delete" => req'[d].id # m) /\ First(m, answer'[d])
  <2>1. req'[c].what # "delete" /\ First(m, answer'[c])
    <3>1. req'[c] = NoRequest /\ answer'[c] = Empty
      BY <1>12 DEF Finish, TypeOK
    <3>2. QED
      BY <3>1 DEF NoRequest, Empty, First
  <2>2. \A d \in Calls \ {c} : req'[d] = req[d] /\ answer'[d] = answer[d]
    BY <1>12 DEF Finish, TypeOK
  <2>3. QED
    BY <2>1, <2>2 DEF Stays
<1>13. ASSUME NEW c \in Calls, Commit(c) PROVE Stays(m)'
  <2>1. \A u \in Tabs : shown'[u] = shown[u] \/ shown'[u] = answer[c]
    BY <1>13 DEF Commit, TypeOK
  <2>2. Finish(c) /\ UNCHANGED <<log, modal>>
    BY <1>13 DEF Commit
  <2>3. QED
    BY <1>12, <2>1, <2>2 DEF Stays
<1>14. ASSUME NEW c \in Calls, Reject(c) PROVE Stays(m)'
  BY <1>12, <1>14 DEF Reject, Stays
<1>15. CASE UNCHANGED vars
  BY <1>15, TabStays DEF vars
<1>16. QED
  BY <1>2, <1>3, <1>4, <1>5, <1>6, <1>7, <1>8, <1>9, <1>10, <1>a, <1>b, <1>11, <1>13, <1>14,
     <1>15
     DEF Next, Answered, Puts

LEMMA NextStays == TypeOK /\ OneStays /\ [Next]_vars => OneStays'
<1> SUFFICES ASSUME TypeOK, OneStays, [Next]_vars, (InIdOrder /\ table = "users")'
             PROVE  \E m \in Ids : Stays(m)'
  BY DEF OneStays
<1>1. table = "users"
  BY DEF Next, Answered, CloseForm, CloseModal, Edit, AskDelete, TypeInList, Save,
         ConfirmDelete, Drag, Cookie, Count, Ask, Store, StoreNext, Get, Answer, Commit, Reject,
         SaveElsewhere, vars, serverVars
<1>2. PICK m \in Ids : Stays(m)
  BY <1>1 DEF OneStays
<1>3. QED
  BY <1>1, <1>2, NextStaysOne

(* When the database lists users in the order of their ids, the first one  *)
(* has a delete button in no dashboard, however old its list is, and so    *)
(* remains, though the server's own test could let the last two go.        *)
THEOREM FirstUserRemains == Spec => []SomeUserRemains
<1>1. TypeOK /\ OneStays => SomeUserRemains
  BY CurrentIsTable DEF OneStays, Stays, Oldest, SomeUserRemains, Rows, Current
<1>2. QED
  BY <1>1, InitStays, NextStays, TypeCorrect, PTL DEF Spec

=============================================================================
