---------------------------- MODULE EditingProofs ----------------------------
(***************************************************************************)
(* Theorems about Editing, for any requests, groups and intervals and for  *)
(* any number of edits.                                                    *)
(***************************************************************************)
EXTENDS Editing, TLAPS

(* No group but the known ones is in a row, a struct or a body. *)
GroupsKnown ==
  /\ row.group \in used \cup {NoGroup}
  /\ struct.group \in used \cup {NoGroup}
  /\ \A c \in Requests :
       /\ read[c].group \in used \cup {NoGroup}
       /\ body[c].group \in used \cup {NoGroup, Keep}

(* What a request is about to write is what the row has, or what some form *)
(* asked for while it ran, unless it may have been misled.                 *)
StructAccounted ==
  \A c \in Requests :
    pc[c] \in {"decode", "write"} /\ c \notin stale
      => struct.group = row.group \/ struct.group \in heard[c]

(* The page knows every group its user may see and that is not too new. *)
GroupsListed == (groups \cap allowed) \ missed \subseteq listed

TInv == TypeOK /\ GroupsKnown

-----------------------------------------------------------------------------
(* Types.                                                                  *)

LEMMA InitTyped == Init => TInv
<1> SUFFICES ASSUME Init PROVE TInv
  OBVIOUS
<1> USE GroupAssumption, IntervalAssumption, KeepAssumption, EditsAssumption
    DEF Init, NoGroup
<1>1. PICK i \in Intervals \ {0}, g \in GroupIds \cup {NoGroup} :
        row = [interval |-> i, group |-> g] /\ struct = row /\ groups = {g} \ {NoGroup}
  OBVIOUS
<1>2. row \in Service /\ row.interval # 0 /\ struct \in Service
      /\ row.group = g /\ struct.group = g
  BY <1>1 DEF Service
<1>3. g \in used \cup {NoGroup} /\ used \subseteq GroupIds
  BY <1>1
<1>4. Unchanged \in Body /\ Unchanged.group = Keep
  BY DEF Unchanged, Body
<1>5. listed \subseteq used /\ shown \in used \cup {NoGroup}
  BY <1>2, <1>3 DEF Visible
<1>6. TypeOK
  BY <1>2, <1>3, <1>4, <1>5 DEF TypeOK, Kinds
<1>7. GroupsKnown
  BY <1>2, <1>3, <1>4 DEF GroupsKnown
<1>8. QED
  BY <1>6, <1>7 DEF TInv

LEMMA MayTyped ==
  ASSUME TypeOK, May
  PROVE  edits' \in 0 .. MaxEdits
BY EditsAssumption DEF TypeOK, May

(* Requests begin with a well typed body. *)
LEMMA BeginTyped ==
  ASSUME TInv, NEW c \in Requests, NEW k \in Kinds, NEW b \in Body,
         b.group \in used \cup {NoGroup, Keep}, Begin(c, k, b)
  PROVE  TInv'
<1> USE DEF Begin, TInv, TypeOK, GroupsKnown, server, page
<1>1. edits' \in 0 .. MaxEdits
  BY MayTyped
<1>2. TypeOK'
  BY <1>1
<1>3. GroupsKnown'
  BY DEF Body
<1>4. QED
  BY <1>2, <1>3

LEMMA UnchangedTyped == Unchanged \in Body /\ Unchanged.group = Keep
BY KeepAssumption DEF Unchanged, Body

LEMMA SaveTyped ==
  ASSUME TInv, NEW c \in Requests, Save(c)
  PROVE  TInv'
<1>1. PICK i \in Intervals \cup {Keep}, g \in used \cup {NoGroup} :
        Begin(c, "update", [interval |-> i, group |-> g])
  BY DEF Save
<1> DEFINE b == [interval |-> i, group |-> g]
<1>2. b \in Body /\ b.group \in used \cup {NoGroup, Keep}
  BY DEF TInv, TypeOK, Body
<1>3. "update" \in Kinds
  BY DEF Kinds
<1> HIDE DEF b
<1>4. Begin(c, "update", b)
  BY <1>1 DEF b
<1>5. QED
  BY <1>2, <1>3, <1>4, BeginTyped

(* Fields of a decoded struct and of a written row. *)
LEMMA DecodedTyped ==
  ASSUME TInv, NEW c \in Requests, Decode(c)
  PROVE  struct' \in Service /\ struct'.group \in used \cup {NoGroup}
<1>1. body[c].interval \in Intervals \cup {Keep}
      /\ body[c].group \in GroupIds \cup {NoGroup, Keep}
      /\ body[c].group \in used \cup {NoGroup, Keep}
  BY DEF TInv, TypeOK, GroupsKnown, Body
<1>2. struct.interval \in Intervals /\ struct.group \in GroupIds \cup {NoGroup}
      /\ struct.group \in used \cup {NoGroup}
  BY DEF TInv, TypeOK, GroupsKnown, Service
<1>3. Or(body[c].interval, struct.interval) \in Intervals
  BY <1>1, <1>2 DEF Or
<1>4. Or(body[c].group, struct.group) \in GroupIds \cup {NoGroup}
      /\ Or(body[c].group, struct.group) \in used \cup {NoGroup}
  BY <1>1, <1>2 DEF Or
<1>5. struct' = [interval |-> Or(body[c].interval, struct.interval),
                 group |-> Or(body[c].group, struct.group)]
  BY DEF Decode
<1> HIDE DEF Or
<1>6. QED
  BY <1>3, <1>4, <1>5 DEF Service

LEMMA WrittenTyped ==
  ASSUME TInv, NEW c \in Requests, Write(c)
  PROVE  row' \in Service /\ row'.interval # 0 /\ row'.group \in used \cup {NoGroup}
<1>1. struct.interval \in Intervals /\ struct.group \in GroupIds \cup {NoGroup}
      /\ struct.group \in used \cup {NoGroup}
  BY DEF TInv, TypeOK, GroupsKnown, Service
<1>2. row.interval \in Intervals \ {0} /\ row.group \in GroupIds \cup {NoGroup}
      /\ row.group \in used \cup {NoGroup}
  BY DEF TInv, TypeOK, GroupsKnown, Service
<1>3. NonZero(struct.interval, row.interval) \in Intervals \ {0}
  BY <1>1, <1>2 DEF NonZero
<1>4. NonZero(struct.group, row.group) \in GroupIds \cup {NoGroup}
      /\ NonZero(struct.group, row.group) \in used \cup {NoGroup}
  BY <1>1, <1>2 DEF NonZero
<1>5. CASE UNCHANGED row
  BY <1>5 DEF TInv, TypeOK, GroupsKnown
<1>6. CASE row' = [interval |-> NonZero(struct.interval, row.interval),
                   group |-> NonZero(struct.group, row.group)]
  BY <1>3, <1>4, <1>6 DEF Service
<1>7. QED
  BY <1>5, <1>6 DEF Write

LEMMA NextTyped == TInv /\ [Next]_vars => TInv'
<1> SUFFICES ASSUME TInv, [Next]_vars PROVE TInv'
  OBVIOUS
<1> USE DEF server, calls, page
<1>1. ASSUME NEW c \in Requests, Read(c) PROVE TInv'
  BY <1>1, BeginTyped, UnchangedTyped DEF Read, Kinds
<1>2. ASSUME NEW c \in Requests, Rewrite(c) PROVE TInv'
  BY <1>2, BeginTyped, UnchangedTyped DEF Rewrite, Kinds
<1>3. ASSUME NEW c \in Requests, Save(c) PROVE TInv'
  BY <1>3, SaveTyped
<1>4. ASSUME NEW c \in Requests, Select(c) PROVE TInv'
  BY <1>4 DEF Select, TInv, TypeOK, GroupsKnown
<1>5. ASSUME NEW c \in Requests, Scan(c) PROVE TInv'
  BY <1>5 DEF Scan, TInv, TypeOK, GroupsKnown, InFlight
<1>6. ASSUME NEW c \in Requests, Decode(c) PROVE TInv'
  <2>1. struct' \in Service /\ struct'.group \in used \cup {NoGroup}
    BY <1>6, DecodedTyped
  <2>2. heard' \in [Requests -> SUBSET (GroupIds \cup {NoGroup, Keep})]
    <3>1. body[c].group \in GroupIds \cup {NoGroup, Keep}
      BY DEF TInv, TypeOK, Body
    <3>2. QED
      BY <1>6, <3>1 DEF Decode, TInv, TypeOK
  <2>3. QED
    BY <1>6, <2>1, <2>2 DEF Decode, TInv, TypeOK, GroupsKnown
<1>7. ASSUME NEW c \in Requests, Write(c) PROVE TInv'
  <2>1. row' \in Service /\ row'.interval # 0 /\ row'.group \in used \cup {NoGroup}
    BY <1>7, WrittenTyped
  <2>2. QED
    BY <1>7, <2>1 DEF Write, TInv, TypeOK, GroupsKnown, InFlight
<1>8. ASSUME Restart PROVE TInv'
  BY <1>8 DEF Restart, TInv, TypeOK, GroupsKnown
<1>9. ASSUME NEW g \in GroupIds, CreateGroup(g) PROVE TInv'
  BY <1>9, MayTyped DEF CreateGroup, TInv, TypeOK, GroupsKnown
<1>10. ASSUME NEW g \in GroupIds, DeleteGroup(g) PROVE TInv'
  BY <1>10, MayTyped DEF DeleteGroup, TInv, TypeOK, GroupsKnown
<1>11. CASE LoadPage
  BY <1>11, MayTyped DEF LoadPage, TInv, TypeOK, GroupsKnown
<1>12. CASE LoadGroups
  BY <1>12 DEF LoadGroups, TInv, TypeOK, GroupsKnown, Visible
<1>13. CASE LoadServices
  <2>1. edits' \in 0 .. MaxEdits
    BY <1>13, MayTyped DEF LoadServices, TInv, TypeOK
  <2>2. QED
    BY <1>13, <2>1 DEF LoadServices, TInv, TypeOK, GroupsKnown
<1>14. CASE CutPage
  BY <1>14 DEF CutPage, TInv, TypeOK, GroupsKnown
<1>15. CASE UNCHANGED vars
  BY <1>15 DEF vars, TInv, TypeOK, GroupsKnown
<1>16. QED
  BY <1>1, <1>2, <1>3, <1>4, <1>5, <1>6, <1>7, <1>8, <1>9, <1>10, <1>11,
     <1>12, <1>13, <1>14, <1>15 DEF Next

(* Every variable keeps its type; in particular the row never loses its    *)
(* interval, since a zero is not written and Validate sees no other.       *)
THEOREM TypeCorrect == Spec => []TypeOK
<1>1. TInv => TypeOK
  BY DEF TInv
<1>2. QED
  BY <1>1, InitTyped, NextTyped, PTL DEF Spec

-----------------------------------------------------------------------------
(* Only overlapping requests undo a move.                                  *)

LEMMA InitAccounted == Init => StructAccounted
BY DEF Init, StructAccounted

LEMMA BeginAccounted ==
  ASSUME TypeOK, StructAccounted, NEW c \in Requests, NEW k, NEW b, Begin(c, k, b)
  PROVE  StructAccounted'
BY DEF Begin, TypeOK, StructAccounted, server

LEMMA NextAccounted == TInv /\ StructAccounted /\ [Next]_vars => StructAccounted'
<1> SUFFICES ASSUME TInv, StructAccounted, [Next]_vars PROVE StructAccounted'
  OBVIOUS
<1> USE DEF server, calls, page, TInv
<1>1. ASSUME NEW c \in Requests, Read(c) \/ Rewrite(c) \/ Save(c) PROVE StructAccounted'
  BY <1>1, BeginAccounted DEF Read, Rewrite, Save
<1>2. ASSUME NEW c \in Requests, Select(c) PROVE StructAccounted'
  BY <1>2 DEF Select, TypeOK, StructAccounted
<1>3. ASSUME NEW c \in Requests, Scan(c) PROVE StructAccounted'
  <2>1. CASE read[c] # row
    BY <1>3, <2>1 DEF Scan, TypeOK, StructAccounted, InFlight
  <2>2. CASE read[c] = row
    BY <1>3, <2>2 DEF Scan, TypeOK, StructAccounted
  <2>3. QED
    BY <2>1, <2>2
<1>4. ASSUME NEW c \in Requests, Decode(c) PROVE StructAccounted'
  <2> SUFFICES ASSUME NEW d \in Requests, pc'[d] \in {"decode", "write"}, d \notin stale'
               PROVE  struct'.group = row'.group \/ struct'.group \in heard'[d]
    BY DEF StructAccounted
  <2>1. pc[d] \in {"decode", "write"} /\ d \notin stale /\ row' = row
    BY <1>4 DEF Decode, TypeOK
  <2>2. heard'[d] = heard[d] \cup {body[c].group}
    BY <1>4, <2>1 DEF Decode, TypeOK, InFlight
  <2>3. struct'.group = Or(body[c].group, struct.group)
    BY <1>4 DEF Decode
  <2>4. CASE body[c].group = Keep
    BY <2>1, <2>2, <2>3, <2>4 DEF Or, StructAccounted
  <2>5. CASE body[c].group # Keep
    BY <2>2, <2>3, <2>5 DEF Or
  <2>6. QED
    BY <2>4, <2>5
<1>5. ASSUME NEW c \in Requests, Write(c) PROVE StructAccounted'
  <2>1. CASE row' # row
    BY <1>5, <2>1 DEF Write, TypeOK, StructAccounted, InFlight
  <2>2. CASE row' = row
    BY <1>5, <2>2 DEF Write, TypeOK, StructAccounted
  <2>3. QED
    BY <2>1, <2>2
<1>6. CASE Restart
  BY <1>6 DEF Restart, StructAccounted
<1>7. ASSUME NEW g \in GroupIds, CreateGroup(g) \/ DeleteGroup(g) PROVE StructAccounted'
  BY <1>7 DEF CreateGroup, DeleteGroup, StructAccounted
<1>8. CASE LoadPage \/ LoadGroups \/ LoadServices \/ CutPage
  BY <1>8 DEF LoadPage, LoadGroups, LoadServices, CutPage, StructAccounted
<1>9. CASE UNCHANGED vars
  BY <1>9 DEF vars, StructAccounted
<1>10. QED
  BY <1>1, <1>2, <1>3, <1>4, <1>5, <1>6, <1>7, <1>8, <1>9 DEF Next

(* Only Write changes the row.  *)
LEMMA MovesAccounted ==
  ASSUME TypeOK, StructAccounted, Next, row'.group # row.group
  PROVE  \E c \in Requests :
           /\ pc[c] = "write" /\ pc'[c] = "idle"
           /\ row'.group \in heard[c] \/ c \in stale
<1> USE DEF server, calls, page
<1>1. PICK c \in Requests : Write(c)
  BY DEF Next, Read, Rewrite, Save, Begin, Select, Scan, Decode, Restart,
         CreateGroup, DeleteGroup, LoadPage, LoadGroups, LoadServices, CutPage
<1>2. row'.group = NonZero(struct.group, row.group)
  BY <1>1 DEF Write
<1>3. row'.group = struct.group /\ struct.group # row.group
  BY <1>2 DEF NonZero
<1>4. pc[c] = "write" /\ pc'[c] = "idle"
  BY <1>1 DEF Write, TypeOK
<1>5. struct.group \in heard[c] \/ c \in stale
  BY <1>3, <1>4 DEF StructAccounted
<1>6. QED
  BY <1>3, <1>4, <1>5

(* Update, reorder, patch and Find: a service moves only to a group a form *)
(* asked for while the request that wrote it ran, unless an old Find or    *)
(* another's write came in between.                                        *)
THEOREM MovesAreAskedFor == Spec => OnlyOverlapsUndo
<1>1. TInv /\ StructAccounted /\ [Next]_vars =>
        [row'.group # row.group =>
           \E c \in Requests :
             /\ pc[c] = "write" /\ pc'[c] = "idle"
             /\ row'.group \in heard[c] \/ c \in stale]_vars
  BY MovesAccounted DEF TInv
<1>2. QED
  BY <1>1, InitTyped, NextTyped, InitAccounted, NextAccounted, PTL
     DEF Spec, OnlyOverlapsUndo

-----------------------------------------------------------------------------
(* Pages.                                                                  *)

LEMMA NextListed == GroupsListed /\ [Next]_vars => GroupsListed'
<1> SUFFICES ASSUME GroupsListed, [Next]_vars PROVE GroupsListed'
  OBVIOUS
<1> USE DEF GroupsListed, server, calls, page
<1>1. ASSUME NEW c \in Requests,
             \/ Read(c) \/ Rewrite(c) \/ Save(c)
             \/ Select(c) \/ Scan(c) \/ Decode(c) \/ Write(c)
      PROVE  GroupsListed'
  BY <1>1 DEF Read, Rewrite, Save, Begin, Select, Scan, Decode, Write
<1>2. CASE Restart \/ LoadPage \/ LoadServices \/ CutPage
  BY <1>2 DEF Restart, LoadPage, LoadServices, CutPage
<1>3. ASSUME NEW g \in GroupIds, CreateGroup(g) PROVE GroupsListed'
  BY <1>3 DEF CreateGroup
<1>4. ASSUME NEW g \in GroupIds, DeleteGroup(g) PROVE GroupsListed'
  BY <1>4 DEF DeleteGroup
<1>5. CASE LoadGroups
  BY <1>5 DEF LoadGroups, Visible
<1>6. CASE UNCHANGED vars
  BY <1>6 DEF vars
<1>7. QED
  BY <1>1, <1>2, <1>3, <1>4, <1>5, <1>6 DEF Next

(* The first page of the dashboard shows every service but for those whose *)
(* group is gone, private, or missing from the page's list of groups.      *)
THEOREM DashboardLists == Spec => []MissingFromDashboard
<1>1. Init => GroupsListed
  BY DEF Init, GroupsListed, Visible
<1>2. TypeOK /\ GroupsListed => MissingFromDashboard
  BY DEF TypeOK, GroupsListed, MissingFromDashboard, OnDashboard, ServicesNoGroup,
         ServicesInGroup, NoGroup
<1>3. QED
  BY <1>1, <1>2, NextListed, TypeCorrect, PTL DEF Spec

=============================================================================
