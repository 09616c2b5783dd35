------------------------------- MODULE Editing -------------------------------
(***************************************************************************)
(* One service and its group, from the form that edits it to the page that *)
(* lists it.                                                               *)
(*                                                                         *)
(* The server holds a service twice: as a row, and as a struct in the map  *)
(* allServices that the check loop and the lists read.  Every request that *)
(* names the service first reloads the struct from the row (Find), then    *)
(* decodes its body into that same struct, then writes the struct.  There  *)
(* is no lock: requests mix in the struct.  The write leaves out the       *)
(* fields that are zero.                                                   *)
(*                                                                         *)
(* A page loads the groups and the services with two requests and sorts    *)
(* the services into the groups itself.                                    *)
(***************************************************************************)
EXTENDS Naturals

CONSTANTS
  Requests,   \* requests for the service that may be under way at once
  GroupIds,   \* ids of groups; ids are not used twice
  Intervals,  \* the check intervals a form may hold
  Keep,       \* the field is null, or not in the body
  MaxEdits    \* how many requests there are, and changes of groups (a bound)

ASSUME GroupAssumption == GroupIds \subseteq Nat \ {0}
ASSUME IntervalAssumption == 0 \in Intervals /\ Intervals \subseteq Nat
ASSUME KeepAssumption == Keep \notin Intervals \cup GroupIds
ASSUME EditsAssumption == MaxEdits \in Nat

NoGroup == 0

Service == [interval : Intervals, group : GroupIds \cup {NoGroup}]
Body == [interval : Intervals \cup {Keep}, group : GroupIds \cup {NoGroup, Keep}]
Unchanged == [interval |-> Keep, group |-> Keep]

Kinds == {"read", "update", "rewrite"}

VARIABLES
  row,      \* the service in the table
  struct,   \* the service in allServices
  groups,   \* the groups in the table
  allowed,  \* those, and ids to come, that the user of the page may see
  pc, kind, body,  \* where each request is, what it does, what it sends
  read,     \* what the SELECT of its Find returned
  listed,   \* the page: state.groups
  shown,    \* the page: the group_id of the service in state.services
  loading,  \* the page: what it loads next
  edits,    \* the bound's counter
  used,     \* history: the ids given to groups so far
  missed,   \* history: groups created since the page loaded its groups;
            \* all of them when that load could not read the table
  heard,    \* history: the groups any body asked for while the request ran
  stale     \* history: requests an older Find may have misled

server == <<row, struct, groups, allowed>>
calls == <<pc, kind, body, read>>
page == <<listed, shown, loading>>
vars == <<server, calls, page, edits, used, missed, heard, stale>>

InFlight == {c \in Requests : pc[c] # "idle"}
May == edits < MaxEdits /\ edits' = edits + 1

(* Mutant: the test of `public` is the wrong way round. *)
VisibleInverted == groups \ allowed

(* SelectGroups: the public ones; all of them for an administrator. *)
Visible == groups \cap allowed

Init ==
  /\ \E i \in Intervals \ {0}, g \in GroupIds \cup {NoGroup} :
       /\ row = [interval |-> i, group |-> g] /\ struct = row
       /\ groups = {g} \ {NoGroup}
  /\ allowed \in SUBSET GroupIds
  /\ pc = [c \in Requests |-> "idle"]
  /\ kind = [c \in Requests |-> "read"]
  /\ body = [c \in Requests |-> Unchanged]
  /\ read = [c \in Requests |-> row]
  /\ listed = Visible /\ shown = row.group /\ loading = "nothing"
  /\ edits = 0
  /\ used = groups /\ missed = {}
  /\ heard = [c \in Requests |-> {}]
  /\ stale = {}

-----------------------------------------------------------------------------
(* Requests for the service.                                               *)

(* Mutant: a reorder takes the struct as it is. *)
BeginWithoutFind(c, k, b) ==
  /\ pc[c] = "idle" /\ May
  /\ kind' = [kind EXCEPT ![c] = k] /\ body' = [body EXCEPT ![c] = b]
  /\ pc' = [pc EXCEPT ![c] = IF k = "rewrite" THEN "decode" ELSE "find"]
  /\ heard' = [heard EXCEPT ![c] = {}]
  /\ stale' = stale \ {c}
  /\ UNCHANGED <<server, read, page, used, missed>>

(* A page about the service asks for it, a form is saved, or a reorder or  *)
(* a patch, which change none of the fields followed here, has its turn.   *)
Begin(c, k, b) ==
  /\ pc[c] = "idle" /\ May
  /\ kind' = [kind EXCEPT ![c] = k] /\ body' = [body EXCEPT ![c] = b]
  /\ pc' = [pc EXCEPT ![c] = "find"]
  /\ heard' = [heard EXCEPT ![c] = {}]
  /\ stale' = stale \ {c}
  /\ UNCHANGED <<server, read, page, used, missed>>

Read(c) == Begin(c, "read", Unchanged)
Rewrite(c) == Begin(c, "rewrite", Unchanged)

(* The form sends every field.  An interval that is no number is NaN after *)
(* parseInt and null in the body, and the decoder skips a null.  The group *)
(* may have been deleted since the form listed it.                         *)
Save(c) ==
  \E i \in Intervals \cup {Keep}, g \in used \cup {NoGroup} :
    Begin(c, "update", [interval |-> i, group |-> g])

(* Find: the SELECT... *)
Select(c) ==
  /\ pc[c] = "find"
  /\ read' = [read EXCEPT ![c] = row]
  /\ pc' = [pc EXCEPT ![c] = "scan"]
  /\ UNCHANGED <<server, kind, body, page, edits, used, missed, heard, stale>>

(* ... and its result, put into the struct that all requests share.  If it *)
(* is old by now, it may mislead every request under way.                  *)
Scan(c) ==
  /\ pc[c] = "scan"
  /\ struct' = read[c]
  /\ pc' = [pc EXCEPT ![c] = IF kind[c] = "read" THEN "idle" ELSE "decode"]
  /\ stale' = IF read[c] # row THEN stale \cup InFlight ELSE stale
  /\ UNCHANGED <<row, groups, allowed, kind, body, read, page, edits, used, missed, heard>>

Or(new, old) == IF new = Keep THEN old ELSE new

(* DecodeJSON into the struct. *)
Decode(c) ==
  /\ pc[c] = "decode"
  /\ struct' = [interval |-> Or(body[c].interval, struct.interval),
                group |-> Or(body[c].group, struct.group)]
  /\ pc' = [pc EXCEPT ![c] = "write"]
  /\ heard' = [d \in Requests |->
                 IF d \in InFlight THEN heard[d] \cup {body[c].group} ELSE heard[d]]
  /\ UNCHANGED <<row, groups, allowed, kind, body, read, page, edits, used, missed, stale>>

(* Mutant: every field is written, as it is. *)
AsItIs(new, old) == new

NonZero(new, old) == IF new = 0 THEN old ELSE new

(* Service.Update: the row gets the fields that are not zero, or it fails: *)
(* Validate refuses a zero interval unless an earlier update has left one  *)
(* in the struct it is given.  Either way the loop goes on with the struct.*)
Write(c) ==
  /\ pc[c] = "write"
  /\ \/ row' = [interval |-> NonZero(struct.interval, row.interval),
                group |-> NonZero(struct.group, row.group)]
     \/ UNCHANGED row
  /\ pc' = [pc EXCEPT ![c] = "idle"]
  /\ stale' = IF row' # row THEN stale \cup {d \in InFlight : pc[d] # "find"} ELSE stale
  /\ UNCHANGED <<struct, groups, allowed, kind, body, read, page, edits, used, missed, heard>>

(* The process ends; the next one reads the rows. *)
Restart ==
  /\ pc' = [c \in Requests |-> "idle"]
  /\ struct' = row
  /\ InFlight # {} \/ struct # row
  /\ UNCHANGED <<row, groups, allowed, kind, body, read, page, edits, used, missed, heard, stale>>

-----------------------------------------------------------------------------
(* Groups.                                                                 *)

CreateGroup(g) ==
  /\ May /\ \A h \in used : h < g
  /\ groups' = groups \cup {g} /\ used' = used \cup {g}
  /\ missed' = missed \cup {g}
  /\ UNCHANGED <<row, struct, allowed, calls, page, heard, stale>>

(* Group.Delete deletes the row of the group and nothing else. *)
DeleteGroup(g) ==
  /\ May /\ g \in groups
  /\ groups' = groups \ {g}
  /\ UNCHANGED <<row, struct, allowed, calls, page, used, missed, heard, stale>>

-----------------------------------------------------------------------------
(* The page.                                                               *)

(* loadRequired, loadAdmin: groups first, then services. *)
LoadPage ==
  /\ loading = "nothing" /\ May
  /\ loading' = "groups"
  /\ UNCHANGED <<server, calls, listed, shown, used, missed, heard, stale>>

(* The handler does not look at the error of the read of the groups: it    *)
(* then answers that there are none.                                       *)
LoadGroups ==
  /\ loading = "groups" /\ loading' = "services"
  /\ \/ listed' = Visible /\ missed' = {}
     \/ listed' = {} /\ missed' = groups
  /\ UNCHANGED <<server, calls, shown, edits, used, heard, stale>>

(* A request that fails ends the chain. *)
CutPage ==
  /\ loading # "nothing" /\ loading' = "nothing"
  /\ UNCHANGED <<server, calls, listed, shown, edits, used, missed, heard, stale>>

(* The list of services is that of the structs.  Forms and the list of     *)
(* services load it alone.                                                 *)
LoadServices ==
  /\ loading' = "nothing"
  /\ loading = "nothing" => May
  /\ loading = "services" => UNCHANGED edits
  /\ loading # "groups"
  /\ shown' = struct.group
  /\ UNCHANGED <<server, calls, listed, used, missed, heard, stale>>

(* What the first page of the dashboard shows: the services without a      *)
(* group, and those of each group it knows.  (The public front page shows  *)
(* these and, below, every service whatever its group.)                    *)
ServicesNoGroup == shown = NoGroup
ServicesInGroup(g) == shown = g
OnDashboard == ServicesNoGroup \/ \E g \in listed : ServicesInGroup(g)

Next ==
  \/ \E c \in Requests :
       \/ Read(c) \/ Rewrite(c) \/ Save(c)
       \/ Select(c) \/ Scan(c) \/ Decode(c) \/ Write(c)
  \/ Restart
  \/ \E g \in GroupIds : CreateGroup(g) \/ DeleteGroup(g)
  \/ LoadPage \/ LoadGroups \/ LoadServices \/ CutPage

Spec == Init /\ [][Next]_vars

-----------------------------------------------------------------------------
(* Properties.                                                             *)

(* Every variable has its type, and the row always has an interval. *)
TypeOK ==
  /\ row \in Service /\ row.interval # 0
  /\ struct \in Service
  /\ groups \subseteq used /\ used \subseteq GroupIds /\ allowed \subseteq GroupIds
  /\ pc \in [Requests -> {"idle", "find", "scan", "decode", "write"}]
  /\ kind \in [Requests -> Kinds]
  /\ body \in [Requests -> Body]
  /\ read \in [Requests -> Service]
  /\ listed \subseteq used
  /\ shown \in used \cup {NoGroup}
  /\ loading \in {"nothing", "groups", "services"}
  /\ edits \in 0 .. MaxEdits
  /\ missed \subseteq used
  /\ heard \in [Requests -> SUBSET (GroupIds \cup {NoGroup, Keep})]
  /\ stale \subseteq Requests

(* A service moves, in the table, only to a group that a form saved during *)
(* the request asked for; only a request that overlapped another one's     *)
(* write may take it back.  Neither reorders nor reads nor refused saves   *)
(* nor restarts do.                                                        *)
OnlyOverlapsUndo ==
  [][row'.group # row.group =>
       \E c \in Requests :
         /\ pc[c] = "write" /\ pc'[c] = "idle"
         /\ row'.group \in heard[c] \/ c \in stale]_vars

(* The first page of the dashboard, when it loads nothing, leaves out the  *)
(* service, which has no other place there than its group or the part for  *)
(* those without one, only if the group is gone, is private, or is missing *)
(* from the page's list of groups, being newer than the list or because    *)
(* the server could not read the table (DashboardIndex.vue).               *)
MissingFromDashboard ==
  loading = "nothing" /\ ~OnDashboard
    => shown \notin groups \/ shown \in missed \/ shown \notin allowed

(* "missing check interval": once the requests are over, the loop of a     *)
(* service that is checked has one.  Update starts the loop with the       *)
(* struct even when the row was refused.                                   *)
LoopHasInterval == InFlight = {} => struct.interval # 0

=============================================================================
