-------------------------------- MODULE Lists --------------------------------
(***************************************************************************)
(* The lists of the dashboard: groups, announcements, users and services.  *)
(*                                                                         *)
(* Each is a copy, in the store of a browser tab, of a table of the server.*)
(* A component changes a row with one request, asks for the whole table    *)
(* with another, and puts the answer into the store: three awaits, and     *)
(* nothing keeps two such calls, of one tab or of several, from            *)
(* overlapping.  A form is given the very object the list shows, so that   *)
(* typing into it changes the list too, until an answer replaces it.       *)
(*                                                                         *)
(* A behaviour follows one of the four lists, whichever.  A request may be *)
(* lost or refused at any point: no component catches that, so its call    *)
(* just stops.  The server reads three of the tables with a query whose    *)
(* error nobody looks at; services it copies one by one from its registry. *)
(***************************************************************************)
EXTENDS Naturals, Sequences, FiniteSets

CONSTANTS
  Tabs,       \* browser tabs with a dashboard open
  Calls,      \* activations of async functions: each runs one at a time
  Home,       \* the tab each call belongs to
  Ids,        \* the ids a row may get
  Contents,   \* what a row may hold: name, position, ...
  Absent,     \* no row has this id
  Public,     \* the contents that are shown to anyone
  InIdOrder,  \* the database answers with its rows in the order of their ids
  Start,      \* the tables the server may start with (a bound)
  MaxWrites   \* how often the table changes (a bound)

ASSUME IdsAssumption == Ids \subseteq Nat \ {0}
ASSUME HomeAssumption == Home \in [Calls -> Tabs]
ASSUME AbsentAssumption == Absent \notin Contents
ASSUME ContentsAssumption == Contents # {}
ASSUME PublicAssumption == Public \subseteq Contents
ASSUME OrderAssumption == InIdOrder \in BOOLEAN

Table == [Ids -> Contents \cup {Absent}]
Rows(t) == {i \in Ids : t[i] # Absent}

ASSUME StartAssumption == Start \subseteq Table

None == 0

Tables == {"groups", "messages", "users", "services"}

Empty == [i \in Ids |-> Absent]

VARIABLES
  table,    \* the list this behaviour follows
  log,      \* the tables the server has held, the present one last
  shown,    \* state.groups, state.messages, ... of each tab's store
  form,     \* the object in the tab's form, and whether the list shows it
  busy,     \* the tab's `loading` flag
  modal,    \* the row the delete dialog of the tab asks about
  pc, req,  \* where each call is, and what it asks of the server
  left,     \* the rows a reorder has yet to write
  from,     \* the version the server held when it began to answer the call
  answer,   \* what the call has been answered with
  strangers,  \* tabs whose cookie is worth nothing any more
  touched,  \* history: rows typed into since the list was last replaced
  wrote,    \* history: the version that holds the call's last write
  part,     \* history: calls whose answer may lack rows: the read failed, or
            \* the request had no cookie
  lacking   \* history: tabs whose list is such an answer

serverVars == <<table, log>>
tabVars == <<shown, form, busy, modal>>
callVars == <<pc, req, left, from, answer, wrote, part>>
readVars == <<from, answer, wrote, part>>
listVars == <<touched, lacking>>
vars == <<serverVars, tabVars, callVars, strangers, listVars>>

Current == log[Len(log)]

Blank == [id |-> None, live |-> FALSE]
NoRequest == [what |-> "none", id |-> None]

Whats == {"create", "update", "delete", "reorder"}
PCs == {"idle", "ask", "find", "store", "get", "read", "answer"}

(* The tab has loaded its store: see Session. *)
Init ==
  /\ table \in Tables
  /\ \E t \in Start :
       /\ table = "users" => Rows(t) # {}
       /\ log = <<t>> /\ shown = [tab \in Tabs |-> t]
  /\ form = [t \in Tabs |-> Blank]
  /\ busy = [t \in Tabs |-> FALSE]
  /\ modal = [t \in Tabs |-> None]
  /\ pc = [c \in Calls |-> "idle"]
  /\ req = [c \in Calls |-> NoRequest]
  /\ left = [c \in Calls |-> {}]
  /\ from = [c \in Calls |-> 0]
  /\ answer = [c \in Calls |-> Empty]
  /\ strangers = {}
  /\ touched = [t \in Tabs |-> {}]
  /\ wrote = [c \in Calls |-> 0]
  /\ part = {}
  /\ lacking = {}

-----------------------------------------------------------------------------
(* What the user does.                                                     *)

(* The bound: users stop when the table has been written often enough. *)
Room == Len(log) <= MaxWrites

(* A component calls one of its async functions. *)
Begin(c, what, id) ==
  /\ pc[c] = "idle" /\ Room
  /\ pc' = [pc EXCEPT ![c] = "ask"]
  /\ req' = [req EXCEPT ![c] = [what |-> what, id |-> id]]
  /\ UNCHANGED readVars

HasForm == table # "services"

(* editGroup, editMessage, editUser: the form gets the object of the list. *)
Edit(t, i) ==
  /\ HasForm /\ Room
  /\ shown[t][i] # Absent
  /\ form' = [form EXCEPT ![t] = [id |-> i, live |-> TRUE]]
  /\ UNCHANGED <<serverVars, shown, busy, modal, callVars, strangers, listVars>>

(* v-model in a form that holds an object of the list. *)
TypeInList(t, text) ==
  /\ form[t].live /\ Room
  /\ shown' = [shown EXCEPT ![t][form[t].id] = text]
  /\ touched' = [touched EXCEPT ![t] = @ \cup {form[t].id}]
  /\ UNCHANGED <<serverVars, form, busy, modal, callVars, strangers, lacking>>

(* removeEdit *)
CloseForm(t) ==
  /\ form[t] # Blank
  /\ form' = [form EXCEPT ![t] = Blank]
  /\ UNCHANGED <<serverVars, shown, busy, modal, callVars, strangers, listVars>>

(* The forms of groups and users disable their button while they save; the *)
(* form of announcements does not.                                         *)
Disables == table \in {"groups", "users"}

(* saveGroup, saveMessage, saveUser. *)
Save(c) ==
  LET t == Home[c]
      what == IF form[t].id = None THEN "create" ELSE "update" IN
  /\ HasForm /\ ~(Disables /\ busy[t])
  /\ busy' = [busy EXCEPT ![t] = Disables]
  /\ Begin(c, what, form[t].id)
  /\ UNCHANGED <<serverVars, shown, form, modal, left, strangers, listVars>>

(* Mutant: the first user's row has a delete button too. *)
AnyDeletable(t, i) == shown[t][i] # Absent

(* A row has a delete button, but for the first user of the list.  Which   *)
(* one is first is for the database to say: the query does not order.      *)
Deletable(t, i) ==
  /\ shown[t][i] # Absent
  /\ table = "users" =>
       \E j \in Rows(shown[t]) \ {i} : InIdOrder => j < i

(* deleteGroup, deleteMessage, deleteUser, deleteService open the dialog.  *)
AskDelete(t, i) ==
  /\ Deletable(t, i) /\ Room
  /\ table = "services" => ~busy[t]
  /\ modal' = [modal EXCEPT ![t] = i]
  /\ UNCHANGED <<serverVars, shown, form, busy, callVars, strangers, listVars>>

(* Modal.close *)
CloseModal(t) ==
  /\ modal[t] # None
  /\ modal' = [modal EXCEPT ![t] = None]
  /\ UNCHANGED <<serverVars, shown, form, busy, callVars, strangers, listVars>>

(* Modal.runFunc: it starts the delete, does not wait for it, and closes. *)
ConfirmDelete(c) ==
  LET t == Home[c] IN
  /\ modal[t] # None
  /\ Begin(c, "delete", modal[t])
  /\ modal' = [modal EXCEPT ![t] = None]
  /\ busy' = [busy EXCEPT ![t] = @ \/ table = "services"]
  /\ UNCHANGED <<serverVars, shown, form, left, strangers, listVars>>

(* A row is dragged: the setters of groupsList and servicesList. *)
Drag(c) ==
  /\ table \in {"groups", "services"}
  /\ Rows(shown[Home[c]]) # {}
  /\ Begin(c, "reorder", None)
  /\ left' = [left EXCEPT ![c] = Rows(shown[Home[c]])]
  /\ UNCHANGED <<serverVars, tabVars, strangers, listVars>>

(* A tab's user logs out, or another tab of the browser does, or the cookie*)
(* expires; or someone logs in again.  Calls under way go on.              *)
Cookie(t) ==
  /\ Room
  /\ strangers' \in {strangers \cup {t}, strangers \ {t}}
  /\ strangers' # strangers
  /\ UNCHANGED <<serverVars, tabVars, callVars, listVars>>

-----------------------------------------------------------------------------
(* What the server does.                                                   *)

(* The rows a read yields that an error cuts short. *)
Cut(whole, t) ==
  /\ \A i \in Ids : t[i] \in {whole[i], Absent}
  /\ InIdOrder => \A i, j \in Ids : j < i /\ t[i] # Absent => t[j] = whole[j]

(* All() of users, groups and messages: its error is dropped. *)
All(t) == t = Current \/ Cut(Current, t)

Admitted(c) == Home[c] \notin strangers

(* The test of the delete of a user: it is not the only one. *)
Count(c) ==
  /\ pc[c] = "ask" /\ table = "users" /\ req[c].what = "delete"
  /\ Admitted(c)
  /\ \E t \in Table : All(t) /\ Cardinality(Rows(t)) # 1
  /\ pc' = [pc EXCEPT ![c] = "find"]
  /\ UNCHANGED <<serverVars, tabVars, req, left, readVars, strangers, listVars>>

(* The handler begins: a cookie is needed, and the row is found. *)
Ask(c) ==
  /\ IF table = "users" /\ req[c].what = "delete"
     THEN pc[c] = "find"
     ELSE pc[c] = "ask" /\ Admitted(c)
  /\ req[c].what \in {"update", "delete"} => Current[req[c].id] # Absent
  /\ pc' = [pc EXCEPT ![c] = "store"]
  /\ UNCHANGED <<serverVars, tabVars, req, left, readVars, strangers, listVars>>

Put(t) == log' = Append(log, t)

(* A new row's id is higher than any in the table.  *)
NewId(i) == \A j \in Rows(Current) : j < i

(* The tables a request may leave; what a form sends was typed by its      *)
(* user, and may be anything.  An update, and a delete, of a row that has  *)
(* gone since it was found do nothing.                                     *)
Written(r, t) ==
  \/ /\ r.what = "create"
     /\ \E i \in Ids, text \in Contents :
          NewId(i) /\ t = [Current EXCEPT ![i] = text]
  \/ /\ r.what = "update" /\ Current[r.id] # Absent
     /\ \E text \in Contents : t = [Current EXCEPT ![r.id] = text]
  \/ /\ r.what = "update" /\ Current[r.id] = Absent
     /\ t = Current
  \/ r.what = "delete" /\ t = [Current EXCEPT ![r.id] = Absent]

Wrote(c) == wrote' = [wrote EXCEPT ![c] = Len(log) + 1]

(* Mutant: the component does not wait for its write, and the list is read *)
(* before it.                                                              *)
StoreNotAwaited(c) ==
  /\ pc[c] = "store" /\ Room
  /\ \E t \in Table : Written(req[c], t) /\ Put(t)
  /\ Wrote(c)
  /\ answer' = [answer EXCEPT ![c] = Current]
  /\ pc' = [pc EXCEPT ![c] = "answer"]
  /\ UNCHANGED <<table, tabVars, req, left, from, part, strangers, listVars>>

(* The statement that writes. *)
Store(c) ==
  /\ pc[c] = "store" /\ Room
  /\ \E t \in Table : Written(req[c], t) /\ Put(t)
  /\ Wrote(c)
  /\ pc' = [pc EXCEPT ![c] = "get"]
  /\ UNCHANGED <<table, tabVars, req, left, from, answer, part, strangers, listVars>>

(* One turn of a reorder's loop; a row that is gone ends it with an error. *)
(* An error of the write ends it for groups.  For services it is dropped,  *)
(* and the registry, which is what is listed, has changed all the same.    *)
StoreNext(c, i) ==
  /\ pc[c] = "store" /\ Room
  /\ i \in left[c] /\ Current[i] # Absent
  /\ \E text \in Contents : Put([Current EXCEPT ![i] = text])
  /\ Wrote(c)
  /\ left' = [left EXCEPT ![c] = @ \ {i}]
  /\ pc' = [pc EXCEPT ![c] = IF left[c] = {i} THEN "get" ELSE @]
  /\ UNCHANGED <<table, tabVars, req, from, answer, part, strangers, listVars>>

(* The lists of which a request without a cookie gets the public rows. *)
Filtered == table \in {"groups", "services"}

(* The second request, for the whole table. *)
Get(c) ==
  /\ pc[c] = "get"
  /\ table = "users" => Admitted(c)
  /\ from' = [from EXCEPT ![c] = Len(log)]
  /\ part' = IF Filtered /\ ~Admitted(c) THEN part \cup {c} ELSE part
  /\ pc' = [pc EXCEPT ![c] = "read"]
  /\ UNCHANGED <<serverVars, tabVars, req, left, answer, wrote, strangers, listVars>>

(* The rows of t the call gets. *)
Given(c, t) ==
  IF Filtered /\ c \in part
  THEN [i \in Ids |-> IF t[i] \in Public THEN t[i] ELSE Absent]
  ELSE t

(* The services, each copied at its own moment while the answer is made.   *)
AnswerServices(c) ==
  /\ pc[c] = "read" /\ table = "services"
  /\ \E t \in Table :
       /\ \A i \in Ids : \E k \in from[c] .. Len(log) : t[i] = log[k][i]
       /\ answer' = [answer EXCEPT ![c] = Given(c, t)]
  /\ UNCHANGED part

(* The rows of another list, read by one query. *)
AnswerRows(c) ==
  /\ pc[c] = "read" /\ table # "services"
  /\ \E t \in Table :
       /\ All(t)
       /\ answer' = [answer EXCEPT ![c] = Given(c, t)]
       /\ part' = IF t = Current THEN part ELSE part \cup {c}

Answer(c) ==
  /\ AnswerServices(c) \/ AnswerRows(c)
  /\ pc' = [pc EXCEPT ![c] = "answer"]
  /\ from' = [from EXCEPT ![c] = 0]
  /\ UNCHANGED <<serverVars, tabVars, req, left, wrote, strangers, listVars>>

(* A service is created or saved from its own page. *)
SaveElsewhere(i) ==
  /\ table = "services" /\ Room
  /\ Current[i] # Absent \/ NewId(i)
  /\ \E text \in Contents : Put([Current EXCEPT ![i] = text])
  /\ UNCHANGED <<table, tabVars, callVars, strangers, listVars>>


-----------------------------------------------------------------------------
(* What the answer does.                                                   *)

(* The call is over. *)
Finish(c) ==
  /\ pc' = [pc EXCEPT ![c] = "idle"]
  /\ req' = [req EXCEPT ![c] = NoRequest]
  /\ left' = [left EXCEPT ![c] = {}]
  /\ from' = [from EXCEPT ![c] = 0]
  /\ answer' = [answer EXCEPT ![c] = Empty]
  /\ wrote' = [wrote EXCEPT ![c] = 0]
  /\ part' = part \ {c}

(* History: nothing has been typed into the list, which may lack rows. *)
Fresh(c) ==
  /\ touched' = [touched EXCEPT ![Home[c]] = {}]
  /\ lacking' = IF c \in part THEN lacking \cup {Home[c]} ELSE lacking \ {Home[c]}

(* Mutant: an object of the old list stays in the form as one of the list. *)
CommitKeepsForm(c) ==
  LET t == Home[c] IN
  /\ pc[c] = "answer"
  /\ shown' = [shown EXCEPT ![t] = answer[c]]
  /\ Fresh(c)
  /\ busy' = [busy EXCEPT ![t] = FALSE]
  /\ Finish(c)
  /\ UNCHANGED <<serverVars, form, modal, strangers>>

(* Mutant: the answer is merged into the list. *)
CommitMerges(c) ==
  LET t == Home[c]
      new == answer[c] IN
  /\ pc[c] = "answer"
  /\ shown' = [shown EXCEPT ![t] =
                 [i \in Ids |-> IF new[i] = Absent THEN shown[t][i] ELSE new[i]]]
  /\ Fresh(c)
  /\ form' = [form EXCEPT ![t].live = FALSE]
  /\ busy' = [busy EXCEPT ![t] = FALSE]
  /\ Finish(c)
  /\ UNCHANGED <<serverVars, modal, strangers>>

(* commit("setGroups", ...) and the like: the objects of the list are new. *)
(* A save then resets the form, whatever it holds by now.                  *)
Commit(c) ==
  LET t == Home[c]
      saved == req[c].what \in {"create", "update"} IN
  /\ pc[c] = "answer"
  /\ shown' = [shown EXCEPT ![t] = answer[c]]
  /\ Fresh(c)
  /\ form' = [form EXCEPT ![t] = IF saved THEN Blank ELSE [@ EXCEPT !.live = FALSE]]
  /\ busy' = [busy EXCEPT ![t] = IF saved \/ (table = "services" /\ req[c].what = "delete")
                                 THEN FALSE ELSE @]
  /\ Finish(c)
  /\ UNCHANGED <<serverVars, modal, strangers>>

(* A request is refused, or it or its answer is lost: the promise is       *)
(* rejected and the rest of the function does not run.                     *)
Reject(c) ==
  /\ pc[c] # "idle"
  /\ Finish(c)
  /\ UNCHANGED <<serverVars, tabVars, strangers, listVars>>

Answered(c) ==
  \/ Count(c) \/ Ask(c) \/ Store(c) \/ Get(c) \/ Answer(c) \/ Commit(c)
  \/ \E i \in Ids : StoreNext(c, i)

Next ==
  \/ \E t \in Tabs :
       \/ CloseForm(t) \/ CloseModal(t) \/ Cookie(t)
       \/ \E i \in Ids : Edit(t, i) \/ AskDelete(t, i)
       \/ \E text \in Contents : TypeInList(t, text)
  \/ \E c \in Calls :
       Save(c) \/ ConfirmDelete(c) \/ Drag(c) \/ Answered(c) \/ Reject(c)
  \/ \E i \in Ids : SaveElsewhere(i)

Spec == Init /\ [][Next]_vars

-----------------------------------------------------------------------------
(* Properties.                                                             *)

(* Every variable has its type; a form that holds a row of the list holds  *)
(* one that the list has.                                                  *)
TypeOK ==
  /\ table \in Tables
  /\ log \in Seq(Table) /\ Len(log) > 0
  /\ shown \in [Tabs -> Table]
  /\ form \in [Tabs -> [id : Ids \cup {None}, live : BOOLEAN]]
  /\ \A t \in Tabs : form[t].live =>
       form[t].id \in Ids /\ shown[t][form[t].id] # Absent
  /\ busy \in [Tabs -> BOOLEAN]
  /\ modal \in [Tabs -> Ids \cup {None}]
  /\ pc \in [Calls -> PCs]
  /\ req \in [Calls -> [what : Whats \cup {"none"}, id : Ids \cup {None}]]
  /\ \A c \in Calls : req[c].what \in {"update", "delete"} => req[c].id \in Ids
  /\ left \in [Calls -> SUBSET Ids]
  /\ from \in [Calls -> Nat]
  /\ answer \in [Calls -> Table]
  /\ strangers \subseteq Tabs
  /\ touched \in [Tabs -> SUBSET Ids]
  /\ wrote \in [Calls -> Nat]
  /\ part \subseteq Calls
  /\ lacking \subseteq Tabs

(* The lists behave as Mirror promises: what a tab shows is, but for rows  *)
(* typed into since, one table the server held; for services, rows of its  *)
(* registry at several moments; and an answer that a failed read cut, or a *)
(* lost cookie, shows nothing else either.  However answers overtake each  *)
(* other and wherever calls stop.                                          *)
Abstract == INSTANCE Mirror
MirrorSpec == Abstract!Spec

(* The oldest user cannot be deleted from any dashboard, however old its   *)
(* list is, so there always is a user: the server's own test of the last   *)
(* user is not enough, since two deletes may both pass it.                 *)
SomeUserRemains == InIdOrder /\ table = "users" => Rows(Current) # {}

(* t is a whole answer made of versions no older than k. *)
Since(k, t) ==
  IF table = "services"
  THEN \A i \in Ids : \E n \in k .. Len(log) : t[i] = log[n][i]
  ELSE \E n \in k .. Len(log) : t = log[n]

(* The answer a call puts into its list holds the call's own write or what *)
(* overwrote it: no row of it is older than that write, whatever overlaps  *)
(* it, though a failed read or a lost cookie may have left rows out.  A    *)
(* call that nothing overlaps so ends with the present table.              *)
AnswersFollowWrites ==
  \A c \in Calls : pc[c] = "answer" =>
    \E t \in Table :
      /\ Since(wrote[c], t)
      /\ \A i \in Ids : answer[c][i] = t[i] \/ (c \in part /\ answer[c][i] = Absent)

=============================================================================
