-------------------------------- MODULE Mirror --------------------------------
(***************************************************************************)
(* What the dashboards promise about the lists they show.                  *)
(*                                                                         *)
(* The server holds a table; log is the sequence of the tables it has held.*)
(* A dashboard shows one of them, perhaps an old one, except for the rows  *)
(* its user has typed into since it was last shown.  Of services it shows  *)
(* rows that the server held, perhaps at several moments.  When the server *)
(* failed to read its table, or answered a stranger, rows may be missing,  *)
(* and none is changed.  Dashboards do not promise to show the latest      *)
(* table, nor to go forward only.                                          *)
(***************************************************************************)
EXTENDS Naturals, Sequences

CONSTANTS
  Tabs,      \* the browser tabs that have a dashboard open
  Ids,       \* the ids a row may get
  Contents,  \* what a row may hold
  Absent     \* no row has this id

VARIABLES
  table,     \* which of the four lists this is
  log,       \* the tables the server has held, the present one last
  shown,     \* what each tab shows
  touched,   \* the rows typed into since the tab was last refreshed
  lacking    \* the tabs whose list may lack rows

vars == <<table, log, shown, touched, lacking>>

Table == [Ids -> Contents \cup {Absent}]

Held == {log[k] : k \in DOMAIN log}

(* What a whole answer shows. *)
Answers ==
  IF table = "services"
  THEN {t \in Table : \A i \in Ids : \E old \in Held : t[i] = old[i]}
  ELSE Held

(* What an answer shows that may lack rows. *)
Parts == {t \in Table : \E whole \in Answers : \A i \in Ids : t[i] \in {whole[i], Absent}}

Init ==
  /\ table \in {"groups", "messages", "users", "services"}
  /\ \E t \in Table : log = <<t>> /\ shown = [tab \in Tabs |-> t]
  /\ touched = [t \in Tabs |-> {}]
  /\ lacking = {}

(* The server changes its table. *)
Write ==
  /\ UNCHANGED <<table, shown, touched, lacking>>
  /\ \E t \in Table : log' = Append(log, t)

(* A tab shows what the server holds or held, or part of that. *)
Show(t) ==
  /\ UNCHANGED <<table, log>>
  /\ touched' = [touched EXCEPT ![t] = {}]
  /\ \/ /\ lacking' = lacking \ {t}
        /\ \E new \in Answers : shown' = [shown EXCEPT ![t] = new]
     \/ /\ lacking' = lacking \cup {t}
        /\ \E new \in Parts : shown' = [shown EXCEPT ![t] = new]

(* The form of a tab is open on a row of its list, and is typed into. *)
Type(t, i) ==
  /\ shown[t][i] # Absent
  /\ \E text \in Contents : shown' = [shown EXCEPT ![t][i] = text]
  /\ touched' = [touched EXCEPT ![t] = @ \cup {i}]
  /\ UNCHANGED <<table, log, lacking>>

Next ==
  \/ Write
  \/ \E t \in Tabs : Show(t) \/ \E i \in Ids : Type(t, i)

Spec == Init /\ [][Next]_vars

=============================================================================
