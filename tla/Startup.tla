--------------------------------- MODULE Startup ---------------------------------
(***************************************************************************)
(* How a database comes to be used: main.start, which creates a database   *)
(* that has no core table, migrates one of an older version and brings its *)
(* tables up to date, and the setup form, which does the same while the    *)
(* server runs and adds a core row of its own.  None of it is one          *)
(* transaction: the process may end between any two statements and be      *)
(* started again, and a statement may fail.                                *)
(*                                                                         *)
(* Of a measured value only its scale is kept, the power of 10^6 it has    *)
(* been multiplied by: 0 as versions before the migration stored it, 1 as  *)
(* this version stores it.  Of a core row only migration_id is kept.       *)
(***************************************************************************)
EXTENDS Naturals, Sequences

CONSTANTS
  Dialects, \* of "sqlite", and "server" for mysql and postgres
  Databases,\* what may be found at the first start (a bound on the instance)
  Forms,    \* whether the setup form may be used (a bound on the instance)
  Faults    \* "crash", "error" (a bound on the instance)

ASSUME DialectsAssumption == Dialects \subseteq {"sqlite", "server"}
ASSUME DatabasesAssumption ==
  Databases \subseteq {"empty", "old", "current", "coreless"}
ASSUME FormsAssumption == Forms \in BOOLEAN
ASSUME FaultsAssumption == Faults \subseteq {"crash", "error"}

(* The order CreateDatabase creates tables in; messages, groups, checkins, *)
(* their hits, notifications, incidents and their updates are left out.    *)
Order == <<"services", "users", "hits", "failures", "core">>
Created == {Order[i] : i \in 1..Len(Order)}
Backups == {"hits_backup", "failures_backup"}

Old == 0 \* a migration_id before latestMigration, or none
Now == 1 \* one that is not

MaxScale == 2 \* scales are not told apart beyond this (a bound)
Row == [latency : 0..MaxScale, ping : 0..MaxScale]
Measured(k) == [latency |-> k, ping |-> k]

(* The tables that hold measured values. *)
DataTables == {"hits", "failures"} \cup Backups

VARIABLES
  dialect,  \* what database it is
  config,   \* config.yml names a database
  tables,   \* the tables of the database
  services, \* the services table has rows
  admin,    \* the users table has one
  core,     \* migration_id of the rows of core, oldest first
  stored,   \* the rows of hits and failures and of their backups
  pc, step, \* what the process does, and with which table or statement
  form,     \* it does it for the setup form
  past      \* history: what has happened at least once, of Marks

(* The database had services and no core table when it was found; a start  *)
(* was cut at a delicate place; a setup form was used; a core table was    *)
(* not seen, services were not counted or a migration id was not read      *)
(* because of an error that nobody looks at; and a migration of the tables *)
(* was rolled back without a word.                                         *)
Marks == {"coreless", "cut", "form", "unseen", "uncounted", "unread", "undone"}

diskVars == <<dialect, config, tables, services, admin, core, stored>>
procVars == <<pc, step, form>>
vars == <<diskVars, procVars, past>>

-----------------------------------------------------------------------------

NoRows == [t \in DataTables |-> {}]

(* What hits and failures may hold when every value has one scale. *)
RowsOfScale(k) == {[t \in DataTables |-> IF t \in full THEN {Measured(k)} ELSE {}]
                     : full \in SUBSET {"hits", "failures"}}

(* A new database; one of a version before the migration; one of this      *)
(* version; and one with services whose core table is gone.  The last is   *)
(* the case ResetCore's count of services is there for.                    *)
DatabaseIs(kind) ==
  CASE kind = "empty" ->
         tables = {} /\ services = FALSE /\ admin = FALSE /\ core = <<>> /\ stored = NoRows
    [] kind = "old" ->
         /\ tables = Created /\ services \in BOOLEAN /\ admin = TRUE /\ core = <<Old>>
         /\ stored \in RowsOfScale(0)
    [] kind = "current" ->
         /\ tables = Created /\ services \in BOOLEAN /\ admin = TRUE /\ core = <<Now>>
         /\ stored \in RowsOfScale(1)
    [] kind = "coreless" ->
         /\ tables = Created \ {"core"} /\ services = TRUE /\ admin = TRUE /\ core = <<>>
         /\ stored \in RowsOfScale(1)

Init ==
  /\ dialect \in Dialects
  /\ \E kind \in Databases :
       DatabaseIs(kind) /\ past = IF kind = "coreless" THEN {"coreless"} ELSE {}
  /\ config \in IF Forms THEN BOOLEAN ELSE {TRUE}
  /\ pc = "down" /\ step = 0 /\ form = FALSE

Goto(label) == pc' = label /\ step' = 1 /\ UNCHANGED form

(* An error: start exits, the form's handler answers with it. *)
Fail == /\ pc' = IF form THEN "setup" ELSE "down"
        /\ step' = 0
        /\ form' = FALSE
        /\ UNCHANGED diskVars

(* start: LoadConfigs and ConnectConfigs, or the server in setup mode. *)
Start ==
  /\ pc = "down"
  /\ config \/ Forms
  /\ Goto(IF config THEN "reset" ELSE "setup")
  /\ UNCHANGED diskVars

(* DropDatabase: DropTableIfExists returns a Database, which is never nil, *)
(* so the loop returns after the first table, with that table's error.     *)
DropDatabase ==
  /\ tables' = tables \ {"services"}
  /\ services' = FALSE
  /\ UNCHANGED <<dialect, config, admin, core, stored>>

(* What HasTable and Count say of a fact: an error is not looked at, and   *)
(* then the answer is no, or none.                                         *)
Found(fact) == IF "error" \in Faults THEN {fact, FALSE} ELSE {fact}

Missed(fact, found, mark) == IF fact # found THEN {mark} ELSE {}

(* Mutant: the services are not counted. *)
ResetCoreAnyway ==
  /\ pc = "reset"
  /\ \E there \in Found("core" \in tables) :
       /\ past' = past \cup Missed("core" \in tables, there, "unseen")
       /\ \/ /\ there
             /\ Goto("changes")
             /\ UNCHANGED diskVars
          \/ /\ ~there
             /\ DropDatabase
             /\ Goto("create")

(* Mutant: an empty core table is given its row. *)
ResetCoreRepairs ==
  /\ pc = "reset"
  /\ UNCHANGED past
  /\ \/ /\ "core" \in tables
        /\ Goto(IF core = <<>> THEN "corerow" ELSE "changes")
        /\ UNCHANGED diskVars
     \/ /\ "core" \notin tables
        /\ ~services
        /\ DropDatabase
        /\ Goto("create")
     \/ /\ "core" \notin tables
        /\ services
        /\ Fail

(* ResetCore: nothing to do when there is a core table; an error when      *)
(* there are services; otherwise drop and create.                          *)
ResetCore ==
  /\ pc = "reset"
  /\ \E there \in Found("core" \in tables) :
       \/ /\ there
          /\ Goto("changes")
          /\ UNCHANGED <<diskVars, past>>
       \/ /\ ~there
          /\ \E some \in Found(services) :
               /\ past' = past \cup Missed("core" \in tables, there, "unseen")
                               \cup Missed(services, some, "uncounted")
               /\ \/ ~some /\ DropDatabase /\ Goto("create")
                  \/ some /\ Fail

(* CreateDatabase creates one table after the other; CREATE TABLE fails    *)
(* when the table exists.                                                  *)
CreateTable ==
  /\ pc = "create"
  /\ IF Order[step] \in tables THEN Fail
     ELSE /\ tables' = tables \cup {Order[step]}
          /\ IF step < Len(Order) THEN step' = step + 1 /\ UNCHANGED <<pc, form>>
                                  ELSE Goto("admin")
          /\ UNCHANGED <<dialect, config, services, admin, core, stored>>

CreateAdminUser ==
  /\ pc = "admin"
  /\ admin' = TRUE
  /\ Goto("corerow")
  /\ UNCHANGED <<dialect, config, tables, services, core, stored>>

(* core.Samples, alone or as the first of TriggerSamples. *)
CoreSamples ==
  /\ pc = "corerow"
  /\ core' = Append(core, Now)
  /\ Goto("samples")
  /\ UNCHANGED <<dialect, config, tables, services, admin, stored>>

(* The other samples of TriggerSamples, or, at a start without             *)
(* SAMPLE_DATA, none.  Messages, checkins, groups and incidents are left   *)
(* out.                                                                    *)
AddSample(t) == stored' = [stored EXCEPT ![t] = @ \cup {Measured(1)}]

Samples ==
  /\ pc = "samples"
  /\ \/ /\ step = 1
        /\ services' = TRUE
        /\ step' = 2 /\ UNCHANGED <<pc, form, stored>>
     \/ /\ step = 1 /\ ~form
        /\ Goto("changes")
        /\ UNCHANGED <<services, stored>>
     \/ /\ step = 2
        /\ AddSample("failures")
        /\ step' = 3 /\ UNCHANGED <<pc, form, services>>
     \/ /\ step = 3
        /\ AddSample("hits")
        /\ Goto(IF form THEN "automigrate" ELSE "changes")
        /\ UNCHANGED services
  /\ UNCHANGED <<dialect, config, tables, admin, core>>

-----------------------------------------------------------------------------
(* DatabaseChanges. *)

(* Find reads every row into one struct: the last row stays. *)
MigrationId == IF core = <<>> THEN Old ELSE core[Len(core)]

(* Is latestMigration > cr.MigrationId?  The error of Find is not looked   *)
(* at, and then the id is 0.                                               *)
Changes ==
  /\ pc = "changes"
  /\ \E id \in {MigrationId} \cup IF "error" \in Faults THEN {Old} ELSE {} :
       /\ past' = past \cup Missed(MigrationId, id, "unread")
       /\ Goto(IF Now > id THEN "migrate" ELSE "automigrate")
  /\ UNCHANGED diskVars

Up(k) == IF k < MaxScale THEN k + 1 ELSE MaxScale
Latency(rows) == {[r EXCEPT !.latency = Up(@)] : r \in rows}
Ping(rows)    == {[r EXCEPT !.ping = Up(@)] : r \in rows}
Scaled(rows)  == Ping(Latency(rows))

(* Mutant: the last statement is left out. *)
OneFewer == IF dialect = "sqlite" THEN 7 ELSE 3

Statements == IF dialect = "sqlite" THEN 8 ELSE 3

(* One statement, which fails unless the tables allow it. *)
Run(allowed, effect) ==
  \/ /\ allowed
     /\ effect
     /\ IF step < Statements THEN step' = step + 1 /\ UNCHANGED <<pc, form>>
                             ELSE Goto("mark")
     /\ UNCHANGED <<dialect, config, services, admin, core>>
  \/ ~allowed /\ Fail

Rename(t, b) == Run(t \in tables /\ b \notin tables,
                    /\ tables' = (tables \ {t}) \cup {b}
                    /\ stored' = [stored EXCEPT ![b] = stored[t], ![t] = {}])
Create(t)    == Run(t \notin tables,
                    tables' = tables \cup {t} /\ UNCHANGED stored)
Insert(t, b) == Run(t \in tables /\ b \in tables,
                    /\ stored' = [stored EXCEPT ![t] = @ \cup Scaled(stored[b])]
                    /\ UNCHANGED tables)
Drop(b)      == Run(b \in tables,
                    tables' = tables \ {b} /\ stored' = [stored EXCEPT ![b] = {}])
Update(t, rows) == Run(t \in tables,
                       stored' = [stored EXCEPT ![t] = rows] /\ UNCHANGED tables)

(* Mutant: the backup of hits is dropped before its rows are copied. *)
SqliteDropsEarly(i) ==
  CASE i = 1 -> Rename("hits", "hits_backup")
    [] i = 2 -> Create("hits")
    [] i > 2 -> Drop("hits_backup")

(* The statements of sqliteMigration, each a transaction of its own. *)
Sqlite(i) ==
  CASE i = 1 -> Rename("hits", "hits_backup")
    [] i = 2 -> Create("hits")
    [] i = 3 -> Insert("hits", "hits_backup")
    [] i = 4 -> Rename("failures", "failures_backup")
    [] i = 5 -> Create("failures")
    [] i = 6 -> Insert("failures", "failures_backup")
    [] i = 7 -> Drop("hits_backup")
    [] i = 8 -> Drop("failures_backup")

(* Mutant: the second UPDATE scales latency once more. *)
GenericTwice(i) ==
  CASE i \in {1, 2} -> Update("hits", Latency(stored["hits"]))
    [] i = 3 -> Update("failures", Ping(stored["failures"]))

(* Those of genericMigration; before them it alters the columns' types,    *)
(* which changes no value and may be repeated.                             *)
Generic(i) ==
  CASE i = 1 -> Update("hits", Latency(stored["hits"]))
    [] i = 2 -> Update("hits", Ping(stored["hits"]))
    [] i = 3 -> Update("failures", Ping(stored["failures"]))

(* The migration, statement by statement: one that fails does so because   *)
(* its tables are not there or are there already.                          *)
Migrate ==
  /\ pc = "migrate"
  /\ IF dialect = "sqlite" THEN Sqlite(step) ELSE Generic(step)

(* Mutant: the new id goes into a row of its own. *)
MarkInserts ==
  /\ pc = "mark"
  /\ core' = Append(core, Now)
  /\ Goto("automigrate")
  /\ UNCHANGED <<dialect, config, tables, services, admin, stored>>

(* UPDATE core SET migration_id: every row.  BackupAssets renames a        *)
(* directory and is left out.                                              *)
Mark ==
  /\ pc = "mark"
  /\ core' = [i \in DOMAIN core |-> Now]
  /\ Goto("automigrate")
  /\ UNCHANGED <<dialect, config, tables, services, admin, stored>>

(* MigrateDatabase: one transaction that creates missing tables.  When its *)
(* last statement, AutoMigrate of core, fails, it is rolled back and the   *)
(* error of the one before it is returned, which is none.                  *)
MigrateDatabase ==
  /\ pc = "automigrate"
  /\ \/ tables' = tables \cup Created /\ UNCHANGED past
     \/ "error" \in Faults /\ UNCHANGED tables /\ past' = past \cup {"undone"}
  /\ Goto(IF form THEN "newcore" ELSE "init")
  /\ UNCHANGED <<dialect, config, services, admin, core, stored>>

(* InitApp, which selects the services, and the HTTP server. *)
InitApp ==
  /\ pc = "init"
  /\ \/ "services" \in tables /\ Goto("up") /\ UNCHANGED diskVars
     \/ "services" \notin tables /\ Fail

-----------------------------------------------------------------------------
(* The setup form. *)

(* processSetupHandler saves config.yml, and unless there is a core table  *)
(* drops and creates as ResetCore does, without counting services.         *)
ProcessSetup ==
  /\ pc = "setup"
  /\ \E there \in Found("core" \in tables) :
       /\ past' = past \cup {"form"} \cup Missed("core" \in tables, there, "unseen")
       /\ \/ /\ there
             /\ pc' = "automigrate"
             /\ UNCHANGED <<tables, services>>
          \/ /\ ~there
             /\ pc' = "create"
             /\ tables' = tables \ {"services"}
             /\ services' = FALSE
  /\ config' = TRUE
  /\ step' = 1
  /\ form' = TRUE
  /\ UNCHANGED <<dialect, admin, core, stored>>

MaxRows == 3 \* rows that forms which failed may have left (a bound)

(* c.Create(), with no migration id; then SelectAllServices, which may     *)
(* fail, and CheckServices, and core.App.Setup is set.                     *)
NewCore ==
  /\ pc = "newcore"
  /\ Len(core) < MaxRows
  /\ core' = Append(core, Old)
  /\ pc' = IF "services" \in tables THEN "up" ELSE "setup"
  /\ step' = 1 /\ form' = FALSE
  /\ UNCHANGED <<dialect, config, tables, services, admin, stored>>

-----------------------------------------------------------------------------

(* A running server: users add services, checks add hits and failures. *)
Serve ==
  /\ pc = "up"
  /\ services' = TRUE
  /\ \E t \in {"hits", "failures"} \cap tables :
       stored' = [stored EXCEPT ![t] = @ \cup {Measured(1)}]
  /\ UNCHANGED <<dialect, config, tables, admin, core, procVars>>

(* The process is stopped while it serves. *)
Shutdown ==
  /\ pc = "up"
  /\ pc' = "down" /\ step' = 0 /\ form' = FALSE
  /\ UNCHANGED diskVars

(* Where stopping is remembered: between the tables and their core row,    *)
(* between two UPDATEs, and between the last statement of a migration and  *)
(* the new migration_id.                                                   *)
Delicate == \/ pc \in {"admin", "corerow", "mark"}
            \/ pc = "migrate" /\ dialect = "server" /\ step > 1

Stops == past' = IF Delicate THEN past \cup {"cut"} ELSE past

(* It ends at any point, *)
Crash ==
  /\ "crash" \in Faults
  /\ pc # "down"
  /\ pc' = "down" /\ step' = 0 /\ form' = FALSE
  /\ Stops
  /\ UNCHANGED diskVars

(* or a statement fails. *)
Error ==
  /\ "error" \in Faults
  /\ pc \in {"reset", "create", "admin", "corerow", "samples", "migrate", "mark",
             "automigrate", "init", "newcore"}
  /\ Fail
  /\ Stops

(* What leaves no mark. *)
Proceed ==
  \/ Start \/ CreateTable \/ CreateAdminUser \/ CoreSamples
  \/ Samples \/ Migrate \/ Mark \/ InitApp
  \/ NewCore \/ Serve \/ Shutdown

Next ==
  \/ Proceed /\ UNCHANGED past
  \/ ResetCore \/ Changes \/ MigrateDatabase
  \/ ProcessSetup \/ Crash \/ Error

Spec == Init /\ [][Next]_vars

-----------------------------------------------------------------------------
(* Properties. *)

(* Tables that do not exist hold nothing, and a server that runs has all   *)
(* its tables and no backup of one, unless it has migrated without reading *)
(* the migration id or lost its tables' migration to an error.             *)
TypeOK ==
  /\ dialect \in Dialects
  /\ config \in BOOLEAN /\ services \in BOOLEAN /\ admin \in BOOLEAN
  /\ form \in BOOLEAN
  /\ tables \subseteq Created \cup Backups
  /\ pc = "up" => /\ {"services", "core"} \subseteq tables
                  /\ past \cap {"unread", "undone"} = {} => tables = Created
  /\ core \in Seq({Old, Now})
  /\ stored \in [DataTables -> SUBSET Row]
  /\ \A t \in DataTables \ tables : stored[t] = {}
  /\ services => "services" \in tables
  /\ core # <<>> => "core" \in tables
  /\ pc \in {"down", "setup", "reset", "create", "admin", "corerow", "samples",
             "changes", "migrate", "mark", "automigrate", "init", "up", "newcore"}
  /\ step \in 0..8
  /\ past \subseteq Marks

(* A server that runs finds every measured value in the unit it uses: what *)
(* an older version stored has been migrated, once, and what this version  *)
(* stored has not been (DatabaseChanges: "Statping database is out of      *)
(* date").  So it is wherever starts fail or are cut short, but for the    *)
(* delicate places, from which the migration is repeated, for a migration  *)
(* id that could not be read, and for the core row of the setup form.      *)
ValuesRight ==
  pc = "up" =>
    /\ \A r \in stored["hits"] : r = Measured(1)
    /\ \A r \in stored["failures"] : r.ping = 1
UnitsRight == past \cap {"cut", "unread", "form"} = {} => ValuesRight

(* However often starts fail or are cut short, a database with a core row  *)
(* has an administrator, unless the setup form wrote the row (ResetCore,   *)
(* CreateAdminUser).                                                       *)
SettledHasAdmin == core # <<>> /\ "form" \notin past => admin

(* Wherever a process ends, starting it again drops no services unless it  *)
(* could not count them (ResetCore).  The setup form does not count them   *)
(* (processSetupHandler); it drops none either, unless the database was    *)
(* found with services and no core table, which this program leaves none   *)
(* in, or an error has hidden the core table.                              *)
KeepsServices ==
  [][services /\ ~services' =>
       \/ "uncounted" \in past'
       \/ pc = "setup" /\ past' \cap {"coreless", "unseen"} # {}]_vars

(* Nor does it lose hits or failures: they are in their table or in its    *)
(* backup (sqliteMigration copies before it drops).                        *)
Rows(t, b) == stored[t] \cup stored[b]
KeepsMeasurements ==
  [][ /\ Rows("hits", "hits_backup") # {} => Rows("hits", "hits_backup")' # {}
      /\ Rows("failures", "failures_backup") # {}
           => Rows("failures", "failures_backup")' # {} ]_vars

(* "All application settings will be saved into 1 row in the 'core' table" *)
(* (types/core/struct.go): so it is over creation, migration and any       *)
(* number of starts, cut short anywhere but in a delicate place, unless    *)
(* the setup form is used.                                                 *)
OneCoreRow == past \cap {"cut", "form"} = {} /\ pc = "up" => Len(core) = 1

(* The same of the values where a setup form may have been used: "Statping *)
(* database is out of date" is said, and the values are scaled, at the     *)
(* first start after it although the form has just created the database.   *)
UnitsRightAfterForm == past \cap {"cut", "unread"} = {} => ValuesRight

=============================================================================
