---------------------------- MODULE StartupProofs ----------------------------
(***************************************************************************)
(* Theorems about Startup: what holds of the tables wherever statements    *)
(* fail or the process ends, and what a read that fails unseen costs.      *)
(***************************************************************************)
EXTENDS Startup, TLAPS

Labels ==
  {"down", "setup", "reset", "create", "admin", "corerow", "samples",
   "changes", "migrate", "mark", "automigrate", "init", "up", "newcore"}

(* The two kinds of conjuncts of TypeOK: what has a type, and what the     *)
(* tables have to do with each other.                                      *)
Flags ==
  /\ config \in BOOLEAN /\ services \in BOOLEAN /\ admin \in BOOLEAN
  /\ form \in BOOLEAN

Types ==
  /\ Flags
  /\ dialect \in Dialects
  /\ tables \subseteq Created \cup Backups
  /\ core \in Seq({Old, Now})
  /\ stored \in [DataTables -> SUBSET Row]
  /\ pc \in Labels
  /\ step \in 0..8
  /\ past \subseteq Marks

Contents ==
  /\ \A t \in DataTables \ tables : stored[t] = {}
  /\ services => "services" \in tables
  /\ core # <<>> => "core" \in tables
  /\ "core" \in tables => "users" \in tables

(* Where the process is, and what it has done before it came there. *)
Place ==
  /\ pc \notin {"down", "setup"} => config
  /\ form => pc \in {"create", "admin", "corerow", "samples", "automigrate", "newcore"}
  /\ pc = "newcore" => form
  /\ form => "form" \in past
  /\ pc = "create" => /\ step \in 1 .. 5
                      /\ \A i \in 1 .. step - 1 : Order[i] \in tables
                      /\ "core" \in tables => step \in {1, 2}
  /\ pc \in {"admin", "corerow", "samples"} => Created \subseteq tables
  /\ pc = "samples" => step \in 1 .. 3
  /\ pc \in {"changes", "migrate", "mark", "automigrate", "init", "up", "newcore"}
       => "core" \in tables
  /\ pc = "migrate" => step \in 1 .. Statements
  /\ pc = "migrate" /\ "unread" \notin past => MigrationId = Old
  /\ pc = "up" => "services" \in tables
  /\ pc \in {"init", "up", "newcore"} /\ past \cap {"unread", "undone"} = {}
       => tables = Created

(* Backups are only there while a migration is under way or has been cut   *)
(* short, and then the next start tries again, unless one began because    *)
(* the migration id could not be read.                                     *)
BackupsAre ==
  /\ tables \cap Backups # {} =>
       /\ dialect = "sqlite"
       /\ "unread" \notin past =>
            /\ config /\ "core" \in tables /\ MigrationId = Old /\ ~form
            /\ pc \in {"down", "reset", "create", "changes", "migrate"}
  /\ pc = "migrate" /\ step = 8 => "hits_backup" \notin tables

IInv == Types /\ Contents /\ Place /\ BackupsAre

LEMMA TypeParts == IInv => TypeOK
  BY DEF IInv, Flags, Types, Contents, Place, TypeOK, Labels

(* The five tables. *)
LEMMA Tables ==
  /\ Len(Order) = 5
  /\ Order[1] = "services" /\ Order[2] = "users" /\ Order[3] = "hits"
  /\ Order[4] = "failures" /\ Order[5] = "core"
  /\ Created = {"services", "users", "hits", "failures", "core"}
<1>1. /\ Len(Order) = 5
      /\ Order[1] = "services" /\ Order[2] = "users" /\ Order[3] = "hits"
      /\ Order[4] = "failures" /\ Order[5] = "core"
  BY DEF Order
<1>2. \A i \in 1 .. 5 : i = 1 \/ i = 2 \/ i = 3 \/ i = 4 \/ i = 5
  OBVIOUS
<1>3. Created = {Order[i] : i \in 1 .. 5}
  BY <1>1 DEF Created
<1>4. {Order[i] : i \in 1 .. 5} = {"services", "users", "hits", "failures", "core"}
  BY <1>1, <1>2
<1> QED BY <1>1, <1>3, <1>4

(* Scaling. *)
LEMMA ScalesInRow ==
  ASSUME NEW rows \in SUBSET Row
  PROVE  /\ Latency(rows) \in SUBSET Row /\ Ping(rows) \in SUBSET Row
         /\ Scaled(rows) \in SUBSET Row
         /\ Measured(0) \in Row /\ Measured(1) \in Row
<1>1. \A k \in 0 .. MaxScale : Up(k) \in 0 .. MaxScale
  BY DEF Up, MaxScale
<1>2. ASSUME NEW s \in SUBSET Row
      PROVE  Latency(s) \in SUBSET Row /\ Ping(s) \in SUBSET Row
  BY <1>1, <1>2 DEF Latency, Ping, Row
<1>3. Measured(0) \in Row /\ Measured(1) \in Row
  BY DEF Measured, Row, MaxScale
<1> QED BY <1>2, <1>3 DEF Scaled

LEMMA ScalesAll ==
  ASSUME NEW rows
  PROVE  /\ rows # {} <=> Latency(rows) # {}
         /\ rows # {} <=> Ping(rows) # {}
         /\ rows # {} <=> Scaled(rows) # {}
<1>1. \A s : s # {} <=> Latency(s) # {}
  BY DEF Latency
<1>2. \A s : s # {} <=> Ping(s) # {}
  BY DEF Ping
<1> QED BY <1>1, <1>2 DEF Scaled

(* The statements of the two migrations, in their order. *)
SqliteStatement ==
  \/ step = 1 /\ Rename("hits", "hits_backup")
  \/ step = 2 /\ Create("hits")
  \/ step = 3 /\ Insert("hits", "hits_backup")
  \/ step = 4 /\ Rename("failures", "failures_backup")
  \/ step = 5 /\ Create("failures")
  \/ step = 6 /\ Insert("failures", "failures_backup")
  \/ step = 7 /\ Drop("hits_backup")
  \/ step = 8 /\ Drop("failures_backup")

GenericStatement ==
  \/ step = 1 /\ Update("hits", Latency(stored["hits"]))
  \/ step = 2 /\ Update("hits", Ping(stored["hits"]))
  \/ step = 3 /\ Update("failures", Ping(stored["failures"]))

LEMMA StatementIs ==
  ASSUME Place, Migrate
  PROVE  /\ pc = "migrate"
         /\ \/ dialect = "sqlite" /\ Statements = 8 /\ SqliteStatement
            \/ dialect # "sqlite" /\ Statements = 3 /\ GenericStatement
<1>1. pc = "migrate" /\ step \in 1 .. Statements
  BY DEF Migrate, Place
<1>2. CASE dialect = "sqlite"
  <2>1. Statements = 8 /\ Sqlite(step)
    BY <1>1, <1>2 DEF Migrate, Statements
  <2>2. \/ step = 1 \/ step = 2 \/ step = 3 \/ step = 4
        \/ step = 5 \/ step = 6 \/ step = 7 \/ step = 8
    BY <1>1, <2>1
  <2> QED BY <1>1, <1>2, <2>1, <2>2 DEF Sqlite, SqliteStatement
<1>3. CASE dialect # "sqlite"
  <2>1. Statements = 3 /\ Generic(step)
    BY <1>1, <1>3 DEF Migrate, Statements
  <2>2. step = 1 \/ step = 2 \/ step = 3
    BY <1>1, <2>1
  <2> QED BY <1>1, <1>3, <2>1, <2>2 DEF Generic, GenericStatement
<1> QED BY <1>2, <1>3

(* What a statement that succeeds leaves alone. *)
Did ==
  /\ IF step < Statements THEN step' = step + 1 /\ UNCHANGED <<pc, form>>
                          ELSE Goto("mark")
  /\ UNCHANGED <<dialect, config, services, admin, core>>

LEMMA FailKeeps ==
  ASSUME IInv, Fail, past \subseteq past', past' \subseteq Marks
  PROVE  IInv'
<1> USE DEF IInv
<1>1. Types'
  <2>1. Flags'
    BY Zenon DEF Fail, Flags, Types, diskVars
  <2>2. pc' \in Labels /\ step' = 0 /\ UNCHANGED diskVars
    BY DEF Fail, Labels
  <2> QED BY <2>1, <2>2 DEF Types, diskVars
<1>2. Contents'
  BY DEF Contents, Fail, diskVars
<1>3. Place'
  BY DEF Place, Fail, diskVars
<1>4. BackupsAre'
  BY DEF BackupsAre, Place, Fail, diskVars, MigrationId
<1> QED BY <1>1, <1>2, <1>3, <1>4

(* A statement of the migration. *)
LEMMA DidKeeps ==
  ASSUME IInv, pc = "migrate", Did, past' = past,
         tables' \subseteq Created \cup Backups, "core" \in tables',
         stored' \in [DataTables -> SUBSET Row],
         \A t \in DataTables \ tables' : stored'[t] = {},
         "services" \in tables' <=> "services" \in tables,
         "users" \in tables' <=> "users" \in tables,
         tables' \cap Backups # {} => dialect = "sqlite",
         step < Statements \/ tables' \cap Backups = {},
         step = 7 => "hits_backup" \notin tables'
  PROVE  IInv'
<1> USE DEF IInv
<1>0. step \in 1 .. Statements /\ Statements \in {3, 8} /\ step \in Nat
  BY DEF Place, Statements
<1>1. CASE step < Statements
  <2>1. step' = step + 1 /\ pc' = pc /\ form' = form /\ step' \in 1 .. Statements
    BY <1>0, <1>1 DEF Did
  <2>2. Statements' = Statements /\ MigrationId' = MigrationId
    BY DEF Did, Statements, MigrationId
  <2>3. Types'
    BY <1>0, <2>1 DEF Types, Flags, Did
  <2>4. Contents'
    BY DEF Contents, Place, Did
  <2>5. Place'
    BY <2>1, <2>2 DEF Place, Did
  <2>6. BackupsAre'
    <3>1. step' = 8 => step = 7
      BY <1>0, <2>1
    <3> QED BY <2>1, <2>2, <3>1 DEF BackupsAre, Place, Did
  <2> QED BY <2>3, <2>4, <2>5, <2>6
<1>2. CASE ~(step < Statements)
  <2>1. step' = 1 /\ pc' = "mark" /\ form' = form /\ ~form
    BY <1>2 DEF Did, Goto, Place
  <2>2. Types'
    BY <2>1 DEF Types, Flags, Did, Labels
  <2>3. Contents'
    BY DEF Contents, Place, Did
  <2>4. Place'
    BY <2>1 DEF Place, Did
  <2>5. BackupsAre'
    BY <1>2, <2>1 DEF BackupsAre
  <2> QED BY <2>2, <2>3, <2>4, <2>5
<1> QED BY <1>1, <1>2

LEMMA MigrateStep ==
  ASSUME IInv, Migrate, past' = past
  PROVE  IInv'
<1>0. /\ Types /\ Contents /\ Place /\ BackupsAre
      /\ past \subseteq Marks /\ "core" \in tables /\ pc = "migrate"
  BY StatementIs DEF IInv, Types, Place
<1>1. CASE Fail
  BY <1>0, <1>1, FailKeeps
<1>2. /\ stored \in [DataTables -> SUBSET Row] /\ tables \subseteq Created \cup Backups
      /\ \A t \in DataTables \ tables : stored[t] = {}
      /\ {"hits", "failures", "hits_backup", "failures_backup"} = DataTables
      /\ Backups = {"hits_backup", "failures_backup"}
      /\ {"hits", "failures"} \subseteq Created /\ "core" \notin DataTables
      /\ "services" \notin DataTables /\ "users" \notin DataTables
      /\ Created \cap Backups = {}
  BY <1>0, Tables DEF Types, Contents, DataTables, Backups
<1>3. ASSUME NEW t \in DataTables, NEW rows \in SUBSET Row
      PROVE  [stored EXCEPT ![t] = rows] \in [DataTables -> SUBSET Row]
  BY <1>2, <1>3
<1>4. CASE dialect = "sqlite" /\ Statements = 8 /\ SqliteStatement /\ ~Fail
  <2>1. Did
    BY <1>4 DEF SqliteStatement, Rename, Create, Insert, Drop, Run, Did
  <2>2. ASSUME NEW t \in {"hits", "failures"}, NEW b \in Backups, step \in {1, 4}, Rename(t, b)
        PROVE  IInv'
    <3>1. /\ t \in tables /\ b \notin tables /\ tables' = (tables \ {t}) \cup {b}
          /\ stored' = [stored EXCEPT ![b] = stored[t], ![t] = {}]
      BY <1>4, <2>2 DEF Rename, Run
    <3> QED BY <1>0, <1>2, <1>4, <2>1, <2>2, <3>1, DidKeeps
  <2>3. ASSUME NEW t \in {"hits", "failures"}, step \in {2, 5}, Create(t)
        PROVE  IInv'
    <3>1. tables' = tables \cup {t} /\ stored' = stored
      BY <1>4, <2>3 DEF Create, Run
    <3> QED BY <1>0, <1>2, <1>4, <2>1, <2>3, <3>1, DidKeeps
  <2>4. ASSUME NEW t \in {"hits", "failures"}, NEW b \in Backups, step \in {3, 6}, Insert(t, b)
        PROVE  IInv'
    <3>1. /\ t \in tables /\ tables' = tables
          /\ stored' = [stored EXCEPT ![t] = @ \cup Scaled(stored[b])]
      BY <1>4, <2>4 DEF Insert, Run
    <3>2. stored[t] \cup Scaled(stored[b]) \in SUBSET Row
      BY <1>2, ScalesInRow
    <3> QED BY <1>0, <1>2, <1>3, <1>4, <2>1, <2>4, <3>1, <3>2, DidKeeps
  <2>5. CASE step = 7 /\ Drop("hits_backup")
    <3>1. /\ tables' = tables \ {"hits_backup"}
          /\ stored' = [stored EXCEPT !["hits_backup"] = {}]
      BY <1>4, <2>5 DEF Drop, Run
    <3> QED BY <1>0, <1>2, <1>3, <1>4, <2>1, <2>5, <3>1, DidKeeps
  <2>6. CASE step = 8 /\ Drop("failures_backup")
    <3>1. /\ tables' = tables \ {"failures_backup"}
          /\ stored' = [stored EXCEPT !["failures_backup"] = {}]
      BY <1>4, <2>6 DEF Drop, Run
    <3>2. "hits_backup" \notin tables
      BY <1>0, <2>6 DEF BackupsAre
    <3> QED BY <1>0, <1>2, <1>3, <1>4, <2>1, <2>6, <3>1, <3>2, DidKeeps
  <2> QED BY <1>2, <1>4, <2>2, <2>3, <2>4, <2>5, <2>6 DEF SqliteStatement
<1>5. CASE dialect # "sqlite" /\ Statements = 3 /\ GenericStatement /\ ~Fail
  <2>1. PICK t \in {"hits", "failures"}, rows \in SUBSET Row : Update(t, rows)
    BY <1>2, <1>5, ScalesInRow DEF GenericStatement
  <2>2. /\ Did /\ t \in tables /\ tables' = tables
        /\ stored' = [stored EXCEPT ![t] = rows]
    BY <1>5, <2>1 DEF Update, Run, Did
  <2>3. tables \cap Backups = {} /\ step # 7
    BY <1>0, <1>5 DEF BackupsAre, GenericStatement
  <2> QED BY <1>0, <1>2, <1>3, <1>5, <2>2, <2>3, DidKeeps
<1> QED BY <1>0, <1>1, <1>4, <1>5, StatementIs

LEMMA InitInv ==
  ASSUME Init
  PROVE  IInv
<1>1. PICK kind \in Databases : DatabaseIs(kind)
  BY DEF Init
<1>2. kind \in {"empty", "old", "current", "coreless"}
  BY DatabasesAssumption
<1>3. /\ Measured(0) \in Row /\ Measured(1) \in Row
      /\ "hits" \in Created /\ "failures" \in Created
      /\ "services" \in Created /\ "core" \in Created /\ "users" \in Created
      /\ Created \cap Backups = {}
      /\ "core" \notin DataTables /\ "services" \notin DataTables
  BY ScalesInRow, Tables DEF Backups, DataTables
<1>4. ASSUME NEW k \in {0, 1}, NEW s \in RowsOfScale(k)
      PROVE  s \in [DataTables -> SUBSET Row] /\ \A t \in DataTables : s[t] # {} => t \in {"hits", "failures"}
  BY ZenonT(40), <1>3, <1>4 DEF RowsOfScale
<1>5. /\ dialect \in Dialects /\ config \in BOOLEAN
      /\ pc = "down" /\ step = 0 /\ form = FALSE /\ past \subseteq Marks
  BY DEF Init, Marks
<1>6. /\ services \in BOOLEAN /\ admin \in BOOLEAN
      /\ tables \subseteq Created
      /\ core \in Seq({Old, Now})
      /\ services => "services" \in tables
      /\ core # <<>> => "core" \in tables
      /\ "core" \in tables => "users" \in tables
  <2>1. CASE kind = "empty"
    <3>1. tables = {} /\ services = FALSE /\ admin = FALSE /\ core = <<>>
      BY <1>1, <2>1 DEF DatabaseIs
    <3>2. services \in BOOLEAN /\ admin \in BOOLEAN
      BY <3>1, Zenon
    <3> QED BY <3>1, <3>2
  <2>2. CASE kind = "old"
    <3>1. tables = Created /\ services \in BOOLEAN /\ admin = TRUE /\ core = <<Old>>
      BY <1>1, <2>2 DEF DatabaseIs
    <3>2. admin \in BOOLEAN
      BY <3>1, Zenon
    <3> QED BY <1>3, <3>1, <3>2
  <2>3. CASE kind = "current"
    <3>1. tables = Created /\ services \in BOOLEAN /\ admin = TRUE /\ core = <<Now>>
      BY <1>1, <2>3 DEF DatabaseIs
    <3>2. admin \in BOOLEAN
      BY <3>1, Zenon
    <3> QED BY <1>3, <3>1, <3>2
  <2>4. CASE kind = "coreless"
    <3>1. tables = Created \ {"core"} /\ services = TRUE /\ admin = TRUE /\ core = <<>>
      BY <1>1, <2>4 DEF DatabaseIs
    <3>2. services \in BOOLEAN /\ admin \in BOOLEAN
      BY <3>1, Zenon
    <3> QED BY <1>3, <3>1, <3>2, Tables
  <2> QED BY <1>2, <2>1, <2>2, <2>3, <2>4
<1>7. /\ stored \in [DataTables -> SUBSET Row]
      /\ \A t \in DataTables \ tables : stored[t] = {}
  <2>1. CASE kind = "empty"
    BY <1>1, <2>1 DEF DatabaseIs, NoRows
  <2>2. CASE kind = "old"
    BY <1>1, <1>3, <1>4, <2>2 DEF DatabaseIs
  <2>3. CASE kind = "current"
    BY <1>1, <1>3, <1>4, <2>3 DEF DatabaseIs
  <2>4. CASE kind = "coreless"
    BY <1>1, <1>3, <1>4, <2>4, Tables DEF DatabaseIs
  <2> QED BY <1>2, <2>1, <2>2, <2>3, <2>4
<1>8. Flags
  BY <1>5, <1>6, Zenon DEF Flags
<1>9. Types
  BY <1>5, <1>6, <1>7, <1>8 DEF Types, Labels
<1> QED BY <1>3, <1>5, <1>6, <1>7, <1>9 DEF IInv, Contents, Place, BackupsAre

(* Every other step. *)
LEMMA InvStep ==
  ASSUME IInv, [Next]_vars
  PROVE  IInv'
<1>0. /\ Types /\ Contents /\ Place /\ BackupsAre
      /\ past \subseteq Marks
  BY DEF IInv, Types
<1>3. /\ Created = {"services", "users", "hits", "failures", "core"}
      /\ Created \cap Backups = {}
      /\ "core" \notin DataTables /\ "services" \notin DataTables
      /\ DataTables = {"hits", "failures", "hits_backup", "failures_backup"}
      /\ Backups = {"hits_backup", "failures_backup"}
  BY Tables DEF Backups, DataTables
<1>1. CASE Start /\ past' = past
  <2>1. Types'
    BY <1>0, <1>1 DEF Start, Goto, Types, Flags, diskVars, Labels
  <2> QED BY <1>0, <1>1, <2>1 DEF Start, Goto, IInv, Contents, Place, BackupsAre, diskVars,
          MigrationId
<1>2. CASE ResetCore
  <2>0. pc = "reset" /\ past \subseteq past' /\ past' \subseteq Marks /\ ~form
    BY <1>0, <1>2 DEF ResetCore, Missed, Marks, Place
  <2>1. CASE "core" \in tables /\ Goto("changes") /\ UNCHANGED <<diskVars, past>>
    <3>1. UNCHANGED diskVars /\ pc = "reset" /\ pc' = "changes" /\ step' = 1 /\ form' = form
      BY <2>0, <2>1 DEF Goto
    <3>2. Types'
      BY <1>0, <2>0, <3>1 DEF Types, Flags, diskVars, Labels
    <3>3. Contents' /\ Place' /\ BackupsAre'
      BY <1>0, <2>1, <3>1 DEF Contents, Place, BackupsAre, diskVars, MigrationId
    <3> QED BY <3>2, <3>3 DEF IInv
  <2>2. CASE DropDatabase /\ Goto("create")
    <3>0. Flags'
      BY <1>0, <2>2, Zenon DEF DropDatabase, Goto, Flags, Types
    <3>1. Types'
      BY <1>0, <2>0, <2>2, <3>0 DEF DropDatabase, Goto, Types, Labels
    <3>2. Contents'
      BY <1>0, <1>3, <2>2 DEF DropDatabase, Contents
    <3>3. Place'
      <4>1. pc' = "create" /\ step' = 1 /\ UNCHANGED <<config, form>> /\ pc = "reset"
        BY <2>0, <2>2 DEF DropDatabase, Goto
      <4> QED BY <1>0, <2>0, <4>1 DEF Place
    <3>4. BackupsAre'
      BY <1>0, <1>3, <2>0, <2>2 DEF DropDatabase, Goto, BackupsAre, MigrationId
    <3> QED BY <3>1, <3>2, <3>3, <3>4 DEF IInv
  <2>3. CASE Fail
    BY <2>0, <2>3, FailKeeps
  <2>4. \A there \in Found("core" \in tables) : there => "core" \in tables
    BY DEF Found
  <2> QED BY <1>2, <2>1, <2>2, <2>3, <2>4 DEF ResetCore
<1>4. CASE CreateTable /\ past' = past
  <2>1. CASE Order[step] \in tables
    BY <1>0, <1>4, <2>1, FailKeeps DEF CreateTable
  <2>2. CASE Order[step] \notin tables
    <3>1. step \in 1 .. 5 /\ pc = "create" /\ \A i \in 1 .. step - 1 : Order[i] \in tables
      BY <1>0, <1>4 DEF CreateTable, Place
    <3>2. Order[step] \in Created
      BY <3>1, Tables
    <3>3. /\ tables' = tables \cup {Order[step]}
          /\ UNCHANGED <<dialect, config, services, admin, core, stored, form>>
          /\ \/ step < 5 /\ step' = step + 1 /\ pc' = pc
             \/ step = 5 /\ step' = 1 /\ pc' = "admin"
      BY <1>4, <2>2, <3>1, Tables DEF CreateTable, Goto
    <3>4. Types'
      BY <1>0, <1>4, <3>1, <3>2, <3>3 DEF Types, Flags, Labels
    <3>8. "core" \in tables => step = 1 /\ "users" \in tables
      BY <1>0, <2>2, <3>1, Tables DEF Place, Contents
    <3>9. Order[step] = "core" => step = 5
      BY <3>1, Tables
    <3>5. Contents'
      <4>1. step = 5 => "users" \in tables
        BY <3>1, Tables
      <4> QED BY <1>0, <3>3, <3>8, <3>9, <4>1 DEF Contents
    <3>6. Place'
      <4>1. CASE step < 5
        <5>1. \A i \in 1 .. step' - 1 : Order[i] \in tables'
          BY <3>1, <3>3, <4>1
        <5>2. "core" \in tables' => step' \in {1, 2}
          BY <3>3, <3>8, <3>9, <4>1
        <5> QED BY <1>0, <1>4, <3>1, <3>3, <4>1, <5>1, <5>2 DEF Place
      <4>2. CASE step = 5
        <5>1. Created \subseteq tables'
          BY <3>1, <3>3, <4>2, Tables
        <5> QED BY <1>0, <1>4, <3>1, <3>3, <4>2, <5>1 DEF Place
      <4> QED BY <3>1, <4>1, <4>2
    <3>7. BackupsAre'
      <4>1. tables' \cap Backups = tables \cap Backups /\ past' = past /\ pc' # "migrate"
        BY <1>3, <1>4, <3>1, <3>2, <3>3
      <4>2. "core" \in tables => pc' = pc
        BY <3>3, <3>8
      <4> QED BY <1>0, <3>3, <4>1, <4>2 DEF BackupsAre, MigrationId
    <3> QED BY <3>4, <3>5, <3>6, <3>7 DEF IInv
  <2> QED BY <2>1, <2>2
<1>5. CASE CreateAdminUser /\ past' = past
  <2>0. Flags'
    BY <1>0, <1>5, Zenon DEF CreateAdminUser, Goto, Flags, Types, diskVars
  <2>1. Types'
    BY <1>0, <1>3, <1>5, <2>0 DEF CreateAdminUser, Goto, Types, Labels, diskVars
  <2>2. Contents'
    BY <1>0, <1>3, <1>5 DEF CreateAdminUser, Contents, Place, diskVars
  <2>3. Place'
    BY <1>0, <1>3, <1>5 DEF CreateAdminUser, Goto, Place, diskVars
  <2>4. BackupsAre'
    BY <1>0, <1>3, <1>5 DEF CreateAdminUser, Goto, BackupsAre, MigrationId, diskVars
  <2> QED BY <2>1, <2>2, <2>3, <2>4 DEF IInv
<1>6. CASE CoreSamples /\ past' = past
  <2>0. Flags'
    BY <1>0, <1>6, Zenon DEF CoreSamples, Goto, Flags, Types, diskVars
  <2>1. Types'
    BY <1>0, <1>3, <1>6, <2>0 DEF CoreSamples, Goto, Types, Labels, diskVars
  <2>2. Contents'
    BY <1>0, <1>3, <1>6 DEF CoreSamples, Contents, Place, diskVars
  <2>3. Place'
    BY <1>0, <1>3, <1>6 DEF CoreSamples, Goto, Place, diskVars
  <2>4. BackupsAre'
    BY <1>0, <1>3, <1>6 DEF CoreSamples, Goto, BackupsAre, MigrationId, diskVars
  <2> QED BY <2>1, <2>2, <2>3, <2>4 DEF IInv
<1>7. CASE Samples /\ past' = past
  <2>0. Flags'
    BY <1>0, <1>7, Zenon DEF Samples, Goto, Flags, Types
  <2>1. /\ "hits" \in tables /\ "failures" \in tables /\ "services" \in tables
        /\ UNCHANGED <<dialect, config, tables, admin, core, form>> /\ pc = "samples"
        /\ \/ pc' = "samples" /\ step' \in {2, 3}
           \/ step' = 1 /\ pc' = IF form THEN "automigrate" ELSE "changes"
    BY <1>0, <1>3, <1>7 DEF Samples, Goto, Place
  <2>2. /\ stored' \in [DataTables -> SUBSET Row]
        /\ \A t \in DataTables \ tables : stored'[t] = {}
    <3>1. CASE stored' = stored
      BY <1>0, <3>1 DEF Types, Contents
    <3>2. ASSUME NEW t \in {"hits", "failures"}, AddSample(t)
          PROVE  /\ stored' \in [DataTables -> SUBSET Row]
                 /\ \A u \in DataTables \ tables : stored'[u] = {}
      <4>1. t \in DataTables /\ t \in tables /\ stored[t] \cup {Measured(1)} \in SUBSET Row
        BY <1>0, <1>3, <2>1, ScalesInRow DEF Types
      <4>2. stored' = [stored EXCEPT ![t] = stored[t] \cup {Measured(1)}]
        BY <3>2 DEF AddSample
      <4> QED BY <1>0, <4>1, <4>2 DEF Types, Contents
    <3> QED BY <1>7, <3>1, <3>2 DEF Samples
  <2>3. Types'
    BY <1>0, <1>7, <2>0, <2>1, <2>2 DEF Types, Labels
  <2>4. Contents'
    BY <1>0, <2>1, <2>2 DEF Contents
  <2>5. Place'
    BY <1>0, <1>3, <1>7, <2>1 DEF Place
  <2>6. BackupsAre'
    BY <1>0, <1>7, <2>1 DEF BackupsAre, MigrationId
  <2> QED BY <2>3, <2>4, <2>5, <2>6 DEF IInv
<1>8. CASE Changes
  <2>1. PICK id \in {MigrationId, Old} :
          /\ past' = past \cup Missed(MigrationId, id, "unread")
          /\ UNCHANGED diskVars /\ step' = 1 /\ form' = form /\ pc = "changes"
          /\ pc' = IF Now > id THEN "migrate" ELSE "automigrate"
    BY <1>8 DEF Changes, Goto
  <2>2. MigrationId \in {Old, Now} /\ MigrationId' = MigrationId
    BY <1>0, <2>1 DEF MigrationId, Types, diskVars
  <2>3. /\ \/ pc' = "migrate" /\ ("unread" \notin past' => MigrationId = Old)
           \/ MigrationId = Now /\ pc' = "automigrate"
        /\ past \subseteq past' /\ past' \subseteq Marks
    BY <1>0, <2>1, <2>2 DEF Old, Now, Missed, Marks
  <2>4. Types'
    BY <1>0, <2>1, <2>3 DEF Types, Flags, Labels, diskVars
  <2>5. Contents'
    BY <1>0, <2>1 DEF Contents, diskVars
  <2>6. Place'
    BY <1>0, <2>1, <2>2, <2>3 DEF Place, Statements, diskVars
  <2>7. BackupsAre'
    BY <1>0, <2>1, <2>2, <2>3 DEF BackupsAre, Old, Now, diskVars
  <2> QED BY <2>4, <2>5, <2>6, <2>7 DEF IInv
<1>9. CASE Migrate /\ past' = past
  BY <1>9, MigrateStep
<1>10. CASE Mark /\ past' = past
  <2>0. Flags'
    BY <1>0, <1>10, Zenon DEF Mark, Goto, Flags, Types, diskVars
  <2>1. Types'
    BY <1>0, <1>3, <1>10, <2>0 DEF Mark, Goto, Types, Labels, diskVars
  <2>2. Contents'
    BY <1>0, <1>3, <1>10 DEF Mark, Contents, Place, diskVars
  <2>3. Place'
    BY <1>0, <1>3, <1>10 DEF Mark, Goto, Place, diskVars
  <2>4. BackupsAre'
    BY <1>0, <1>3, <1>10 DEF Mark, Goto, BackupsAre, MigrationId, diskVars
  <2> QED BY <2>1, <2>2, <2>3, <2>4 DEF IInv
<1>11. CASE MigrateDatabase
  <2>0. Flags'
    BY <1>0, <1>11, Zenon DEF MigrateDatabase, Goto, Flags, Types, diskVars
  <2>1. /\ \/ tables' = tables \cup Created
           \/ tables' = tables /\ "undone" \in past'
        /\ past \subseteq past' /\ past' \subseteq past \cup {"undone"} /\ "undone" \in Marks
        /\ "core" \in tables /\ pc = "automigrate"
        /\ pc' = IF form THEN "newcore" ELSE "init"
        /\ step' = 1
        /\ UNCHANGED <<dialect, config, services, admin, core, stored, form>>
    <3>1. "core" \in tables /\ pc = "automigrate"
      BY <1>0, <1>11 DEF MigrateDatabase, Place
    <3>2. "undone" \in Marks
      BY DEF Marks
    <3>3. /\ pc' = IF form THEN "newcore" ELSE "init"
          /\ step' = 1
          /\ UNCHANGED <<dialect, config, services, admin, core, stored, form>>
      BY <1>11 DEF MigrateDatabase, Goto
    <3>4. \/ tables' = tables \cup Created /\ past' = past
          \/ tables' = tables /\ past' = past \cup {"undone"}
      BY <1>11 DEF MigrateDatabase
    <3>5. /\ \/ tables' = tables \cup Created
             \/ tables' = tables /\ "undone" \in past'
          /\ past \subseteq past' /\ past' \subseteq past \cup {"undone"}
      BY <3>4
    <3> QED BY <3>1, <3>2, <3>3, <3>5
  <2>2. Types'
    BY <1>0, <2>0, <2>1 DEF Types, Labels
  <2>3. Contents'
    BY <1>0, <1>3, <2>1 DEF Contents
  <2>4. Place'
    <3>1. past' \cap {"unread", "undone"} = {} => tables' = Created
      BY <1>0, <1>3, <2>1 DEF BackupsAre, Types
    <3>2. "core" \in tables' /\ form' = form /\ config' = config /\ config
      BY <1>0, <2>1 DEF Place
    <3> QED BY <1>0, <2>1, <3>1, <3>2 DEF Place
  <2>5. BackupsAre'
    BY <1>0, <1>3, <2>1 DEF BackupsAre, MigrationId
  <2> QED BY <2>2, <2>3, <2>4, <2>5 DEF IInv
<1>20. CASE Fail /\ past' = past
  BY <1>0, <1>20, FailKeeps
<1>12. CASE (InitApp \/ Shutdown) /\ past' = past /\ ~Fail
  <2>0. Flags'
    BY <1>0, <1>12, Zenon DEF InitApp, Shutdown, Goto, Flags, Types, diskVars
  <2>1. Types'
    <3>1. UNCHANGED diskVars /\ pc' \in Labels /\ step' \in 0..8
      BY <1>12 DEF InitApp, Shutdown, Goto, Labels
    <3> QED BY <1>0, <1>12, <2>0, <3>1 DEF Types, diskVars
  <2>2. Contents'
    BY <1>0, <1>3, <1>12 DEF InitApp, Shutdown, Contents, Place, diskVars
  <2>3. Place'
    BY <1>0, <1>3, <1>12 DEF InitApp, Shutdown, Goto, Place, diskVars
  <2>4. BackupsAre'
    BY <1>0, <1>3, <1>12 DEF InitApp, Shutdown, Goto, BackupsAre, MigrationId, diskVars
  <2> QED BY <2>1, <2>2, <2>3, <2>4 DEF IInv
<1>13. CASE NewCore /\ past' = past
  <2>0. Flags'
    BY <1>0, <1>13, Zenon DEF NewCore, Goto, Flags, Types, diskVars
  <2>1. Types'
    BY <1>0, <1>3, <1>13, <2>0 DEF NewCore, Goto, Types, Labels, diskVars
  <2>2. Contents'
    BY <1>0, <1>3, <1>13 DEF NewCore, Contents, Place, diskVars
  <2>3. Place'
    BY <1>0, <1>3, <1>13 DEF NewCore, Goto, Place, diskVars
  <2>4. BackupsAre'
    BY <1>0, <1>3, <1>13 DEF NewCore, Goto, BackupsAre, MigrationId, diskVars
  <2> QED BY <2>1, <2>2, <2>3, <2>4 DEF IInv
<1>14. CASE Serve /\ past' = past
  <2>0. Flags'
    BY <1>0, <1>14, Zenon DEF Serve, procVars, Goto, Flags, Types, diskVars
  <2>1. Types'
    <3>1. stored' \in [DataTables -> SUBSET Row]
      <4>1. PICK t \in {"hits", "failures"} :
              stored' = [stored EXCEPT ![t] = @ \cup {Measured(1)}]
        BY <1>14 DEF Serve
      <4>2. t \in DataTables /\ stored \in [DataTables -> SUBSET Row]
        BY <1>0, <1>3 DEF Types
      <4>3. stored[t] \cup {Measured(1)} \in SUBSET Row
        BY <4>2, ScalesInRow
      <4> QED BY <4>1, <4>2, <4>3
    <3> QED BY <1>0, <1>14, <2>0, <3>1 DEF Serve, procVars, Types
  <2>2. Contents'
    BY <1>0, <1>3, <1>14 DEF Serve, procVars, Contents, Place, diskVars
  <2>3. Place'
    BY <1>0, <1>3, <1>14 DEF Serve, procVars, Goto, Place, diskVars
  <2>4. BackupsAre'
    BY <1>0, <1>3, <1>14 DEF Serve, procVars, Goto, BackupsAre, MigrationId, diskVars
  <2> QED BY <2>1, <2>2, <2>3, <2>4 DEF IInv
<1>15. CASE ProcessSetup
  <2>0. Flags'
    BY <1>0, <1>15, Zenon DEF ProcessSetup, Goto, Flags, Types, diskVars
  <2>1. /\ UNCHANGED <<dialect, core, stored, admin>> /\ pc = "setup"
        /\ step' = 1 /\ form' = TRUE /\ config' = TRUE
        /\ past \subseteq past' /\ past' \subseteq Marks /\ "form" \in past'
        /\ \/ pc' = "automigrate" /\ "core" \in tables /\ UNCHANGED <<tables, services>>
           \/ pc' = "create" /\ tables' = tables \ {"services"} /\ services' = FALSE
    BY <1>0, <1>15 DEF ProcessSetup, Found, Missed, Marks
  <2>2. Types'
    BY <1>0, <2>0, <2>1 DEF Types, Labels
  <2>3. Contents'
    BY <1>0, <1>3, <2>1 DEF Contents
  <2>4. Place'
    BY <1>0, <1>3, <2>1 DEF Place
  <2>5. BackupsAre'
    BY <1>0, <1>3, <2>1 DEF BackupsAre, MigrationId
  <2> QED BY <2>2, <2>3, <2>4, <2>5 DEF IInv
<1>16. Stops => past \subseteq past' /\ past' \subseteq Marks
  BY <1>0 DEF Stops, Marks
<1>17. CASE Crash
  <2>0. Flags'
    BY <1>0, <1>17, Zenon DEF Crash, Goto, Flags, Types, diskVars
  <2>1. Types'
    BY <1>0, <1>3, <1>17, <1>16, <2>0 DEF Crash, Goto, Types, Labels, diskVars
  <2>2. Contents'
    BY <1>0, <1>3, <1>17 DEF Crash, Contents, Place, diskVars
  <2>3. Place'
    BY <1>0, <1>3, <1>17, <1>16 DEF Crash, Goto, Place, diskVars
  <2>4. BackupsAre'
    BY <1>0, <1>3, <1>16, <1>17 DEF Crash, Goto, BackupsAre, MigrationId, Place, diskVars
  <2> QED BY <2>1, <2>2, <2>3, <2>4 DEF IInv
<1>18. CASE Error
  BY <1>0, <1>16, <1>18, FailKeeps DEF Error
<1>19. CASE UNCHANGED vars
  <2>1. UNCHANGED <<dialect, config, tables, services, admin, core, stored, pc, step, form, past>>
    BY <1>19 DEF vars, diskVars, procVars
  <2>2. Types'
    BY <1>0, <2>1 DEF Types, Flags
  <2>3. Contents' /\ Place'
    BY <1>0, <2>1 DEF Contents, Place, Statements, MigrationId
  <2>4. BackupsAre'
    BY <1>0, <2>1 DEF BackupsAre, MigrationId
  <2> QED BY <2>2, <2>3, <2>4 DEF IInv
<1> QED
  BY <1>1, <1>2, <1>4, <1>5, <1>6, <1>7, <1>8, <1>9, <1>10, <1>11, <1>12, <1>13, <1>14,
     <1>15, <1>17, <1>18, <1>19, <1>20 DEF Next, Proceed

LEMMA PastGrows ==
  ASSUME [Next]_vars
  PROVE  past \subseteq past'
  BY DEF Next, vars, ResetCore, Changes, MigrateDatabase, ProcessSetup, Crash, Error, Stops

LEMMA Inductive == Spec => []IInv
  BY InitInv, InvStep, PTL DEF Spec

(* What the tables hold fits together, and a server that runs has all of   *)
(* its tables and no backup, whatever statements failed before, unless it  *)
(* migrated without having read the migration id or its tables' migration  *)
(* was rolled back (CreateDatabase, sqliteMigration, MigrateDatabase).     *)
THEOREM TypeCorrect == Spec => []TypeOK
  BY Inductive, TypeParts, PTL

-----------------------------------------------------------------------------
(* An administrator. *)

(* A core row comes after the administrator, but for the setup form, which *)
(* finds a core table and writes one of its own.                           *)
AdminFirst ==
  "form" \notin past =>
    /\ core # <<>> => admin
    /\ pc \in {"corerow", "samples"} => admin

LEMMA AdminFirstInit ==
  ASSUME Init
  PROVE  AdminFirst
<1>1. PICK kind \in Databases : DatabaseIs(kind)
  BY DEF Init
<1>2. kind \in {"empty", "old", "current", "coreless"}
  BY DatabasesAssumption
<1>3. core # <<>> => admin
  BY <1>1, <1>2 DEF DatabaseIs
<1> QED BY <1>3 DEF AdminFirst, Init

LEMMA AdminFirstStep ==
  ASSUME IInv, AdminFirst, [Next]_vars
  PROVE  AdminFirst'
<1>0. Place /\ past \subseteq past'
  BY PastGrows DEF IInv
<1> SUFFICES ASSUME "form" \notin past'
             PROVE  AdminFirst'
  BY DEF AdminFirst
<1>1. "form" \notin past /\ ~form /\ pc # "newcore"
  BY <1>0 DEF Place
<1>2. ASSUME Fail
      PROVE  AdminFirst'
  BY <1>1, <1>2 DEF Fail, diskVars, AdminFirst
<1>3. CASE Start \/ Changes \/ InitApp \/ Shutdown \/ Crash
  BY <1>1, <1>2, <1>3 DEF Start, Changes, InitApp, Shutdown, Crash, Goto, diskVars, AdminFirst
<1>4. CASE ResetCore
  BY <1>1, <1>2, <1>4 DEF ResetCore, DropDatabase, Goto, diskVars, AdminFirst
<1>5. CASE CreateTable
  <2>1. CASE Order[step] \notin tables
    BY <1>1, <1>5, <2>1 DEF CreateTable, Goto, AdminFirst
  <2> QED BY <1>2, <1>5, <2>1 DEF CreateTable
<1>6. CASE CreateAdminUser
  BY <1>6 DEF CreateAdminUser, AdminFirst
<1>7. CASE CoreSamples \/ Samples \/ MigrateDatabase \/ Serve
  BY <1>1, <1>7 DEF CoreSamples, Samples, MigrateDatabase, Serve, Goto, procVars, AdminFirst
<1>8. CASE Migrate
  <2>1. CASE Did
    BY <1>0, <1>1, <1>8, <2>1, StatementIs DEF Did, Goto, AdminFirst
  <2>2. Did \/ Fail
    BY <1>0, <1>8, StatementIs
    DEF SqliteStatement, GenericStatement, Rename, Create, Insert, Drop, Update, Run, Did
  <2> QED BY <1>2, <2>1, <2>2
<1>9. CASE Mark
  <2>1. core' # <<>> => core # <<>>
    BY <1>9 DEF Mark
  <2> QED BY <1>1, <1>9, <2>1 DEF Mark, Goto, AdminFirst
<1>10. CASE NewCore \/ ProcessSetup
  BY <1>1, <1>10 DEF NewCore, ProcessSetup
<1>11. CASE Error
  BY <1>2, <1>11 DEF Error
<1>12. CASE UNCHANGED vars
  BY <1>12 DEF vars, diskVars, procVars, AdminFirst
<1> QED
  BY <1>3, <1>4, <1>5, <1>6, <1>7, <1>8, <1>9, <1>10, <1>11, <1>12 DEF Next, Proceed

(* However often starts fail or are cut short, a database with a core row  *)
(* has an administrator, unless the setup form was used.                   *)
THEOREM AdminComesFirst == Spec => []SettledHasAdmin
<1>1. AdminFirst => SettledHasAdmin
  BY DEF AdminFirst, SettledHasAdmin
<1> QED BY <1>1, Inductive, AdminFirstInit, AdminFirstStep, PTL DEF Spec

-----------------------------------------------------------------------------
(* Services. *)

(* Services without a core table were there when the database was found:   *)
(* no creation, migration or form, cut short anywhere, leaves a database   *)
(* so.                                                                     *)
Coreless == "core" \notin tables /\ services => "coreless" \in past

LEMMA CorelessInit ==
  ASSUME Init
  PROVE  Coreless
<1>1. PICK kind \in Databases :
        DatabaseIs(kind) /\ past = IF kind = "coreless" THEN {"coreless"} ELSE {}
  BY DEF Init
<1>2. kind \in {"empty", "old", "current", "coreless"}
  BY DatabasesAssumption
<1>3. CASE kind = "coreless"
  BY <1>1, <1>3 DEF Coreless
<1>4. CASE kind = "empty"
  BY <1>1, <1>4 DEF DatabaseIs, Coreless
<1>5. CASE kind \in {"old", "current"}
  BY <1>1, <1>5, Tables DEF DatabaseIs, Coreless
<1> QED BY <1>2, <1>3, <1>4, <1>5

Lost ==
  services /\ ~services' =>
    \/ "uncounted" \in past'
    \/ pc = "setup" /\ past' \cap {"coreless", "unseen"} # {}

LEMMA CorelessStep ==
  ASSUME IInv, Coreless, [Next]_vars
  PROVE  Coreless' /\ Lost
<1>0. Place /\ Types /\ Contents /\ past \subseteq past'
  BY PastGrows DEF IInv
<1>1. ASSUME Fail
      PROVE  Coreless' /\ Lost
  BY <1>0, <1>1 DEF Fail, diskVars, Coreless, Lost
<1>2. CASE Start \/ Changes \/ InitApp \/ Shutdown \/ Crash
  BY <1>0, <1>1, <1>2
  DEF Start, Changes, InitApp, Shutdown, Crash, Goto, diskVars, Coreless, Lost
<1>3. CASE ResetCore
  <2>1. CASE UNCHANGED diskVars
    BY <1>0, <2>1 DEF diskVars, Coreless, Lost
  <2>2. CASE Fail
    BY <1>1, <2>2
  <2>3. CASE DropDatabase /\ \E there \in Found("core" \in tables), some \in Found(services) :
               /\ past' = past \cup Missed("core" \in tables, there, "unseen")
                               \cup Missed(services, some, "uncounted")
               /\ ~some
    <3>1. services => "uncounted" \in past'
      BY <2>3 DEF Missed
    <3>2. services' = FALSE
      BY <2>3 DEF DropDatabase
    <3> QED BY <3>1, <3>2 DEF Coreless, Lost
  <2> QED BY <1>3, <2>1, <2>2, <2>3 DEF ResetCore
<1>4. CASE CreateTable
  <2>1. CASE Order[step] \notin tables
    <3>1. tables' = tables \cup {Order[step]} /\ services' = services
      BY <1>4, <2>1 DEF CreateTable
    <3> QED BY <1>0, <3>1 DEF Coreless, Lost
  <2> QED BY <1>1, <1>4, <2>1 DEF CreateTable
<1>5. CASE CreateAdminUser \/ CoreSamples \/ Mark \/ NewCore
  BY <1>0, <1>5 DEF CreateAdminUser, CoreSamples, Mark, NewCore, Goto, Coreless, Lost
<1>6. CASE Samples \/ Serve
  <2>1. "core" \in tables /\ tables' = tables
    BY <1>0, <1>6, Tables DEF Samples, Serve, Place
  <2>2. services => services'
    BY <1>6 DEF Samples, Serve
  <2> QED BY <2>1, <2>2 DEF Coreless, Lost
<1>7. CASE MigrateDatabase
  BY <1>0, <1>7 DEF MigrateDatabase, Coreless, Lost
<1>8. CASE Migrate
  <2>1. pc = "migrate" /\ "core" \in tables
    BY <1>0, <1>8 DEF Place, Migrate
  <2>2. CASE Did
    <3>1. "core" \in tables'
      <4>1. Fail \/ \E t, b \in DataTables :
              tables' \in {tables, (tables \ {t}) \cup {b}, tables \cup {t}, tables \ {t}}
        BY <1>0, <1>8, StatementIs
        DEF SqliteStatement, GenericStatement, Rename, Create, Insert, Drop, Update, Run,
            DataTables, Backups
      <4> QED BY <2>1, <4>1 DEF Fail, diskVars, DataTables, Backups
    <3> QED BY <2>2, <3>1 DEF Did, Coreless, Lost
  <2>3. Did \/ Fail
    BY <1>0, <1>8, StatementIs
    DEF SqliteStatement, GenericStatement, Rename, Create, Insert, Drop, Update, Run, Did
  <2> QED BY <1>1, <2>2, <2>3
<1>9. CASE ProcessSetup
  <2>1. PICK there \in Found("core" \in tables) :
          /\ past' = past \cup {"form"} \cup Missed("core" \in tables, there, "unseen")
          /\ there => UNCHANGED <<tables, services>>
          /\ ~there => services' = FALSE
    BY <1>9 DEF ProcessSetup
  <2>2. CASE there
    <3>1. tables' = tables /\ services' = services
      BY <2>1, <2>2
    <3> QED BY <1>0, <3>1 DEF Coreless, Lost
  <2>3. CASE ~there
    <3>1. "core" \in tables => "unseen" \in past'
      BY <2>1, <2>3 DEF Missed
    <3>2. pc = "setup"
      BY <1>9 DEF ProcessSetup
    <3> QED BY <1>0, <2>1, <2>3, <3>1, <3>2 DEF Coreless, Lost
  <2> QED BY <2>2, <2>3
<1>10. CASE Error
  BY <1>1, <1>10 DEF Error
<1>11. CASE UNCHANGED vars
  BY <1>11 DEF vars, diskVars, procVars, Coreless, Lost
<1> QED
  BY <1>2, <1>3, <1>4, <1>5, <1>6, <1>7, <1>8, <1>9, <1>10, <1>11 DEF Next, Proceed

(* Wherever statements fail or the process ends, no start drops services   *)
(* it could count, and no setup form drops those of a database that was    *)
(* not found without a core table, unless it is hidden by an error.        *)
THEOREM ServicesAreKept == Spec => KeepsServices
<1>1. IInv /\ Coreless /\ [Next]_vars => Coreless' /\ [Lost]_vars
  BY CorelessStep
<1> QED BY <1>1, Inductive, CorelessInit, PTL DEF Spec, KeepsServices, Lost

-----------------------------------------------------------------------------
(* Hits and failures. *)

(* When sqliteMigration comes to drop a backup, its rows are in the table. *)
Copied ==
  pc = "migrate" /\ dialect = "sqlite" =>
    /\ step > 3 /\ stored["hits_backup"] # {} => stored["hits"] # {}
    /\ step > 6 /\ stored["failures_backup"] # {} => stored["failures"] # {}

Kept ==
  /\ Rows("hits", "hits_backup") # {} => Rows("hits", "hits_backup")' # {}
  /\ Rows("failures", "failures_backup") # {} => Rows("failures", "failures_backup")' # {}

(* What only adds rows. *)
LEMMA AddedIsKept ==
  ASSUME \A t \in DataTables : stored[t] \subseteq stored'[t]
  PROVE  Kept
<1>1. {"hits", "failures", "hits_backup", "failures_backup"} = DataTables
  BY DEF DataTables, Backups
<1> QED BY <1>1 DEF Kept, Rows

LEMMA CopiedStatement ==
  ASSUME IInv, Copied, Did, pc = "migrate", SqliteStatement, ~Fail,
         dialect = "sqlite", Statements = 8
  PROVE  Copied' /\ Kept
<1>0. /\ Types /\ Contents /\ step \in 1 .. 8
      /\ stored \in [DataTables -> SUBSET Row]
      /\ \A t \in DataTables \ tables : stored[t] = {}
      /\ {"hits", "failures", "hits_backup", "failures_backup"} = DataTables
  BY DEF IInv, Types, Contents, Place, DataTables, Backups
<1>1. /\ dialect' = dialect
      /\ step < 8 => step' = step + 1 /\ pc' = pc
      /\ step = 8 => pc' = "mark"
  BY <1>0 DEF Did, Goto
<1>2. CASE step = 1 /\ Rename("hits", "hits_backup")
  <2>1. /\ stored["hits_backup"] = {} /\ step' = 2
        /\ stored' = [stored EXCEPT !["hits_backup"] = stored["hits"], !["hits"] = {}]
    BY <1>0, <1>1, <1>2 DEF Rename, Run
  <2>2. /\ stored'["hits_backup"] = stored["hits"]
        /\ stored'["failures"] = stored["failures"]
        /\ stored'["failures_backup"] = stored["failures_backup"]
    BY <1>0, <2>1
  <2>3. stored["hits_backup"] = {} /\ step' = 2
    BY <2>1
  <2>4. Kept
    BY <2>2, <2>3 DEF Kept, Rows
  <2> QED BY <2>3, <2>4 DEF Copied
<1>3. CASE step = 4 /\ Rename("failures", "failures_backup")
  <2>1. /\ stored["failures_backup"] = {} /\ step' = 5
        /\ stored' = [stored EXCEPT !["failures_backup"] = stored["failures"], !["failures"] = {}]
    BY <1>0, <1>1, <1>3 DEF Rename, Run
  <2>2. /\ stored'["failures_backup"] = stored["failures"]
        /\ stored'["hits"] = stored["hits"]
        /\ stored'["hits_backup"] = stored["hits_backup"]
    BY <1>0, <2>1
  <2>3. stored["failures_backup"] = {} /\ step = 4 /\ step' = 5 /\ pc' = pc /\ dialect' = dialect
    BY <1>1, <1>3, <2>1
  <2>4. Kept
    BY <2>2, <2>3 DEF Kept, Rows
  <2>5. stored'["hits_backup"] # {} => stored'["hits"] # {}
    BY <2>2, <2>3 DEF Copied
  <2> QED BY <2>3, <2>4, <2>5 DEF Copied
<1>4. CASE step \in {2, 5} /\ stored' = stored
  <2>1. step' = step + 1 /\ step' \in {3, 6}
    BY <1>1, <1>4
  <2> QED BY <1>4, <2>1 DEF Kept, Rows, Copied
<1>5. CASE step = 3 /\ Insert("hits", "hits_backup")
  <2>1. step' = 4 /\ stored' = [stored EXCEPT !["hits"] = @ \cup Scaled(stored["hits_backup"])]
    BY <1>1, <1>5 DEF Insert, Run
  <2>2. /\ stored'["hits"] = stored["hits"] \cup Scaled(stored["hits_backup"])
        /\ stored'["hits_backup"] = stored["hits_backup"]
        /\ stored'["failures"] = stored["failures"]
        /\ stored'["failures_backup"] = stored["failures_backup"]
    BY <1>0, <2>1
  <2>3. stored["hits_backup"] # {} => Scaled(stored["hits_backup"]) # {}
    BY ScalesAll
  <2> QED BY <2>1, <2>2, <2>3 DEF Kept, Rows, Copied
<1>6. CASE step = 6 /\ Insert("failures", "failures_backup")
  <2>1. step' = 7 /\ stored' = [stored EXCEPT !["failures"] = @ \cup Scaled(stored["failures_backup"])]
    BY <1>1, <1>6 DEF Insert, Run
  <2>2. /\ stored'["failures"] = stored["failures"] \cup Scaled(stored["failures_backup"])
        /\ stored'["failures_backup"] = stored["failures_backup"]
        /\ stored'["hits"] = stored["hits"]
        /\ stored'["hits_backup"] = stored["hits_backup"]
    BY <1>0, <2>1
  <2>3. stored["failures_backup"] # {} => Scaled(stored["failures_backup"]) # {}
    BY ScalesAll
  <2> QED BY <1>6, <2>1, <2>2, <2>3 DEF Kept, Rows, Copied
<1>7. CASE step = 7 /\ Drop("hits_backup")
  <2>1. step' = 8 /\ stored' = [stored EXCEPT !["hits_backup"] = {}]
    BY <1>1, <1>7 DEF Drop, Run
  <2>2. /\ stored'["hits"] = stored["hits"] /\ stored'["hits_backup"] = {}
        /\ stored'["failures"] = stored["failures"]
        /\ stored'["failures_backup"] = stored["failures_backup"]
    BY <1>0, <2>1
  <2> QED BY <1>7, <2>1, <2>2 DEF Kept, Rows, Copied
<1>8. CASE step = 8 /\ Drop("failures_backup")
  <2>1. pc' = "mark" /\ stored' = [stored EXCEPT !["failures_backup"] = {}]
    BY <1>1, <1>8 DEF Drop, Run
  <2>2. /\ stored'["hits"] = stored["hits"] /\ stored'["failures"] = stored["failures"]
        /\ stored'["hits_backup"] = stored["hits_backup"]
    BY <1>0, <2>1
  <2> QED BY <1>8, <2>1, <2>2 DEF Kept, Rows, Copied
<1> QED
  BY <1>2, <1>3, <1>4, <1>5, <1>6, <1>7, <1>8 DEF SqliteStatement, Create, Run

LEMMA CopiedStep ==
  ASSUME IInv, Copied, [Next]_vars
  PROVE  Copied' /\ Kept
<1>0. /\ Types /\ Contents /\ Place
      /\ stored \in [DataTables -> SUBSET Row]
      /\ {"hits", "failures", "hits_backup", "failures_backup"} = DataTables
  BY DEF IInv, Types, DataTables, Backups
<1>1. ASSUME stored' = stored, step' = 1 \/ pc' # "migrate"
      PROVE  Copied' /\ Kept
  BY <1>1 DEF Copied, Kept, Rows
<1>2. ASSUME Fail
      PROVE  Copied' /\ Kept
  BY <1>1, <1>2 DEF Fail, diskVars
<1>3. CASE Start \/ Changes \/ InitApp \/ Shutdown \/ Crash
  BY <1>1, <1>2, <1>3 DEF Start, Changes, InitApp, Shutdown, Crash, Goto, diskVars
<1>4. CASE ResetCore
  BY <1>1, <1>2, <1>4 DEF ResetCore, DropDatabase, Goto, diskVars
<1>5. CASE CreateTable
  <2>1. CASE Order[step] \notin tables
    BY <1>1, <1>5, <2>1 DEF CreateTable, Goto
  <2> QED BY <1>2, <1>5, <2>1 DEF CreateTable
<1>6. CASE CreateAdminUser \/ CoreSamples \/ Mark \/ NewCore \/ MigrateDatabase \/ ProcessSetup
  BY <1>1, <1>6 DEF CreateAdminUser, CoreSamples, Mark, NewCore, MigrateDatabase, ProcessSetup, Goto
<1>7. CASE Samples
  <2>1. \A t \in DataTables : stored[t] \subseteq stored'[t]
    <3>1. CASE stored' = stored
      BY <3>1
    <3>2. CASE AddSample("hits") \/ AddSample("failures")
      BY <1>0, <3>2 DEF AddSample
    <3> QED BY <1>7, <3>1, <3>2 DEF Samples
  <2>2. pc' # "migrate"
    BY <1>7 DEF Samples, Goto
  <2> QED BY <2>1, <2>2, AddedIsKept DEF Copied
<1>8. CASE Serve
  <2>1. PICK t \in {"hits", "failures"} : stored' = [stored EXCEPT ![t] = @ \cup {Measured(1)}]
    BY <1>8 DEF Serve
  <2>2. \A u \in DataTables : stored[u] \subseteq stored'[u]
    BY <1>0, <2>1
  <2>3. pc' # "migrate"
    BY <1>8 DEF Serve, procVars
  <2> QED BY <2>2, <2>3, AddedIsKept DEF Copied
<1>9. CASE Migrate
  <2>1. CASE dialect # "sqlite" /\ GenericStatement /\ ~Fail
    <3>1. PICK t \in {"hits", "failures"} :
            \/ Update(t, Latency(stored[t]))
            \/ Update(t, Ping(stored[t]))
      BY <2>1 DEF GenericStatement
    <3>2. PICK rows : stored' = [stored EXCEPT ![t] = rows] /\ (stored[t] # {} => rows # {})
      BY <2>1, <3>1, ScalesAll DEF Update, Run
    <3>3. Did
      BY <2>1, <3>1 DEF Update, Run, Did
    <3>4. dialect' # "sqlite"
      BY <2>1, <3>3 DEF Did
    <3>5. \A u \in DataTables : stored[u] # {} => stored'[u] # {}
      BY <1>0, <3>2
    <3> QED BY <1>0, <3>4, <3>5 DEF Copied, Kept, Rows
  <2>2. CASE dialect = "sqlite" /\ Statements = 8 /\ SqliteStatement /\ ~Fail
    <3>1. Did /\ pc = "migrate"
      BY <1>9, <2>2 DEF SqliteStatement, Rename, Create, Insert, Drop, Run, Did, Migrate
    <3> QED BY <2>2, <3>1, CopiedStatement
  <2> QED BY <1>0, <1>2, <1>9, <2>1, <2>2, StatementIs
<1>10. CASE Error
  BY <1>2, <1>10 DEF Error
<1>11. CASE UNCHANGED vars
  <2>1. UNCHANGED <<dialect, stored, pc, step>>
    BY <1>11 DEF vars, diskVars, procVars
  <2> QED BY <2>1 DEF Copied, Kept, Rows
<1> QED
  BY <1>3, <1>4, <1>5, <1>6, <1>7, <1>8, <1>9, <1>10, <1>11 DEF Next, Proceed

(* Nor are hits or failures lost: at every step of every migration they    *)
(* are in their table or in its backup.                                    *)
THEOREM MeasurementsAreKept == Spec => KeepsMeasurements
<1>1. Init => Copied
  BY DEF Init, Copied
<1>2. IInv /\ Copied /\ [Next]_vars => Copied' /\ [Kept]_vars
  BY CopiedStep
<1> QED BY <1>1, <1>2, Inductive, PTL DEF Spec, KeepsMeasurements, Kept

-----------------------------------------------------------------------------
(* Unless cut at a delicate place, given a setup form, or migrated without *)
(* its migration id read: what a database can be while a start is          *)
(* somewhere, from the empty one to the one that is served.                *)

Calm == past \cap {"cut", "unread", "form"} = {}

Of(t, k) == \A r \in stored[t] : r = Measured(k)
Right == Of("hits", 1) /\ \A r \in stored["failures"] : r.ping = 1
OneRow(id) == Len(core) = 1 /\ core[1] = id

Empty == tables \subseteq {"services"} /\ core = <<>> /\ pc \in {"down", "setup", "reset"}

Creating ==
  /\ pc \in {"create", "admin", "corerow"} /\ core = <<>>
  /\ \A t \in DataTables : stored[t] = {}
  /\ pc = "create" => tables = {Order[i] : i \in 1 .. step - 1}

Settled ==
  /\ pc \in {"down", "setup", "reset", "create", "samples", "changes", "automigrate",
             "init", "up"}
  /\ "core" \in tables /\ OneRow(Now) /\ Right

Aged ==
  /\ pc \in {"down", "setup", "reset", "create", "changes"}
  /\ {"hits", "failures", "core"} \subseteq tables /\ tables \cap Backups = {}
  /\ OneRow(Old) /\ Of("hits", 0) /\ Of("failures", 0)

(* Before the statements of the two migrations. *)
SqliteAt ==
  /\ "hits" \in tables <=> step # 2
  /\ "failures" \in tables <=> step # 5
  /\ "hits_backup" \in tables <=> step \in 2 .. 7
  /\ "failures_backup" \in tables <=> step > 4
  /\ Of("hits_backup", 0) /\ Of("failures_backup", 0)
  /\ Of("hits", IF step < 3 THEN 0 ELSE 1)
  /\ Of("failures", IF step < 5 THEN 0 ELSE 1)
  /\ step = 3 => stored["hits"] = {}
  /\ step = 6 => stored["failures"] = {}

GenericAt ==
  /\ {"hits", "failures"} \subseteq tables
  /\ \A r \in stored["hits"] : /\ r.latency = IF step = 1 THEN 0 ELSE 1
                               /\ r.ping = IF step < 3 THEN 0 ELSE 1
  /\ Of("failures", 0)

Migrating ==
  /\ pc = "migrate" /\ "core" \in tables /\ OneRow(Old)
  /\ IF dialect = "sqlite" THEN SqliteAt ELSE GenericAt

Marking == pc = "mark" /\ "core" \in tables /\ OneRow(Old) /\ Right

(* A creation that was cut short once it had created users, and a database *)
(* found without a core table: every creation finds that table and fails.  *)
HalfMade ==
  /\ "users" \in tables /\ "core" \notin tables
  /\ pc \in {"down", "setup", "reset", "create"}
  /\ pc = "create" => step \in {1, 2}

(* A sqliteMigration that was cut short once it had a backup: every later  *)
(* one fails at the first backup it finds, before it copies a row twice.   *)
HalfMoved ==
  /\ tables \cap Backups # {} /\ pc \in {"down", "reset", "create", "changes", "migrate"}
  /\ pc = "migrate" => step = 1 \/ (step \in {2, 3, 4} /\ "failures_backup" \in tables)

Undisturbed ==
  Calm => \/ Empty \/ Creating \/ Settled \/ Aged \/ Migrating \/ Marking
          \/ HalfMade \/ HalfMoved

LEMMA ScalesOnce ==
  ASSUME NEW rows
  PROVE  /\ (\A r \in rows : r = Measured(0)) => \A r \in Scaled(rows) : r = Measured(1)
         /\ (\A r \in rows : r = Measured(0)) => \A r \in Ping(rows) : r.ping = 1
<1>1. Up(0) = 1
  BY DEF Up, MaxScale
<1> DEFINE mid == [latency |-> 1, ping |-> 0]
<1>2. [Measured(0) EXCEPT !.latency = Up(@)] = mid
  BY <1>1 DEF Measured
<1>3. [mid EXCEPT !.ping = Up(@)] = Measured(1) /\ [Measured(0) EXCEPT !.ping = Up(@)].ping = 1
  BY <1>1 DEF Measured
<1>4. ASSUME \A r \in rows : r = Measured(0)
      PROVE  \A r \in Latency(rows) : r = mid
  BY <1>2, <1>4 DEF Latency
<1>5. ASSUME NEW s, \A r \in s : r = mid
      PROVE  \A r \in Ping(s) : r = Measured(1)
  BY <1>3, <1>5 DEF Ping
<1>6. ASSUME \A r \in rows : r = Measured(0)
      PROVE  \A r \in Ping(rows) : r.ping = 1
  BY <1>3, <1>6 DEF Ping
<1> QED BY <1>4, <1>5, <1>6 DEF Scaled

LEMMA UndisturbedInit ==
  ASSUME Init
  PROVE  Undisturbed
<1>1. PICK kind \in Databases : DatabaseIs(kind)
  BY DEF Init
<1>2. kind \in {"empty", "old", "current", "coreless"}
  BY DatabasesAssumption
<1>3. pc = "down"
  BY DEF Init
<1>4. Len(<<Old>>) = 1 /\ <<Old>>[1] = Old /\ Len(<<Now>>) = 1 /\ <<Now>>[1] = Now
  OBVIOUS
<1>5. ASSUME NEW k, stored \in RowsOfScale(k)
      PROVE  Of("hits", k) /\ Of("failures", k)
  BY <1>5 DEF RowsOfScale, Of, DataTables
<1>6. CASE kind = "empty"
  BY <1>1, <1>3, <1>6 DEF DatabaseIs, Empty, Undisturbed
<1>7. CASE kind = "old"
  <2>1. {"hits", "failures", "core"} \subseteq Created /\ Created \cap Backups = {}
    BY Tables DEF Backups
  <2> QED BY <1>1, <1>3, <1>4, <1>5, <1>7, <2>1 DEF DatabaseIs, Aged, OneRow, Undisturbed
<1>8. CASE kind = "current"
  <2>1. tables = Created /\ core = <<Now>> /\ Of("hits", 1) /\ Of("failures", 1)
    BY <1>1, <1>5, <1>8 DEF DatabaseIs
  <2>2. Right
    BY <2>1 DEF Right, Of, Measured
  <2> QED BY <1>3, <1>4, <2>1, <2>2, Tables DEF Settled, OneRow, Undisturbed
<1>9. CASE kind = "coreless"
  BY <1>1, <1>3, <1>9, Tables DEF DatabaseIs, HalfMade, Undisturbed
<1> QED BY <1>2, <1>6, <1>7, <1>8, <1>9

(* The rows a statement of sqliteMigration reads and writes. *)
LEMMA SqliteScales ==
  ASSUME IInv, Migrating, dialect = "sqlite", Statements = 8, SqliteStatement
  PROVE  ~Fail /\ (Migrating' \/ Marking')
<1>0. /\ stored \in [DataTables -> SUBSET Row] /\ step \in 1 .. 8 /\ SqliteAt
      /\ {"hits", "failures", "hits_backup", "failures_backup"} = DataTables
      /\ "core" \in tables /\ OneRow(Old) /\ pc = "migrate" /\ ~form
  BY DEF IInv, Types, Place, DataTables, Backups, Migrating
<1>1. /\ "hits" \in tables <=> step # 2
      /\ "failures" \in tables <=> step # 5
      /\ "hits_backup" \in tables <=> step \in 2 .. 7
      /\ "failures_backup" \in tables <=> step > 4
  BY <1>0 DEF SqliteAt
<1>2. ~Fail /\ Did
  <2>1. Did
    BY <1>0, <1>1
    DEF SqliteStatement, Rename, Create, Insert, Drop, Run, Did
  <2>2. step' # 0
    BY <1>0, <2>1 DEF Did, Goto
  <2> QED BY <2>1, <2>2 DEF Fail
<1>3. /\ dialect' = dialect /\ core' = core
      /\ step < 8 => step' = step + 1 /\ pc' = "migrate"
      /\ step = 8 => pc' = "mark"
  BY <1>0, <1>2 DEF Did, Goto
<1>4. OneRow(Old)'
  BY <1>0, <1>3 DEF OneRow
<1>5. ASSUME SqliteAt', step < 8, "core" \in tables'
      PROVE  Migrating'
  BY <1>3, <1>4, <1>5 DEF Migrating
<1>6. CASE step = 1 /\ Rename("hits", "hits_backup")
  <2>1. /\ tables' = (tables \ {"hits"}) \cup {"hits_backup"}
        /\ stored' = [stored EXCEPT !["hits_backup"] = stored["hits"], !["hits"] = {}]
    BY <1>2, <1>6 DEF Rename, Run
  <2>2. /\ stored'["hits_backup"] = stored["hits"] /\ stored'["hits"] = {}
        /\ stored'["failures"] = stored["failures"]
        /\ stored'["failures_backup"] = stored["failures_backup"]
    BY <1>0, <2>1
  <2>3. step' = 2 /\ step = 1
    BY <1>3, <1>6
  <2>4. /\ "hits" \in tables' <=> step' # 2
        /\ "failures" \in tables' <=> step' # 5
        /\ "hits_backup" \in tables' <=> step' \in 2 .. 7
        /\ "failures_backup" \in tables' <=> step' > 4
    BY <1>1, <2>1, <2>3
  <2>5. SqliteAt'
    BY <1>0, <2>2, <2>3, <2>4 DEF SqliteAt, Of
  <2> QED BY <1>0, <1>2, <1>5, <2>1, <2>3, <2>5
<1>7. CASE step = 2 /\ Create("hits")
  <2>1. tables' = tables \cup {"hits"} /\ stored' = stored
    BY <1>2, <1>7 DEF Create, Run
  <2>2. step' = 3 /\ step = 2 /\ stored["hits"] = {}
    BY <1>0, <1>1, <1>3, <1>7 DEF IInv, Contents
  <2>3. /\ "hits" \in tables' <=> step' # 2
        /\ "failures" \in tables' <=> step' # 5
        /\ "hits_backup" \in tables' <=> step' \in 2 .. 7
        /\ "failures_backup" \in tables' <=> step' > 4
    BY <1>1, <2>1, <2>2
  <2>4. SqliteAt'
    BY <1>0, <2>1, <2>2, <2>3 DEF SqliteAt, Of
  <2> QED BY <1>0, <1>2, <1>5, <2>1, <2>2, <2>4
<1>8. CASE step = 3 /\ Insert("hits", "hits_backup")
  <2>1. /\ tables' = tables
        /\ stored' = [stored EXCEPT !["hits"] = @ \cup Scaled(stored["hits_backup"])]
    BY <1>2, <1>8 DEF Insert, Run
  <2>2. step' = 4 /\ step = 3 /\ stored["hits"] = {}
    BY <1>0, <1>3, <1>8 DEF SqliteAt
  <2>3. /\ stored'["hits"] = Scaled(stored["hits_backup"])
        /\ stored'["hits_backup"] = stored["hits_backup"]
        /\ stored'["failures"] = stored["failures"]
        /\ stored'["failures_backup"] = stored["failures_backup"]
    BY <1>0, <2>1, <2>2
  <2>4. \A r \in stored'["hits"] : r = Measured(1)
    BY <1>0, <2>3, ScalesOnce DEF SqliteAt, Of
  <2>5. SqliteAt'
    BY <1>0, <1>1, <2>1, <2>2, <2>3, <2>4 DEF SqliteAt, Of
  <2> QED BY <1>0, <1>2, <1>5, <2>1, <2>2, <2>5
<1>9. CASE step = 4 /\ Rename("failures", "failures_backup")
  <2>1. /\ tables' = (tables \ {"failures"}) \cup {"failures_backup"}
        /\ stored' = [stored EXCEPT !["failures_backup"] = stored["failures"], !["failures"] = {}]
    BY <1>2, <1>9 DEF Rename, Run
  <2>2. /\ stored'["failures_backup"] = stored["failures"] /\ stored'["failures"] = {}
        /\ stored'["hits"] = stored["hits"]
        /\ stored'["hits_backup"] = stored["hits_backup"]
    BY <1>0, <2>1
  <2>3. step' = 5 /\ step = 4
    BY <1>3, <1>9
  <2>4. /\ "hits" \in tables' <=> step' # 2
        /\ "failures" \in tables' <=> step' # 5
        /\ "hits_backup" \in tables' <=> step' \in 2 .. 7
        /\ "failures_backup" \in tables' <=> step' > 4
    BY <1>1, <2>1, <2>3
  <2>5. SqliteAt'
    BY <1>0, <2>2, <2>3, <2>4 DEF SqliteAt, Of
  <2> QED BY <1>0, <1>2, <1>5, <2>1, <2>3, <2>5
<1>10. CASE step = 5 /\ Create("failures")
  <2>1. tables' = tables \cup {"failures"} /\ stored' = stored
    BY <1>2, <1>10 DEF Create, Run
  <2>2. step' = 6 /\ step = 5 /\ stored["failures"] = {}
    BY <1>0, <1>1, <1>3, <1>10 DEF IInv, Contents
  <2>3. /\ "hits" \in tables' <=> step' # 2
        /\ "failures" \in tables' <=> step' # 5
        /\ "hits_backup" \in tables' <=> step' \in 2 .. 7
        /\ "failures_backup" \in tables' <=> step' > 4
    BY <1>1, <2>1, <2>2
  <2>4. SqliteAt'
    BY <1>0, <2>1, <2>2, <2>3 DEF SqliteAt, Of
  <2> QED BY <1>0, <1>2, <1>5, <2>1, <2>2, <2>4
<1>11. CASE step = 6 /\ Insert("failures", "failures_backup")
  <2>1. /\ tables' = tables
        /\ stored' = [stored EXCEPT !["failures"] = @ \cup Scaled(stored["failures_backup"])]
    BY <1>2, <1>11 DEF Insert, Run
  <2>2. step' = 7 /\ step = 6 /\ stored["failures"] = {}
    BY <1>0, <1>3, <1>11 DEF SqliteAt
  <2>3. /\ stored'["failures"] = Scaled(stored["failures_backup"])
        /\ stored'["failures_backup"] = stored["failures_backup"]
        /\ stored'["hits"] = stored["hits"]
        /\ stored'["hits_backup"] = stored["hits_backup"]
    BY <1>0, <2>1, <2>2
  <2>4. \A r \in stored'["failures"] : r = Measured(1)
    BY <1>0, <2>3, ScalesOnce DEF SqliteAt, Of
  <2>5. SqliteAt'
    BY <1>0, <1>1, <2>1, <2>2, <2>3, <2>4 DEF SqliteAt, Of
  <2> QED BY <1>0, <1>2, <1>5, <2>1, <2>2, <2>5
<1>12. CASE step = 7 /\ Drop("hits_backup")
  <2>1. /\ tables' = tables \ {"hits_backup"}
        /\ stored' = [stored EXCEPT !["hits_backup"] = {}]
    BY <1>2, <1>12 DEF Drop, Run
  <2>2. step' = 8 /\ step = 7
    BY <1>3, <1>12
  <2>3. /\ stored'["hits_backup"] = {}
        /\ stored'["hits"] = stored["hits"]
        /\ stored'["failures"] = stored["failures"]
        /\ stored'["failures_backup"] = stored["failures_backup"]
    BY <1>0, <2>1
  <2>4. /\ "hits" \in tables' <=> step' # 2
        /\ "failures" \in tables' <=> step' # 5
        /\ "hits_backup" \in tables' <=> step' \in 2 .. 7
        /\ "failures_backup" \in tables' <=> step' > 4
    BY <1>1, <2>1, <2>2
  <2>5. SqliteAt'
    BY <1>0, <2>2, <2>3, <2>4 DEF SqliteAt, Of
  <2> QED BY <1>0, <1>2, <1>5, <2>1, <2>2, <2>5
<1>13. CASE step = 8 /\ Drop("failures_backup")
  <2>1. /\ tables' = tables \ {"failures_backup"} /\ pc' = "mark"
        /\ stored' = [stored EXCEPT !["failures_backup"] = {}]
    BY <1>2, <1>3, <1>13 DEF Drop, Run
  <2>2. stored'["hits"] = stored["hits"] /\ stored'["failures"] = stored["failures"]
    BY <1>0, <2>1
  <2>3. Of("hits", 1) /\ Of("failures", 1)
    BY <1>0, <1>13 DEF SqliteAt
  <2>4. Right'
    BY <2>2, <2>3 DEF Right, Of, Measured
  <2> QED BY <1>0, <1>2, <1>4, <2>1, <2>4 DEF Marking
<1> QED
  BY <1>2, <1>6, <1>7, <1>8, <1>9, <1>10, <1>11, <1>12, <1>13 DEF SqliteStatement

LEMMA GenericScales ==
  ASSUME IInv, Migrating, dialect # "sqlite", Statements = 3, GenericStatement
  PROVE  ~Fail /\ (Migrating' \/ Marking')
<1>0. /\ stored \in [DataTables -> SUBSET Row] /\ step \in 1 .. 3 /\ GenericAt
      /\ {"hits", "failures"} \subseteq DataTables
      /\ "core" \in tables /\ OneRow(Old) /\ pc = "migrate" /\ ~form
  BY DEF IInv, Types, Place, DataTables, Migrating
<1>1. \A r \in stored["hits"] : /\ r \in Row
                                /\ r.latency = IF step = 1 THEN 0 ELSE 1
                                /\ r.ping = IF step < 3 THEN 0 ELSE 1
  BY <1>0 DEF GenericAt
<1>2. ~Fail /\ Did /\ tables' = tables
  <2>1. Did /\ tables' = tables
    BY <1>0 DEF GenericStatement, GenericAt, Update, Run, Did
  <2>2. step' # 0
    BY <1>0, <2>1 DEF Did, Goto
  <2> QED BY <2>1, <2>2 DEF Fail
<1>3. /\ dialect' = dialect /\ core' = core
      /\ step < 3 => step' = step + 1 /\ pc' = "migrate"
      /\ step = 3 => pc' = "mark"
  BY <1>0, <1>2 DEF Did, Goto
<1>4. OneRow(Old)' /\ Up(0) = 1
  BY <1>0, <1>3 DEF OneRow, Up, MaxScale
<1>5. CASE step = 1 /\ Update("hits", Latency(stored["hits"]))
  <2>1. stored' = [stored EXCEPT !["hits"] = Latency(stored["hits"])]
    BY <1>2, <1>5 DEF Update, Run
  <2>2. stored'["hits"] = Latency(stored["hits"]) /\ stored'["failures"] = stored["failures"]
    BY <1>0, <2>1
  <2>3. \A r \in Latency(stored["hits"]) : r.latency = 1 /\ r.ping = 0
    BY <1>1, <1>4, <1>5 DEF Latency, Row
  <2>4. GenericAt'
    BY <1>0, <1>2, <1>3, <1>5, <2>2, <2>3 DEF GenericAt, Of
  <2> QED BY <1>0, <1>2, <1>3, <1>4, <1>5, <2>4 DEF Migrating
<1>6. CASE step = 2 /\ Update("hits", Ping(stored["hits"]))
  <2>1. stored' = [stored EXCEPT !["hits"] = Ping(stored["hits"])]
    BY <1>2, <1>6 DEF Update, Run
  <2>2. stored'["hits"] = Ping(stored["hits"]) /\ stored'["failures"] = stored["failures"]
    BY <1>0, <2>1
  <2>3. \A r \in Ping(stored["hits"]) : r.latency = 1 /\ r.ping = 1
    BY <1>1, <1>4, <1>6 DEF Ping, Row
  <2>4. GenericAt'
    BY <1>0, <1>2, <1>3, <1>6, <2>2, <2>3 DEF GenericAt, Of
  <2> QED BY <1>0, <1>2, <1>3, <1>4, <1>6, <2>4 DEF Migrating
<1>7. CASE step = 3 /\ Update("failures", Ping(stored["failures"]))
  <2>1. stored' = [stored EXCEPT !["failures"] = Ping(stored["failures"])]
    BY <1>2, <1>7 DEF Update, Run
  <2>2. stored'["failures"] = Ping(stored["failures"]) /\ stored'["hits"] = stored["hits"]
    BY <1>0, <2>1
  <2>3. \A r \in Ping(stored["failures"]) : r.ping = 1
    BY <1>0, ScalesOnce DEF GenericAt, Of
  <2>4. \A r \in stored["hits"] : r = Measured(1)
    BY <1>1, <1>7 DEF Row, Measured
  <2>5. Right'
    BY <2>2, <2>3, <2>4 DEF Right, Of
  <2> QED BY <1>0, <1>2, <1>3, <1>4, <1>7, <2>5 DEF Marking
<1> QED BY <1>5, <1>6, <1>7 DEF GenericStatement

(* It ends where that is not remembered. *)
Halts == pc # "down" /\ ~Delicate /\ pc' = "down" /\ UNCHANGED diskVars

(* Where the process has to be for each of the steps it takes by itself. *)
LEMMA StepIsAt ==
  ASSUME Place, [Next]_vars, Calm'
  PROVE  \/ pc = "down" /\ Start
         \/ pc = "reset" /\ ResetCore
         \/ pc = "create" /\ CreateTable
         \/ pc = "admin" /\ CreateAdminUser
         \/ pc = "corerow" /\ CoreSamples
         \/ pc = "samples" /\ Samples
         \/ pc = "changes" /\ Changes
         \/ pc = "migrate" /\ Migrate
         \/ pc = "mark" /\ Mark
         \/ pc = "automigrate" /\ MigrateDatabase
         \/ pc = "init" /\ InitApp
         \/ pc = "newcore" /\ NewCore
         \/ pc = "up" /\ (Serve \/ Shutdown)
         \/ Halts \/ UNCHANGED vars
<1>1. ~ProcessSetup
  BY DEF ProcessSetup, Calm
<1>2. \/ Proceed \/ ResetCore \/ Changes \/ MigrateDatabase
      \/ Crash \/ Error \/ UNCHANGED vars
  BY <1>1 DEF Next
<1>3. Start => pc = "down"
  BY DEF Start
<1>4. ResetCore => pc = "reset"
  BY DEF ResetCore
<1>5. CreateTable => pc = "create"
  BY DEF CreateTable
<1>6. CreateAdminUser => pc = "admin"
  BY DEF CreateAdminUser
<1>7. CoreSamples => pc = "corerow"
  BY DEF CoreSamples
<1>8. Samples => pc = "samples"
  BY DEF Samples
<1>9. Changes => pc = "changes"
  BY DEF Changes
<1>10. Migrate => pc = "migrate"
  BY DEF Migrate
<1>11. Mark => pc = "mark"
  BY DEF Mark
<1>12. MigrateDatabase => pc = "automigrate"
  BY DEF MigrateDatabase
<1>13. InitApp => pc = "init"
  BY DEF InitApp
<1>14. NewCore => pc = "newcore"
  BY DEF NewCore
<1>15. Serve \/ Shutdown => pc = "up"
  BY DEF Serve, Shutdown
<1>16. Crash => Halts
  BY DEF Crash, Stops, Halts, Calm
<1>17. Error => Halts
  <2>1. Error => ~Delicate
    BY DEF Error, Stops, Calm
  <2>2. ~form
    BY PastGrows DEF Place, Calm
  <2> QED BY <2>1, <2>2 DEF Error, Fail, Halts
<1> QED
  BY <1>2, <1>3, <1>4, <1>5, <1>6, <1>7, <1>8, <1>9, <1>10, <1>11, <1>12, <1>13, <1>14, <1>15,
     <1>16, <1>17
  DEF Proceed

(* What is left behind. *)
LEMMA HaltIsUndisturbed ==
  ASSUME IInv, Undisturbed, Halts, Calm
  PROVE  Empty' \/ Settled' \/ Aged' \/ HalfMade' \/ HalfMoved'
<1>0. /\ Types /\ Contents /\ Place /\ BackupsAre /\ ~Delicate
      /\ pc # "down" /\ pc' = "down"
      /\ UNCHANGED <<dialect, config, tables, services, admin, core, stored>>
  BY DEF IInv, Halts, diskVars
<1>2. CASE Empty
  BY <1>0, <1>2 DEF Empty
<1>3. CASE Creating
  <2>1. /\ pc = "create" /\ step \in 1 .. 5 /\ config
        /\ tables = {Order[i] : i \in 1 .. step - 1}
    BY <1>0, <1>3 DEF Creating, Delicate, Place
  <2>2. CASE step \in {1, 2}
    <3>1. \A i \in 1 .. step - 1 : i = 1
      BY <2>2
    <3>2. tables \subseteq {"services"}
      BY <2>1, <3>1, Tables
    <3> QED BY <1>0, <1>3, <3>2 DEF Empty, Creating
  <2>3. CASE step \notin {1, 2}
    <3>1. 2 \in 1 .. step - 1 /\ \A i \in 1 .. step - 1 : i \in {1, 2, 3, 4}
      BY <2>1, <2>3
    <3>2. "users" \in tables /\ "core" \notin tables
      BY <2>1, <3>1, Tables
    <3> QED BY <1>0, <2>1, <3>2 DEF HalfMade
  <2> QED BY <2>2, <2>3
<1>4. CASE Settled
  BY <1>0, <1>4 DEF Settled, OneRow, Right, Of
<1>5. CASE Aged
  BY <1>0, <1>5 DEF Aged, OneRow, Of
<1>6. CASE Migrating /\ dialect = "sqlite"
  <2>1. step \in 1 .. 8 /\ SqliteAt /\ OneRow(Old) /\ "core" \in tables
    BY <1>0, <1>6 DEF Migrating, Place, Statements
  <2>2. CASE step = 1
    BY <1>0, <2>1, <2>2 DEF SqliteAt, Aged, OneRow, Of, Backups
  <2>3. CASE step # 1
    <3>1. step \in 2 .. 7 \/ step > 4
      BY <2>1, <2>3
    <3> QED BY <1>0, <2>1, <3>1 DEF SqliteAt, HalfMoved, Backups
  <2> QED BY <2>2, <2>3
<1>7. CASE Migrating /\ dialect # "sqlite"
  <2>1. dialect = "server" /\ step \in 1 .. 3 /\ pc = "migrate"
    BY <1>0, <1>7, DialectsAssumption DEF Migrating, Place, Statements, Types
  <2>2. step = 1
    BY <1>0, <2>1 DEF Delicate
  <2>3. \A r \in stored["hits"] : r = Measured(0)
    BY <1>0, <1>7, <2>2 DEF Migrating, GenericAt, Types, Row, Measured, DataTables
  <2> QED BY <1>0, <1>7, <2>3 DEF Migrating, GenericAt, Aged, OneRow, Of, BackupsAre
<1>8. CASE Marking
  BY <1>0, <1>8 DEF Marking, Delicate
<1>9. CASE HalfMade
  BY <1>0, <1>9 DEF HalfMade
<1>10. CASE HalfMoved
  BY <1>0, <1>10 DEF HalfMoved
<1> QED
  BY <1>2, <1>3, <1>4, <1>5, <1>6, <1>7, <1>8, <1>9, <1>10 DEF Undisturbed

(* A creation that does not see the core table.                            *)
LEMMA CreationFails ==
  ASSUME IInv, CreateTable, "core" \in tables, ~form
  PROVE  /\ pc' \in {"create", "down"}
         /\ UNCHANGED <<dialect, config, core, stored>>
         /\ tables' = tables \/ tables' = tables \cup {"services"}
<1>1. step \in {1, 2} /\ "users" \in tables /\ pc = "create"
  BY DEF IInv, Place, Contents, CreateTable
<1>2. CASE Order[step] \in tables
  BY <1>2 DEF CreateTable, Fail, diskVars
<1>3. CASE Order[step] \notin tables
  <2>1. step = 1 /\ Order[step] = "services" /\ Len(Order) = 5
    BY <1>1, <1>3, Tables
  <2> QED BY <1>1, <1>3, <2>1 DEF CreateTable
<1> QED BY <1>2, <1>3

(* A look at the core table, when it is there.                             *)
LEMMA ResetLooks ==
  ASSUME ResetCore, "core" \in tables, ~form
  PROVE  /\ pc' \in {"changes", "create", "down"}
         /\ UNCHANGED <<dialect, config, core, stored>>
         /\ tables' = tables \/ tables' = tables \ {"services"}
  BY DEF ResetCore, DropDatabase, Goto, Fail, diskVars

LEMMA HalfMadeStep ==
  ASSUME Place, HalfMade, [Next]_vars, Calm', ~form, ~Halts, ~UNCHANGED vars
  PROVE  HalfMade'
<1>1. CASE pc = "down" /\ Start
  BY <1>1 DEF HalfMade, Start, Goto, diskVars
<1>2. CASE pc = "reset" /\ ResetCore
  BY <1>2 DEF HalfMade, ResetCore, DropDatabase, Goto, Fail, Found, diskVars
<1>3. CASE pc = "create" /\ CreateTable
  <2>1. step \in {1, 2} /\ Len(Order) = 5 /\ Order[1] = "services" /\ Order[2] = "users"
    BY <1>3, Tables DEF HalfMade
  <2>2. CASE Order[step] \in tables
    BY <1>3, <2>2 DEF CreateTable, Fail, HalfMade, diskVars
  <2>3. CASE Order[step] \notin tables
    <3>1. step = 1
      BY <2>1, <2>3 DEF HalfMade
    <3>2. tables' = tables \cup {"services"} /\ step' = 2 /\ UNCHANGED pc
      BY <1>3, <2>1, <2>3, <3>1 DEF CreateTable
    <3> QED BY <1>3, <3>2 DEF HalfMade
  <2> QED BY <2>2, <2>3
<1> QED BY <1>1, <1>2, <1>3, StepIsAt DEF HalfMade

LEMMA HalfMovedStep ==
  ASSUME IInv, HalfMoved, [Next]_vars, Calm, Calm', ~Halts, ~UNCHANGED vars
  PROVE  HalfMoved'
<1>0. /\ Place /\ dialect = "sqlite" /\ config /\ "core" \in tables /\ MigrationId = Old
      /\ pc \in {"down", "reset", "create", "changes", "migrate"}
      /\ tables \cap Backups # {} /\ ~form
  BY DEF IInv, BackupsAre, HalfMoved, Calm
<1>1. CASE pc = "down" /\ Start
  BY <1>0, <1>1 DEF HalfMoved, Start, Goto, diskVars
<1>2. CASE pc = "reset" /\ ResetCore
  BY <1>0, <1>2, ResetLooks DEF HalfMoved, Backups
<1>5. CASE pc = "create" /\ CreateTable
  BY <1>0, <1>5, CreationFails DEF HalfMoved
<1>3. CASE pc = "changes" /\ Changes
  BY <1>0, <1>3 DEF HalfMoved, Changes, Goto, diskVars, Now, Old
<1>4. CASE pc = "migrate" /\ Migrate
  <2>1. CASE Fail
    BY <1>0, <2>1 DEF Fail, HalfMoved, diskVars
  <2>2. CASE ~Fail
    <3>1. Statements = 8 /\ SqliteStatement
      BY <1>0, <1>4, StatementIs
    <3>2. \/ step = 1 /\ "hits_backup" \notin tables /\ Rename("hits", "hits_backup")
          \/ step = 2 /\ Create("hits")
          \/ step = 3 /\ Insert("hits", "hits_backup")
      BY <1>4, <2>2, <3>1 DEF HalfMoved, SqliteStatement, Rename, Run
    <3>3. "failures_backup" \in tables
      BY <1>0, <1>4, <3>2 DEF HalfMoved, Backups
    <3>4. "failures_backup" \in tables' /\ pc' = "migrate" /\ step' = step + 1
      BY <1>4, <2>2, <3>1, <3>2, <3>3 DEF Rename, Create, Insert, Run
    <3> QED BY <3>2, <3>4 DEF HalfMoved, Backups
  <2> QED BY <2>1, <2>2
<1> QED BY <1>0, <1>1, <1>2, <1>3, <1>4, <1>5, StepIsAt

LEMMA UndisturbedStep ==
  ASSUME IInv, Undisturbed, [Next]_vars
  PROVE  Undisturbed'
<1> SUFFICES ASSUME Calm'
             PROVE  \/ Empty' \/ Creating' \/ Settled' \/ Aged'
                    \/ Migrating' \/ Marking' \/ HalfMade' \/ HalfMoved'
  BY DEF Undisturbed
<1>0. Calm /\ Types /\ Contents /\ Place /\ ~form /\ pc # "newcore"
  BY PastGrows DEF IInv, Types, Place, Calm
<1>1. \/ Empty \/ Creating \/ Settled \/ Aged \/ Migrating \/ Marking
      \/ HalfMade \/ HalfMoved
  BY <1>0 DEF Undisturbed
<1>2. /\ stored \in [DataTables -> SUBSET Row]
      /\ {"hits", "failures"} \subseteq DataTables
      /\ "core" \in Created /\ "services" \in Created
  BY <1>0, Tables DEF Types, DataTables
<1>3. CASE UNCHANGED vars
  <2>1. UNCHANGED <<dialect, config, tables, services, core, stored, pc, step>>
    BY <1>3 DEF vars, diskVars, procVars
  <2> QED
    BY <1>1, <2>1
    DEF Empty, Creating, Settled, Aged, Migrating, Marking, OneRow, Right, Of,
        SqliteAt, GenericAt, HalfMade, HalfMoved
<1>11. CASE Halts
  BY <1>0, <1>11, HaltIsUndisturbed
<1>5. CASE Empty /\ ~Halts /\ ~UNCHANGED vars
  <2>1. CASE pc = "down" /\ Start
    BY <1>5, <2>1 DEF Empty, Start, Goto, diskVars
  <2>2. CASE pc = "reset" /\ ResetCore
    <3>1. "core" \notin tables /\ \A t \in DataTables : stored[t] = {}
      BY <1>0, <1>5 DEF Contents, Empty, DataTables, Backups
    <3>2. CASE Fail
      BY <1>0, <1>5, <3>2 DEF Empty, Fail, diskVars
    <3>3. CASE DropDatabase /\ Goto("create")
      <4>1. /\ tables' = {} /\ core' = <<>> /\ stored' = stored
            /\ pc' = "create" /\ step' = 1
        BY <1>5, <3>3 DEF Empty, DropDatabase, Goto
      <4>2. tables' = {Order[i] : i \in 1 .. step' - 1}
        BY <4>1
      <4> QED BY <3>1, <4>1, <4>2 DEF Creating
    <3> QED BY <2>2, <3>1, <3>2, <3>3 DEF ResetCore, Found
  <2> QED BY <1>0, <1>5, <2>1, <2>2, StepIsAt DEF Empty
<1>6. CASE Creating /\ ~Halts /\ ~UNCHANGED vars
  <2>1. CASE pc = "create" /\ CreateTable
    <3>1. step \in 1 .. 5 /\ tables = {Order[i] : i \in 1 .. step - 1}
      BY <1>0, <1>6, <2>1 DEF Place, Creating
    <3>2. Order[step] \notin tables
      <4>1. \A i \in 1 .. step - 1 : Order[i] # Order[step]
        BY <3>1, Tables
      <4> QED BY <3>1, <4>1
    <3>3. /\ tables' = tables \cup {Order[step]} /\ core' = core /\ stored' = stored
          /\ \/ pc' = "create" /\ step' = step + 1
             \/ pc' = "admin"
      BY <2>1, <3>2 DEF CreateTable, Goto
    <3>4. pc' = "create" => tables' = {Order[i] : i \in 1 .. step' - 1}
      <4>1. \A i : i \in 1 .. step <=> i \in 1 .. step - 1 \/ i = step
        BY <3>1
      <4>2. {Order[i] : i \in 1 .. step} = {Order[i] : i \in 1 .. step - 1} \cup {Order[step]}
        BY <4>1
      <4>3. pc' = "create" => 1 .. step' - 1 = 1 .. step
        BY <3>1, <3>3
      <4> QED BY <3>1, <3>3, <4>2, <4>3
    <3> QED BY <1>6, <3>3, <3>4 DEF Creating
  <2>2. CASE pc = "admin" /\ CreateAdminUser
    BY <1>6, <2>2 DEF Creating, CreateAdminUser, Goto
  <2>3. CASE pc = "corerow" /\ CoreSamples
    <3>1. /\ core' = Append(<<>>, Now) /\ stored' = stored /\ tables' = tables
          /\ pc' = "samples" /\ "core" \in tables
      BY <1>0, <1>2, <1>6, <2>3 DEF Creating, CoreSamples, Goto, Place
    <3>2. Append(<<>>, Now) = <<Now>> /\ Len(<<Now>>) = 1 /\ <<Now>>[1] = Now
      OBVIOUS
    <3>3. Right'
      BY <1>2, <1>6, <3>1 DEF Right, Of, Creating
    <3> QED BY <3>1, <3>2, <3>3 DEF Settled, OneRow
  <2> QED BY <1>0, <1>6, <2>1, <2>2, <2>3, StepIsAt DEF Creating
<1>7. CASE Settled /\ ~Halts /\ ~UNCHANGED vars
  <2>0. "core" \in tables /\ OneRow(Now) /\ Right /\ MigrationId = Now
    BY <1>7 DEF Settled, OneRow, MigrationId
  <2>1. ASSUME UNCHANGED <<core, stored>>, "core" \in tables',
               pc' \in {"down", "setup", "reset", "create", "samples", "changes", "automigrate",
                       "init", "up"}
        PROVE  Settled'
    BY <2>0, <2>1 DEF Settled, OneRow, Right, Of
  <2>2. CASE pc = "down" /\ Start
    BY <2>0, <2>1, <2>2 DEF Start, Goto, diskVars
  <2>3. CASE pc = "reset" /\ ResetCore
    BY <1>0, <2>0, <2>1, <2>3, ResetLooks
  <2>10. CASE pc = "create" /\ CreateTable
    BY <1>0, <2>0, <2>1, <2>10, CreationFails
  <2>4. CASE pc = "samples" /\ Samples
    <3>1. /\ core' = core /\ tables' = tables /\ pc' \in {"samples", "changes"}
      BY <1>0, <2>4 DEF Samples, Goto
    <3>2. CASE stored' = stored
      BY <2>0, <2>1, <3>1, <3>2
    <3>3. CASE AddSample("hits") \/ AddSample("failures")
      <4>1. /\ stored'["hits"] \subseteq stored["hits"] \cup {Measured(1)}
            /\ stored'["failures"] \subseteq stored["failures"] \cup {Measured(1)}
        BY <1>2, <3>3 DEF AddSample
      <4>2. Right'
        BY <2>0, <4>1 DEF Right, Of, Measured
      <4> QED BY <2>0, <3>1, <4>2 DEF Settled, OneRow
    <3> QED BY <2>4, <3>2, <3>3 DEF Samples
  <2>5. CASE pc = "changes" /\ Changes
    <3>1. UNCHANGED diskVars /\ pc' = "automigrate"
      BY <2>0, <2>5 DEF Changes, Goto, Missed, Calm, Now
    <3> QED BY <2>0, <2>1, <3>1 DEF diskVars
  <2>6. CASE pc = "automigrate" /\ MigrateDatabase
    BY <1>0, <2>0, <2>1, <2>6 DEF MigrateDatabase, Goto
  <2>7. CASE pc = "init" /\ InitApp
    BY <1>0, <2>0, <2>1, <2>7 DEF InitApp, Goto, Fail, diskVars
  <2>8. CASE pc = "up" /\ Shutdown
    BY <2>0, <2>1, <2>8 DEF Shutdown, diskVars
  <2>9. CASE pc = "up" /\ Serve
    <3>1. PICK t \in {"hits", "failures"} : stored' = [stored EXCEPT ![t] = @ \cup {Measured(1)}]
      BY <2>9 DEF Serve
    <3>2. \A u \in {"hits", "failures"} : stored'[u] \subseteq stored[u] \cup {Measured(1)}
      BY <1>2, <3>1
    <3>3. Right'
      BY <2>0, <3>2 DEF Right, Of, Measured
    <3>4. UNCHANGED <<core, tables, pc>>
      BY <2>9 DEF Serve, procVars
    <3> QED BY <2>0, <2>9, <3>3, <3>4 DEF Settled, OneRow
  <2> QED
    BY <1>0, <1>7, <2>2, <2>3, <2>4, <2>5, <2>6, <2>7, <2>8, <2>9, <2>10, StepIsAt DEF Settled
<1>8. CASE Aged /\ ~Halts /\ ~UNCHANGED vars
  <2>0. /\ {"hits", "failures", "core"} \subseteq tables /\ tables \cap Backups = {}
        /\ OneRow(Old) /\ MigrationId = Old /\ Of("hits", 0) /\ Of("failures", 0)
    BY <1>8 DEF Aged, OneRow, MigrationId
  <2>1. ASSUME UNCHANGED <<core, stored>>,
               tables' \in {tables, tables \ {"services"}, tables \cup {"services"}},
               pc' \in {"down", "setup", "reset", "create", "changes"}
        PROVE  Aged'
    BY <2>0, <2>1 DEF Aged, OneRow, Of, Backups
  <2>2. CASE pc = "down" /\ Start
    BY <2>0, <2>1, <2>2 DEF Start, Goto, diskVars
  <2>3. CASE pc = "reset" /\ ResetCore
    BY <1>0, <2>0, <2>1, <2>3, ResetLooks
  <2>5. CASE pc = "create" /\ CreateTable
    BY <1>0, <2>0, <2>1, <2>5, CreationFails
  <2>4. CASE pc = "changes" /\ Changes
    <3>1. /\ pc' = "migrate" /\ step' = 1 /\ UNCHANGED <<dialect, core, tables, stored>>
      BY <2>0, <2>4 DEF Changes, Goto, Now, Old, diskVars
    <3>2. /\ "hits" \in tables /\ "failures" \in tables /\ "core" \in tables
          /\ "hits_backup" \notin tables /\ "failures_backup" \notin tables
      BY <2>0 DEF Backups
    <3>3. stored["hits_backup"] = {} /\ stored["failures_backup"] = {}
      BY <1>0, <3>2 DEF Contents, DataTables, Backups
    <3>4. SqliteAt'
      BY <2>0, <3>1, <3>2, <3>3 DEF SqliteAt, Of
    <3>5. GenericAt'
      BY <2>0, <3>1, <3>2 DEF GenericAt, Of, Measured
    <3> QED BY <2>0, <3>1, <3>2, <3>4, <3>5 DEF Migrating, OneRow
  <2> QED BY <1>0, <1>8, <2>2, <2>3, <2>4, <2>5, StepIsAt DEF Aged
<1>9. CASE Migrating /\ ~Halts /\ ~UNCHANGED vars
  <2>1. Migrate
    BY <1>0, <1>9, StepIsAt DEF Migrating
  <2> QED BY <1>0, <1>9, <2>1, StatementIs, SqliteScales, GenericScales
<1>10. CASE Marking /\ ~Halts /\ ~UNCHANGED vars
  <2>1. Mark
    BY <1>0, <1>10, StepIsAt DEF Marking
  <2>2. /\ core' = [i \in DOMAIN core |-> Now] /\ UNCHANGED <<tables, stored>>
        /\ pc' = "automigrate"
    BY <2>1 DEF Mark, Goto
  <2>3. Len(core) = 1 /\ core \in Seq({Old, Now})
    BY <1>0, <1>10 DEF Marking, OneRow, Types
  <2>4. OneRow(Now)'
    BY <2>2, <2>3 DEF OneRow
  <2> QED BY <1>10, <2>2, <2>4 DEF Marking, Settled, Right, Of
<1>12. CASE HalfMade /\ ~Halts /\ ~UNCHANGED vars
  BY <1>0, <1>12, HalfMadeStep
<1>13. CASE HalfMoved /\ ~Halts /\ ~UNCHANGED vars
  BY <1>0, <1>13, HalfMovedStep
<1> QED BY <1>1, <1>3, <1>5, <1>6, <1>7, <1>8, <1>9, <1>10, <1>11, <1>12, <1>13

(* A server that runs, and what it has. *)
LEMMA UpIsSettled ==
  ASSUME Undisturbed
  PROVE  UnitsRight
<1>1. ASSUME Calm, pc = "up"
      PROVE  Settled
  BY <1>1 DEF Undisturbed, Empty, Creating, Aged, Migrating, Marking,
     HalfMade, HalfMoved
<1> QED BY <1>1 DEF Settled, Right, OneRow, Of, UnitsRight, ValuesRight, Calm

(* A server that runs finds every measured value in the unit it uses: what *)
(* an older version stored has been scaled, and once, although starts fail *)
(* and are cut short, but for the delicate places, for the setup form and  *)
(* for a start that could not read the migration id and scales whatever is *)
(* there (DatabaseChanges, genericMigration, sqliteMigration).             *)
THEOREM ValuesAreScaledOnce == Spec => []UnitsRight
  BY Inductive, UndisturbedInit, UndisturbedStep, UpIsSettled, PTL DEF Spec

(* The core row comes with the core table, but for the two steps between   *)
(* them, and the form brings a second one.                                 *)
RowWithTable ==
  past \cap {"cut", "form"} = {} =>
    IF "core" \in tables /\ pc \notin {"admin", "corerow"} THEN Len(core) = 1 ELSE core = <<>>

LEMMA RowWithTableInit ==
  ASSUME Init
  PROVE  RowWithTable
<1>1. PICK kind \in Databases : DatabaseIs(kind)
  BY DEF Init
<1>2. kind \in {"empty", "old", "current", "coreless"} /\ pc = "down"
  BY DatabasesAssumption DEF Init
<1>3. Len(<<Old>>) = 1 /\ Len(<<Now>>) = 1
  OBVIOUS
<1> QED BY <1>1, <1>2, <1>3, Tables DEF DatabaseIs, RowWithTable

LEMMA RowWithTableStep ==
  ASSUME IInv, RowWithTable, [Next]_vars
  PROVE  RowWithTable'
<1> SUFFICES ASSUME past' \cap {"cut", "form"} = {}
             PROVE  RowWithTable'
  BY DEF RowWithTable
<1>0. /\ Types /\ Place /\ past \subseteq past' /\ past \cap {"cut", "form"} = {} /\ ~form
      /\ IF "core" \in tables /\ pc \notin {"admin", "corerow"} THEN Len(core) = 1 ELSE core = <<>>
  BY PastGrows DEF IInv, Place, RowWithTable
<1>1. ASSUME core' = core, "core" \in tables' <=> "core" \in tables,
             pc \notin {"admin", "corerow"}, pc' \notin {"admin", "corerow"}
      PROVE  RowWithTable'
  BY <1>0, <1>1 DEF RowWithTable
<1>2. ASSUME Fail, pc \notin {"admin", "corerow"}
      PROVE  RowWithTable'
  BY <1>1, <1>2 DEF Fail, diskVars
<1>3. CASE Start \/ Changes \/ InitApp \/ Shutdown
  BY <1>1, <1>2, <1>3 DEF Start, Changes, InitApp, Shutdown, Goto, diskVars
<1>4. CASE ResetCore
  BY <1>1, <1>2, <1>4 DEF ResetCore, DropDatabase, Goto, diskVars
<1>5. CASE CreateTable
  <2>1. CASE Fail
    BY <1>2, <1>5, <2>1 DEF CreateTable
  <2>2. CASE ~Fail
    <3>1. /\ pc = "create" /\ step \in 1 .. 5 /\ Len(Order) = 5
          /\ tables' = tables \cup {Order[step]} /\ core' = core
          /\ "core" \in tables => step \in {1, 2}
          /\ IF step < 5 THEN pc' = pc ELSE pc' = "admin"
      BY <1>0, <1>5, <2>2, Tables DEF CreateTable, Place, Goto
    <3>2. CASE step < 5
      <4>1. Order[step] # "core"
        BY <3>1, <3>2, Tables
      <4> QED BY <1>1, <3>1, <3>2, <4>1
    <3>3. CASE ~(step < 5)
      BY <1>0, <3>1, <3>3 DEF RowWithTable
    <3> QED BY <3>2, <3>3
  <2> QED BY <2>1, <2>2
<1>6. CASE CreateAdminUser
  BY <1>0, <1>6 DEF CreateAdminUser, Goto, RowWithTable
<1>7. CASE CoreSamples
  <2>1. core' = Append(<<>>, Now) /\ pc' = "samples" /\ tables' = tables /\ "core" \in tables
    BY <1>0, <1>7, Tables DEF CoreSamples, Goto, Place
  <2>2. Len(Append(<<>>, Now)) = 1
    OBVIOUS
  <2> QED BY <2>1, <2>2 DEF RowWithTable
<1>8. CASE Samples \/ Serve
  BY <1>1, <1>8 DEF Samples, Serve, Goto, procVars
<1>9. CASE Migrate
  <2>1. CASE Did
    <3>1. "core" \in tables' /\ "core" \in tables /\ pc = "migrate"
      <4>1. pc = "migrate" /\ "core" \in tables
        BY <1>0, <1>9 DEF Place, Migrate
      <4>2. Fail \/ \E t, b \in DataTables :
              tables' \in {tables, (tables \ {t}) \cup {b}, tables \cup {t}, tables \ {t}}
        BY <1>0, <1>9, StatementIs
        DEF SqliteStatement, GenericStatement, Rename, Create, Insert, Drop, Update, Run,
            DataTables, Backups
      <4> QED BY <4>1, <4>2 DEF Fail, diskVars, DataTables, Backups
    <3> QED BY <1>1, <2>1, <3>1 DEF Did, Goto
  <2>2. Did \/ Fail
    BY <1>0, <1>9, StatementIs
    DEF SqliteStatement, GenericStatement, Rename, Create, Insert, Drop, Update, Run, Did
  <2> QED BY <1>0, <1>2, <1>9, <2>1, <2>2, StatementIs
<1>10. CASE Mark
  <2>1. Len(core) = 1 /\ core \in Seq({Old, Now}) /\ "core" \in tables
    BY <1>0, <1>10 DEF Mark, Place, Types
  <2>2. Len([i \in DOMAIN core |-> Now]) = 1
    BY <2>1
  <2> QED BY <1>10, <2>1, <2>2 DEF Mark, Goto, RowWithTable
<1>11. CASE MigrateDatabase
  <2>1. "core" \in tables /\ "core" \in tables' /\ pc = "automigrate"
    BY <1>0, <1>11 DEF MigrateDatabase, Place
  <2> QED BY <1>1, <1>11, <2>1 DEF MigrateDatabase, Goto
<1>12. CASE NewCore \/ ProcessSetup
  BY <1>0, <1>12 DEF NewCore, ProcessSetup, Place
<1>13. CASE Crash \/ Error
  <2>1. ~Delicate
    BY <1>13 DEF Crash, Error, Stops
  <2>2. pc \notin {"admin", "corerow"}
    BY <2>1 DEF Delicate
  <2> QED BY <1>1, <1>2, <1>13, <2>2 DEF Crash, Error, diskVars
<1>14. CASE UNCHANGED vars
  BY <1>0, <1>14 DEF vars, diskVars, procVars, RowWithTable
<1> QED
  BY <1>3, <1>4, <1>5, <1>6, <1>7, <1>8, <1>9, <1>10, <1>11, <1>12, <1>13, <1>14
  DEF Next, Proceed

(* A server that runs finds one core row, over creation, migration and any *)
(* number of starts, failed reads included, unless it was cut at a         *)
(* delicate place or given a setup form (ResetCore, core.Samples).         *)
THEOREM CoreRowIsAlone == Spec => []OneCoreRow
<1>1. IInv /\ RowWithTable => OneCoreRow
  BY DEF IInv, Place, RowWithTable, OneCoreRow
<1> QED BY <1>1, Inductive, RowWithTableInit, RowWithTableStep, PTL DEF Spec

=============================================================================
