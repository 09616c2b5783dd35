# Statping in TLA+

Statping watches services (HTTP, TCP, UDP, ICMP and gRPC endpoints, and static
ones that are only patched), records a hit or a failure per check, tells
notifiers about outages and shows a status page. It is one Go process with a
SQL database. Almost everything interesting happens between goroutines that
share structs through package-level maps, with no lock: a monitoring goroutine
per service, one per checkin, a daily maintenance goroutine, and one per HTTP
request. In front of it stands a Vue application whose tabs hold copies of the
server's tables and whose asynchronous functions overlap in the same way.

This directory holds models of the parts where that matters, checked with TLC
on small instances, and proofs, checked with TLAPS, of the safety properties
that matter most for every instance.

    tlc -workers 2 -config MCCheckQueue_live.cfg MCCheckQueue
    tlapm CheckQueueProofs.tla

`PROJECT.json` lists the runs, the source lines each definition stands for, a
plausible bug (a *mutant*) that each property catches, the hazards of the code
and what was found.

## Inventory

Paths are relative to the repository.

| Component | State | Operations | Talks to |
|---|---|---|---|
| Monitoring goroutines (`types/services/routine.go`, `methods.go`) | `Service.Running` (a channel), the goroutine of `ServiceCheckQueue` | `CheckServices`, `Start`, `Close`, `IsRunning`, `CheckService` | registry, records, alerts |
| Service registry and handlers (`types/services/database.go`, `handlers/services.go`) | `allServices`, table `services` and the tables of what belongs to a service | create, PUT, PATCH, reorder, DELETE, clearing hits or failures | spawns and closes goroutines |
| Check results (`routine.go`, `failures.go`) | `Online`, latencies, `LastOnline`, the last 32 failures in memory, tables `hits` and `failures` | `RecordSuccess`, `RecordFailure` | alerts, metrics |
| Notification dispatch (`types/services/notifications.go`, `notifier.go`, `types/notifications`) | `prevOnline`, `notifyAfterCount`, `AllowNotifications`; `LastSent`, `LastSentCount`, `Enabled` of each notifier | `sendSuccess`, `sendFailure`, `CanSend`, `FindNotifier` | integrations |
| Notifier handlers and integrations (`handlers/notifications.go`, `notifiers`) | `allNotifiers`, table `notifications` | read, edit, test; one send per service outside | the network |
| Checkins (`types/checkins`, `types/services/checkins.go`, `handlers/checkin.go`) | `Checkin.Running`, tables `checkins`, `checkin_hits` | `checkinRoutine`, create, hit, delete, and the deletion of the service | failures |
| Database creation and migration (`types/configs`, `types/core`, `cmd/main.go`) | `config.yml`, all tables, `migration_id` of the core row | `ResetCore`, `CreateDatabase`, `DatabaseChanges`, `MigrateDatabase`, samples | runs before everything else |
| Setup form (`handlers/setup.go`) | `core.App.Setup` | the same while the server runs | registry |
| Maintenance and database wrapper (`database`) | old rows, `READ_ONLY` | daily `deleteAllSince` | tables |
| Users, groups, messages, incidents (`handlers/users.go`, `groups.go`, `messages.go`, `incident.go`, `types/...`) | their tables | CRUD handlers, `users` deletes all but the last | dashboard lists |
| Browser session (`frontend/src`: `main.js`, `App.vue`, `routes.js`, `store.js`, `API.js`, `forms/Login.vue`, `forms/Setup.vue`, `TopNav.vue`, `pages/Settings.vue`) | the router's page and pending navigation, the store's flags and data, the cookie `statping_auth` | `loadCore`, `loadRequired`, `loadAdmin`, the guard of the dashboard, login, logout, renewal, setup | handlers, other tabs |
| Dashboard lists and their forms (`ServicesList.vue`, `DashboardServices.vue`, `DashboardMessages.vue`, `DashboardUsers.vue`, `forms/Group.vue`, `Message.vue`, `User.vue`, `Modal.vue`) | one list per table in the store, the object in a form, the delete dialog | edit, save, delete, drag | handlers of the table |
| Service form and grouped pages (`forms/Service.vue`, `pages/Index.vue`, `Index/Group.vue`, `DashboardIndex.vue`, `GroupedServices.vue`) | groups and services as a page has loaded them | save, sort services into groups | registry, groups |
| Series and charts (`types/services/methods.go`, `database/grouping.go`) | none | `UptimeData`, `OnlineSince`, `FillMissing`, `ParseQueries` | |
| OAuth, HTTP server, metrics, assets, CLI, remaining pages | | | |

What is hard here, and what each part must get right:

- **Goroutines and channels.** Each PUT closes a channel and spawns a goroutine
  that makes the next. Between the test and the close, between the test and the
  make, and during a check, anybody else may do the same. A registered service
  must always have a goroutine that checks it, exactly one if possible, and a
  deleted one none; closing a closed channel panics.
- **Alerts.** `prevOnline` and `LastSentCount` are tested before a message goes
  over the network and updated after it. One outage should be announced once,
  its end too, nobody should get more than the limit, and an error of one
  notifier must not lose or repeat the messages of others.
- **Checkins.** A goroutine looks at the last hit once per period: a silence
  must be reported and a checkin that reports in time must not. Only some structs of a
  checkin hold its goroutine's channel.
- **Start-up and migration.** A dozen statements in separate transactions,
  repeated after a crash: no data may be lost, units must be converted exactly
  once.
- **Deletions.** Rows of five tables go one statement at a time, and other
  goroutines write to them meanwhile.
- **One struct, many requests.** `Find` writes the row into the struct that all
  requests and the check loop share, and each request decodes its body into it.
  A service must not move to a group nobody asked for, nor run without an
  interval.
- **Answers out of order.** A tab sends a request, then another for the whole
  list, and puts the answer into the store; two such calls overlap, are refused,
  or never answered, while the server reads without looking at errors and copies
  services one at a time. What is shown must be what the server held.
- **Errors nobody looks at.** A read that fails is taken for an empty table, a
  missing table or a hit at the zero time. What then is dropped, migrated or
  reported must be known and nothing else.
- **Who is logged in.** The guard of the dashboard awaits an answer, the chains
  of requests that load a tab stop where one is refused, and the cookie changes
  in other tabs meanwhile. Only administrators may see the dashboard, and a page
  at rest must have its data.

## Modules

| Module | What it is |
|---|---|
| `CheckQueue` | monitoring goroutines, channels, the registry, and the requests that change them |
| `ServiceAlerts` | what a check result does to a service, and what its notifiers hear |
| `Notices` | the notifiers all services share: their limit, their row and the copies of it |
| `Checkins` | the goroutines of checkins, and the requests that create, hit and delete them |
| `Startup` | `main.start`, migration, the setup form, crashes and errors |
| `Session` | one browser tab: router, guard, chains of requests, cookie |
| `Outages` | the abstract specification of what a service promises those it notifies; `ServiceAlerts` implements it |
| `Watchdog` | the abstract specification, with time, of whoever listens for signs of life; `Checkins` implements it |
| `Mirror` | the abstract specification of a list that a dashboard shows |
| `Lists` | the four lists of the dashboards and their calls; implements `Mirror` |
| `Editing` | requests for one service in one struct, its group, and the page that lists it |
| `...Proofs` | the theorems about each of them |
| `MC...` | the TLC instances, with the symmetry that is used |

`Lists` starts where `Session` ends: a tab whose store is loaded. `Editing` looks
inside the requests that `CheckQueue` takes as one step up to their channels.

Three detailed modules implement an abstract one, each by an
`INSTANCE ... WITH` that stands at the end of the detailed module, is checked as
a PROPERTY and is proved:

| Detailed | Abstract | Refinement mapping |
|---|---|---|
| `Lists` (`MirrorSpec`) | `Mirror` | `log`, `shown`, `touched` and `lacking` are those of `Lists` |
| `ServiceAlerts` (`KeepsPromise`) | `Outages` | `phase` is read off the passes under way and `prevOnline` (`Phase`); who has been told is `alerts` and `recoveries`; `astray` is `crossed` |
| `Checkins` (`KeepsWatch`) | `Watchdog` | what is watched are the checkins with a goroutine; `silence` is `quiet`, `Patience` is `Period`; `blind`, `lapsed` and `reported` are those of `Checkins` |

### CheckQueue

A goroutine is named by who spawned it and for which service (`lpc[b][s]`); the
channels of a service are numbered in the order they are made, so
`running[s]` is the last number and `closed[s]` the closed ones, and 0 is the
nil channel. `waits` is the channel a select has evaluated: Go evaluates
`<-s.Running` once per round of the loop, which is why a goroutine may wait on a
channel that is no longer `s.Running`. Steps are cut where another goroutine
may come between: `LoopStart`/`LoopMake` (the test of `Start` and the
`make`), `CloseTest`/`CloseChannel` (the test of `Close` and the
`close`), `LoopEnter`, `LoopStop`, `LoopTimer`, `LoopCheck` (select and check).
Requests: `BeginUpdateOrDelete`, `BeginPatch`, `BeginReorder`, `BeginCreate`,
`BeginClear`, then the steps of `Update` and `Delete`; every early return
(service not found, a table that cannot be deleted, a commit that fails after
`AfterCreate` has registered the service, a recovered panic) is a disjunct.

Abstracted: single map reads and writes are atomic (Go may abort the process
on a concurrent map write; nothing is left to go wrong after that). The row in
the `services` table, groups and checkins of the service do not influence the
goroutines and are left out. `abandoned` and `alone` are history: services
whose last event was a DELETE's close or a failed create, and requests that
no other overlapped.

### ServiceAlerts

`RecordSuccess` and `RecordFailure` set `Online`, `SetOnline` is what `CheckHttp`
does once more after the first; `SuccessGate` and `FailureGate` are the heads of
`sendSuccess` and `sendFailure`. A *pass* is one of their loops over
`allNotifiers`: `CanSend` takes a notifier from it, which sends or not, `Tell` is
the moment its notice goes out, `Sent` the return of the call and `Fails` an error
of `OnSuccess`, which ends `sendSuccess`. The two are apart because an integration
may fail before or after its notice has gone out, and because others see the
service in between. `EndUp` and `EndDown` note the new state in `prevOnline`.
`Actors` are the goroutines that may record results of one service at once: its
loop, the check that each PUT starts, a PATCH, a second loop. `EditService` is the
body of a PUT, decoded into the struct in use; the dashboard sends back the service
as it read it, `online` included, so it may set that to anything at any time.

`crossed` is the exception that two goroutines make necessary: a pass is under way
that was begun while another was, or on an `online` that a body or another check
had changed since the result was recorded. `Outages` calls this going astray and
promises nothing meanwhile; it does promise that nothing is left over: when the
last of these passes is over, what was announced and `prevOnline` agree again.

Abstracted: whether `CanSend` lets a notifier send is left open, which covers every
state of `Notices`. `notifyAfterCount` is kept up to `NotifyAfter`, past which its
value makes no difference. `notify_after` and `notify_all_changes` do not change
within a behaviour. History: `alerts`, `recoveries`, `cut`, `crossed`, `spurious`
(a recovery announced with `prevOnline` true, of an `online` changed under the
check) and `failures`.

### Notices

`Senders` are the goroutines of all services that are in a pass. Each asks
`CanSend` (enabled, decayed counter below the limit), sends (`Send`), and runs
`logMessage`: `FindNotifier` reads the row and `LogMessage` copies it over the
notifier in use and counts, with whatever others do between these steps. What a
call came to is in `call`: "ok"; "again", when `OnFailure` erred and the goroutine
logs twice; or "lost", when `OnSuccess` erred and the notice is logged and never
counted. In each case it may have gone out. `RequestCopies` is every other place
that copies fields over a notifier: the handlers that list, show or test notifiers
read a row at some time and copy it at a later one, and an import brings a row of
its own; so the value is any. `EditNotifier` writes the row and leaves the notifier
alone, as its handler does. `UpdateNotifiers` at start-up does not look at the
error of its read (`Loaded`).

`DisabledSoonSilent` is about a notifier whose row says disabled: each of the
goroutines may send once more, until one of them reads the row back; a stale copy
turns the notifier on again, and the same holds afresh after it. `HourlyLimit` lets
a notifier exceed its limit by less than there are goroutines, since each may be
between `CanSend` and the increment. The form (`Notifier.vue:65`) promises "a
maximum of"; with one goroutine that is so.

Abstracted: time is `quiet` (the last send is over 60 minutes ago; the comment above
`CanSend` says "past 1 minute", the code says 60); `LastSentCount++` is one step (a
lost increment is a data race that is not modelled); the limit does not change
within a behaviour. Not promised: a notice that went out although `OnSuccess`
returned an error is not counted, so such an integration repeats a recovery at
every check, limit or not; `burst` leaves these out.

### Checkins

One service with its checkins. A checkin struct either owns the channel of a
goroutine or is a copy of the row with a nil channel (`Structs`);
`CheckinProcess` at start-up makes the only ones that own one, and
`services.Find` replaces them by copies. That is four steps, because gorm works on
the live list of the registry: `FindService` looks the struct up, `ReadRow` reads
the row and empties the list, `QueryCheckins` reads the checkins and
`AppendCheckin` puts them on the list one by one. Each may fail, which `Find` does
not look at. Two requests that do this at once, or one that ranges over the list
meanwhile, find it empty or half filled, and one append may undo another
(`ListBecomes`). `Wake`, `Fail` and `Stop` are the goroutine, `Tick` a minute; ages
are counted up to `Cap`. Writes fail if `"write" \in Faults`, reads if
`"read" \in Faults`.

What failing reads and writes cost has a name. `blind` are the checkins whose last
look could not read the hits: `LastHit` then returns a hit at the zero time, and the
checkin is reported however recently it was hit. A `CreateFailure` that fails is
only logged and tried again at the next look, so it takes `quiet`, the silence that
must be reported, back to one `Period`. `overlooked` are the checkins a DELETE of
the service did not see: written after it had read them, or missed by one that is
`troubled`, which could not read the list or had checkins taken off it by another
request. `OrphansOverlooked` says that nothing else survives the service.

Abstracted: goroutines act within the minute their timer expires (`Tick` waits
for them), which the Go scheduler does not promise to the second but for a
period in minutes comes to the same. The failure row itself is `reported`.

`Watchdog` has no timer and says nothing of when to look: a minute may not pass while
somebody has been silent for twice the patience and is not reported, and only
the silent are reported, or those whose record could not be seen. What
`Checkins` adds is how: a timer per goroutine, a read, and a write after it.

### Startup

`tables`, `services`, `admin`, `core` (the migration ids of the core rows),
`stored` (what `hits`, `failures` and their backups hold) and `config` survive a
crash; `pc` and `step` do not. Each statement that the database commits
separately is a step: `CreateTable`, `CreateAdminUser`, `CoreSamples`,
`Samples` (of the nine samplers the three whose rows are modelled, in their
order), each statement of `sqliteMigration` and `genericMigration`, `Mark`,
`MigrateDatabase`. `Crash` ends the process anywhere; `Error` makes a statement
fail, upon which `start` exits and the form's handler answers. A statement (`Run`)
takes place if its tables allow it, and fails otherwise. Of a measured value only
its scale is kept, the power of 10^6 it was multiplied by.

Some errors nobody looks at. `HasTable` then says no, `Count` none (`Found`), the
migration id is 0 (`Changes`), and a failure of the last statement of
`MigrateDatabase` rolls the transaction back and returns the error of the one
before, which is none. The program goes on, and `past` remembers it.

`past` is history, of `Marks`: "form" (a setup form was used), "coreless" (the
database was found with services and no core table), "unseen", "uncounted" and
"unread" (a core table, services, a migration id that an error hid), "undone" (the
silent rollback), and "cut": a start was cut at a `Delicate` place, that is between
the tables and their core row, between two UPDATEs of `genericMigration`, or
between the last statement of a migration and its id. What each property excepts:

| Property | Excepts |
|---|---|
| `UnitsRight` | cut, unread, form |
| `OneCoreRow` | cut, form |
| `SettledHasAdmin` | form |
| `KeepsServices` | uncounted; for a form's own step, coreless and unseen |
| `KeepsMeasurements` | nothing |

and nothing else: a start may be cut everywhere else and as often as one likes, and
every other read may fail. Each exception is needed: without it TLC finds a
violation. `KeepsServices` so names two ways this program loses services: a start
that finds no core table and fails to count the services drops them, and a form
drops them without counting. `MaxRows` bounds the core rows that forms leave.

### Session

One tab. `page` is what the router shows, `going` the navigation that is pending
and `mine` the guard it waits for; `check[g]` is the token the guard `g` has asked
the server about. A navigation that is replaced does not stop its guard, whose
answer still writes the store and may still redirect (`GuardAnswer`, from
`routes.js`). `todo[c]` is what is left of the chain `c`: that of the app
(`LoadCore`, then `loadRequired` or `loadAdmin`), of the login form, of the setup
form, and of a logout or a renewal of the keys; each step (`LoadItem`, `Auth`,
`Enter`, `SubmitSetup`, `LoggedOut`, ...) is the answer of the request at its
head. Nothing catches a rejected promise: `Lose` (no useful answer) and `Deny`
(not an administrator's cookie) drop the rest. The user's actions are `Go` (a
link or Back), `Login`, `SaveSetup`, `Logout`, `Renew` and `Reload`, which an OAuth
login is too. The world restarts the server (`Restart`, after which renewed keys
are in use), lets the cookie expire and uses other tabs (`Elsewhere`).

Abstracted: a cookie is what it is worth to the server, `Cookies`; `has` is which
data has arrived, never its contents; a page is a route with data of its own.
`proved`, `lost`, `denied` and `odd` are history and say what a property excepts.
`lost` is set by the first load of a server that is not set up yet, so
`FrontPageFilled` and `DashboardFilled` say nothing of the way through the setup
form from there until the tab is loaded again.

### Mirror and Lists

`log` is the sequence of the tables the server has held, each a function from
ids to contents; a behaviour follows one of the four tables. A call of an async
function passes through `pc`: `ask` and `find` (the handler counts users and finds the row), `store` (it
writes), `get` (the list is asked for), `read` (the server makes the answer),
`answer` (`Commit` puts it into the store), and may end anywhere (`Reject`). The
answer is made as each table's handler makes it. Services are copied one at a time
from the registry, with queries between, so each may be of another version
(`AnswerServices`, since `from`). The others are one query whose error is dropped:
the answer may be cut short or empty, with status 200 (`AnswerRows`, `Cut`). Of
services and groups a request whose cookie is gone (`strangers`, `Cookie`) gets the
public ones (`Given`); for users and messages it is refused. `form[t]` is the object
in the form and `live` says
that it is the object the list shows, so that `TypeInList` changes `shown`. The
buttons are guards: `Save` is disabled while `busy` except for announcements,
`Deletable` leaves the first user without a button, `Modal.runFunc` does not
wait for the delete it starts (`ConfirmDelete`). A reorder writes row by row
(`StoreNext`). `SaveElsewhere` is the service form, which is a page of its own.

Abstracted: the contents of a row; validation; an order of the rows other than
that of their ids. `InIdOrder` says that `users.All()`, whose query has no
`ORDER BY`, is answered in the order of ids, as SQLite and InnoDB do without an
index to prefer; `SomeUserRemains` is claimed under it only, since without it TLC
finds two dashboards with different first rows.

`Mirror` is the promise: `Write` appends a table, `Show` shows one that is or was
held (of services, each row as it is or was held), `Type` types into a row. A tab
that is `lacking` was given an answer that a failed read or a lost cookie left rows
out of; it shows nothing else either. That a tab shows the present table is no part
of it, and an answer may go back in time. `AnswersFollowWrites` is what a call can
rely on nevertheless: no row of its answer is older than its own write.

### Editing

`row` is the service in the table and `struct` the one in `allServices`. Every
request runs `Select` and `Scan` (`services.Find`: a SELECT, and its result put
into the shared struct), `Decode` (the body, decoded into the struct, a null or
missing field leaves it alone) and `Write` (gorm's `Updates` skips fields that are
zero; it may be refused). A `read` ends after `Scan`; a `rewrite` (reorder, patch)
brings no new values. `LoadPage`, `LoadGroups`, `LoadServices` and `CutPage` are the
page, of which any request may fail; the handler of the groups answers none when its
read fails. `OnDashboard` is the sorting of `DashboardIndex.vue`, by the getters of
`store.js`: the services without a group, and those of each group the page knows.
The public front page shows the same and, below, every service whatever its group,
and the list of services shows all, so what `MissingFromDashboard` speaks of is the
first page of the dashboard only.

Abstracted: a service is its interval and its group. `heard`, `stale`, `used` and
`missed` are history: what the bodies of overlapping requests asked for, whom an
old `Find` or another's write may have misled, ids given so far, and groups the
page lacks because they are newer or could not be read.

## Runs

| Run | Instance | Shows |
|---|---|---|
| `queue_live` | one service, two requests of any kind, reorders with unknown ids too | `Monitored`, `PanicTakesTwo` (only overlapping requests close a closed channel), `ReturnTakesTwo` (and only they bring a deleted service back), `ClosedForGoodStops`, `KeepsChecking` |
| `queue_close` | one service, one update | *violated*: `CloseStopsLoop` |
| `alerts_loop` | one service, two goroutines, two notifiers of which one is faulty, `NotifyAfter` 1, PUT bodies that set `online`, restarts | `OneAlertPerOutage`, `RepeatNeedsError`, `FirstAlertDelayed`, `KeepsPromise` (the refinement of `Outages`), `RecoveryAnnounced` |
| `notices_limit` | one faulty notifier, three goroutines, limit 2, stale copies, hours, restarts | `DisabledSoonSilent`, `HourlyLimit` |
| `checkins_late` | one checkin, period 2, two requests, failing reads and writes, restarts | `SilenceReported`, `OnlyLateReported`, `OrphansOverlooked`, `KeepsWatch` (the refinement of `Watchdog`) |
| `checkins_stops` | one checkin, one request | *violated*: `DeletedStops` |
| `startup_starts` | all databases, both dialects, forms, crashes, errors, seen and unseen | `UnitsRight`, `OneCoreRow`, `SettledHasAdmin`, `KeepsServices`, `KeepsMeasurements`, with the exceptions above |
| `startup_again` | new and current databases, forms, no faults | *violated*: `UnitsRightAfterForm` |
| `lists_mirror` | one tab with two calls, two ids, two changes of the table, failing reads, a cookie that comes and goes | `MirrorSpec` (the refinement), `AnswersFollowWrites`, `SomeUserRemains` |
| `session_tab` | one tab, two guards, two reloads, three requests of its user | `DashboardIsForAdmins`, `FrontPageFilled`, `DashboardFilled` |
| `editing_groups` | two requests, two groups, four edits, restarts, a page whose requests fail | `OnlyOverlapsUndo`, `MissingFromDashboard` |
| `editing_interval` | the same | *violated*: `LoopHasInterval` |

Every passing run also checks the module's `TypeOK`.
`Symmetry` is used in runs without liveness properties only, for elements that
no definition tells apart.

**Bounds.** *CheckQueue*: every race is between two goroutines in `Start`, two
requests in `Close`, or one of each, and requests serve one operation each, so
two requests on one service reach all of them (both goroutines of the requests
and the one of start-up run beside them); services share nothing but the map,
and a reorder's half-way stop is reached by an id that is not in it. The proofs
cover any number.
*ServiceAlerts*: the loop over notifiers is where one notifier's error meets
another's message, so two notifiers; passes cross in pairs, so two goroutines; a
`NotifyAfter` of 1 reaches both sides of the comparison. *Notices*: a limit of 2
and three goroutines tell the limit, the excess and its bound apart; notifiers share
nothing, so one. The proofs cover any of these numbers. *Checkins*: a period of two
minutes puts hits before, on and after the look; one checkin, since checkins
share nothing but the list, and two requests, which empty and fill it under each
other; the proofs cover any number and any period.
*Startup*: unbounded in starts and crashes; three core rows arise by forms only,
and `MaxRows` = 3 stops forms that fail for ever from adding more; scales are told
apart up to `MaxScale` = 2, where every wrong scale is already wrong.
*Session*: an answer can be late for one guard while another
waits, so two guards; `MaxReloads` = 2 and `MaxAsks` = 3 let a tab log in, go
away and come back between answers, and give some two million states. Chains,
losses, restarts and expiries are not bounded; the proofs bound nothing.
*Lists*: two calls are enough to overlap and overtake, in one tab as in two,
since the store is per tab and the table shared; `MaxWrites` = 2 is a write of
each. *Editing*: `MaxEdits` = 4 is a save, a save or reorder that overlaps it, a
change of the groups and a load of the page.

**Deadlock.** `CHECK_DEADLOCK FALSE` stands in the CheckQueue, Lists, Session and
Editing runs, because an instance whose requests have been served or whose bound
is used up has nothing more to do. ServiceAlerts, Notices, Checkins and Startup are
checked for deadlock.

**Fairness.** *CheckQueue*: weak fairness of every goroutine's steps (the Go
scheduler is preemptive, timers fire, each check has a timeout) and of requests
already accepted; strong fairness of `LoopStop`, since select picks at random
among ready cases and so cannot always pass over a closed channel. Nothing makes
a client send a request. *ServiceAlerts*: weak fairness of `Announce` (sends
have timeouts) and of `RecordSuccess`: the service keeps being checked, which is
`KeepsChecking`, and the antecedent of `RecoveryAnnounced` supplies that it is
online. *Checkins*: time passes and goroutines run. The front end's modules state
none: a request need never be answered, so what they promise is about the tab at
rest, never that it comes to rest.

## Proofs

For any values of the constants, with the named assumptions of the modules
(`Boot` is not a request, `None` is not a service or notifier, periods are
positive, the sets of services and goroutines are finite, ids are positive
numbers, and the like).

- `CheckQueueProofs!TypeCorrect`, `NeverLost`, `LonePanicFree` and
  `DeletedStaysDeleted`.
  `Monitored` is inductive together with `TypeOK`. The conjunct of `TypeOK` that
  carries it says that closed channels have numbers between 1 and `running[s]`:
  a channel just made is therefore open, so a goroutine in `LoopMake` ends in
  its loop with an open channel. The only step that closes a channel closes
  `s.Running`, and the request that takes it is then a DELETE, whose service
  becomes abandoned, or about to respawn. `PanicInv` strengthens
  `PanicTakesTwo`: a request alone in flight that has passed the test of `Close`
  still finds the channel open, because no other request can close one and
  goroutines only make new ones. The action property `ReturnTakesTwo` follows from
  `Found`: what a request that is alone has found is registered until it ends,
  since only requests unregister a service, and one that begins to do so ends the
  solitude of the other.
- `CheckinsProofs!Inductive`, `TypeCorrect`, `SilenceIsReported`,
  `ReportsAreLate`, `WatchIsKept`, `OrphansAreOverlooked`. `IInv` adds to `TypeOK`:
  what is not handed out yet is nowhere (`Born`), the silence counted is no longer
  than there was (`QuietIsSilence`), whoever is about to be reported has a reason
  (`LateHasReason`: late, lapsed, or a look that was blind), and a goroutine that has
  not reported looks again before two periods are over (`LooksInTime`: what it has
  waited and what is left on its timer come to at most two periods). The last is what
  makes the bound of two periods inductive, and what a minute of `Watchdog` needs:
  `WatchIsKept` maps every step to one of its steps or a stutter.
  `OrphansAreOverlooked` follows the list a DELETE works from, `s.Checkins`, which
  any request may empty, fill or clear at any moment: `Kept` says, for each DELETE
  and place, that a row that was not overlooked is still to be read, is on the
  registry's list when that is about to be taken, on the request's own list
  afterwards, or in its hands, unless the DELETE is troubled. `Ranging` says that
  nobody else ranges over it.
- `ServiceAlertsProofs!TypeCorrect`, `AnnouncedOnce`, `RepeatTakesError`,
  `FirstAlertWaits` and the refinement `AnnouncedInTurn`, for any services,
  notifiers and goroutines and with PUT bodies that set `online`.
  `OneAlertPerOutage` alone is not inductive, since a pass that is under way has
  notified some notifiers and not yet set `prevOnline`. `AInv` says, of a service that
  is not `crossed`, that at most one pass is under way (`Apart`) and that its notice is
  news to every notifier it has yet to come to (`News`, `Ahead`), and, crossed or not,
  that nothing is left over when no pass of its kind is under way (`Settled`).
  Whatever breaks the first two sets `crossed`, and the end of the last crossed pass
  restores them from the third. `Delayed` relates `notifyAfterCount`, which also
  counts notices, to the failures: with no pass under way, it and the goroutines that
  have recorded a failure and not looked yet (`Waiting`, a cardinality) come to at
  most the failures, until the first outage is announced. The same invariants make
  the refinement: a pass that begins finds the phase it needs or goes astray, whom it
  tells has not heard, and `Outages` is back in order when the last one ends.
- `NoticesProofs!TypeCorrect`, `LimitKept` and `SilentSoon`, for any notifiers,
  goroutines and limit. `Counted` says that `LastSentCount` covers what was sent
  since the last quiet hour (a decrement happens only after one, when that is
  nothing), and that it and the crowd that is on its way come to more than the limit
  only by less than there are `Senders`. `Silenced` is the same count for a notifier
  whose row says disabled: the first to have sent reads the row back, and only those
  already sending are left. The crowds (`Busy`, `Out`, `Returned`, `Uncounted`) are
  sets whose cardinalities the proof follows step by step.
- `StartupProofs!TypeCorrect`, `AdminComesFirst`, `ServicesAreKept`,
  `MeasurementsAreKept`, `ValuesAreScaledOnce`, `CoreRowIsAlone`: every property
  of `startup_starts`. `Place` says where the process is and what must have
  happened before, `BackupsAre` that a backup is only there while a migration is
  under way, the next start will try it again, or a migration id was not read.
  `AdminFirst` and `Coreless` are what the administrator and the services rest on:
  the core row comes after the one, and services without a core table were found
  so; `Lost` are the steps that drop services. `Copied` is the table of
  `sqliteMigration` read backwards: from its fourth statement on a backup with
  rows has a table with rows. `Undisturbed` lists what a database can be while all
  is `Calm` (no start cut at a delicate place, no id unread, no form), and gives for
  each statement of both migrations what `hits` and `failures` hold before it. Two of
  its cases are what an undelicate cut leaves behind for good: tables of which every
  later creation finds `users` (`HalfMade`), and a backup at which every later
  migration fails before it copies a row a second time (`HalfMoved`). No server comes
  up on either. `CoreRowIsAlone` also covers starts that could not read the id, of
  which `RowWithTable` says that a row has its table.
- `ListsProofs!TypeCorrect`, `KeepsPromise`, `OwnWritesAreShown`,
  `FirstUserRemains`. `KeepsPromise` is the refinement: init to init, every step to a
  step or a stutter of `Mirror`. What it needs, and what `OwnWritesAreShown` is,
  comes from `AnswerInv`: an answer is made of versions since the one the server held
  when it began, which is no older than the call's own write, with rows left out only
  in a call that is in `part`. `FirstUserRemains` is the argument that two overlapping
  deletes do not remove the last user, although each may count wrongly: the row with
  the smallest id (`Stays`) is the first of every list shown, also of one that a
  failed read cut, and so in no dialog and no delete's request.
- `SessionProofs!OnlyAdminsEnter`, `FrontPageIsFilled`, `DashboardIsFilled`, with
  `TypeCorrect`. `ChainOrder` says that each chain is a suffix of one of the
  sequences of the code, `Unopened` what an unopened tab lacks, `PublicFirst` that
  the flag of the public data comes with the data, `NobodyYet` and `LetIn` who can
  be on the dashboard (a guard that heard yes, or a login whose chain of
  administrator's requests went through), `FrontInv` and `DashInv` that data
  missing from a page is still in a chain or missed for a named reason.
- `EditingProofs!TypeCorrect`, `MovesAreAskedFor`, `DashboardLists`.
  `GroupsKnown` adds to the types that no group is named before it was created.
  `StructAccounted` says what a request that is past its `Find` is about to
  write: the row's group, or one that a body asked for while it ran, unless it
  has been misled (`stale`). `GroupsListed` says that a page knows every group its
  user may see and that it has not `missed`.

Checked by TLC only: liveness (`ClosedForGoodStops`, `KeepsChecking`,
`RecoveryAnnounced`), which is out of the prover's reach, and what the runs that
expect a violation refute. Every other property of every run is a theorem.

## Findings

Where code and documentation disagree, each shown by a run that TLC finds
violated (details in `PROJECT.json`):

1. `Close` does not stop a goroutine that is inside a check when an update closes
   its channel and respawns the service: when it comes back to its select,
   `s.Running` is the new channel. The service is checked twice per interval from
   then on.
2. Deleting a checkin does not stop its goroutine, which goes on writing
   failures: the struct it closes is a copy with a nil channel.
3. The setup form writes a second core row, with no migration id, so the next
   start multiplies every stored latency by 1000000.
4. A save with interval 0 is refused ("missing check interval"), and yet its
   body is in the struct by then and `Update` starts the check loop with it.

Seen with the same modules and other properties, and without a run of their own:

- *Alerts.* Two goroutines that record failures at the same time announce one
  outage twice, and a PUT body that changes `online` between the recording of a
  result and the look at it repeats an announcement (`OneAlertPerOutage` and
  `RepeatNeedsError` without `crossed`). `notify_after` delays the first outages of a
  process only, since its counter is never reset. Goroutines that share a notifier
  exceed its limit, by less than their number (`HourlyLimit`). A notice delivered
  with an error of `OnSuccess` is not counted and comes again with every check. A
  row read before a notifier was disabled, and copied after, enables it again until
  the next copy.
- *Services.* A check in flight during a DELETE leaves a hit or failure of a service
  that is gone. An update that had found its service before a DELETE puts it back into
  the registry (`ReturnTakesTwo` without its exception).
- *Checkins.* A checkin created while the server runs is not watched until the next
  start, because `LastHit` returns a pointer that is never nil. A checkin whose last
  hit cannot be read is reported as if it had none. A checkin created during the
  deletion of its service, or taken off the list by another request's `Find`,
  outlives it.
- *Start-up.* A crash while tables are created makes every later start fail, since
  `DropDatabase` stops after the first table; one after the core table is created
  leaves a server with neither administrator nor core row, which migrates again at
  every start; one inside a migration makes the next start scale values again (mysql,
  postgres) or fail for good because the backup tables exist (sqlite). A migration id
  that cannot be read makes a start scale the values of a current database; services
  that cannot be counted are dropped where the core table is missing.
- *Front end.* A deleted group leaves its services missing from the first page of the
  dashboard, although the dialog says they "will be removed from this group". A
  plain user whose login form sends `loadAdmin` is logged in only as far as the first
  refused request. A list can go back in time when two answers overtake each other,
  come back empty when the server's read fails, and mix two orders of the services.

## Not modelled

Protocol checks and integrations: network calls, of which the models see the
outcomes. OAuth's exchange with a provider, rendering, routing, metrics, assets
and logging: no state the other parts depend on. YAML services and samples: read
once. Series, charts and their grouping: pure computations around one query.
Incidents, maintenance, the command line: single statements on rows nobody else
changes. Two setup forms at once. Passwords, API keys and scopes of users.

Of the front end: pages that show the answer of one request (a service's page,
logs, help), charts, and forms that post a record and keep no list
(notifiers, OAuth, settings, checkins). More than half of its lines are a
vendored editor with its modes, a manual and style (`codemirror.js`, `css.js`,
`Help.vue`), and most of the rest is markup, translations and formatting, in
which nothing happens; so the map names only a small share of its lines, those
of the functions that send requests, write the store or move the router. The Go
program, which is where the goroutines are, has the larger part of the map. The
component list in `PROJECT.json` gives each part its reason.

## Keeping it true

A change of a mapped source line calls for its definition, then the runs of the
module, then its proofs; the mutants in `PROJECT.json` show that the properties
still say something. What would extend the models most, in order: an abstract
specification of monitoring that `CheckQueue` and `ServiceAlerts` implement
together; the refinement of a tab at rest by `Session` and `Lists` together; an
edit of `notify_after` or of a limit under a pass; two setup forms at once and the
transaction an error in `MigrateDatabase` leaves open; which path of each protocol
check records a success, a failure or nothing.
