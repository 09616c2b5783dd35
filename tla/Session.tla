------------------------------- MODULE Session -------------------------------
(***************************************************************************)
(* One browser tab: the page it shows, what its store has loaded, and who  *)
(* it thinks is logged in.                                                 *)
(*                                                                         *)
(* Loading is a chain of requests, each sent when the one before has been  *)
(* answered, and several chains run at once: that of the app, of the login *)
(* form, of the setup form and of a logout.  The router resolves one       *)
(* navigation at a time, but the guard of the dashboard awaits an answer   *)
(* of the server, and what an abandoned guard hears still counts.  Nothing *)
(* catches a request that fails: the rest of its chain does not happen.    *)
(***************************************************************************)
EXTENDS Naturals, Sequences, Functions

CONSTANTS
  Guards,      \* navigations to the dashboard that may await an answer
  None,        \* no guard
  MaxReloads,  \* how often the tab is reloaded (a bound)
  MaxAsks      \* how often its user asks for something (a bound)

ASSUME NoneAssumption == None \notin Guards
ASSUME BoundsAssumption == MaxReloads \in Nat /\ MaxAsks \in Nat

(* What the cookie of the browser is worth to the server. *)
Cookies == {"none", "user", "admin", "stale"}

Pages == {"start", "index", "login", "dashboard", "setup"}
Chains == {"app", "login", "setup", "logout"}

PublicData == {"groups", "services", "messages"}
AdminData == {"checkins", "notifiers", "users"}

(* loadRequired and loadAdmin: "public" stands for setHasPublicData(true). *)
Required == <<"groups", "services", "messages", "oauth", "public">>

(* Mutant: the data is complete only when all of it is there. *)
AdminAtOnce ==
  <<"checkins", "notifiers", "users",
    "groups", "services", "messages", "public", "oauth">>

Admin ==
  <<"groups", "services", "messages", "public",
    "checkins", "notifiers", "users", "oauth">>

Items == Range(Admin)
Steps == Items \cup {"core", "created", "auth", "enter", "submit", "reload",
                     "renew", "refresh", "logout", "leave"}

VARIABLES
  setup,     \* core.App.Setup of the server
  renewed,   \* the keys have been renewed since the server started
  cookie,    \* the worth of statping_auth, which all tabs share
  page,      \* the component the router shows
  going,     \* where the pending navigation goes
  check,     \* the token each guard has asked the server about
  mine,      \* the guard the pending navigation awaits
  admin, loggedIn,  \* state.admin, state.loggedIn
  has,       \* the data the store has
  todo,      \* what is left of each chain
  role,      \* auth.admin of the login under way
  reloads, asks, \* the bounds' counters
  proved,    \* history: the server took the cookie for an administrator's
  lost,      \* history: a request got no useful answer
  denied,    \* history: a request was refused for want of an admin's cookie
  odd        \* history: the server was set up by another tab; since the last
             \* login or reload the cookie went, or the app loaded nothing

server == <<setup, renewed>>
route == <<page, going, check, mine>>
store == <<admin, loggedIn, has>>
bounds == <<reloads, asks>>
history == <<proved, lost, denied, odd>>
vars == <<server, cookie, route, store, todo, role, bounds, history>>

Idle == "idle"
Nowhere == "nowhere"
NoChains == [c \in Chains |-> <<>>]
Quiet == \A c \in Chains : todo[c] = <<>>

-----------------------------------------------------------------------------
(* The router.                                                             *)

(* Mutant: the new navigation still waits for the guard of the old one. *)
PushStillWaits(to) ==
  \/ /\ to # "dashboard" \/ loggedIn
     /\ going' = to /\ UNCHANGED <<mine, check>>
  \/ /\ to = "dashboard" /\ ~loggedIn /\ cookie # "none"
     /\ \E g \in Guards :
          /\ check' = [check EXCEPT ![g] = cookie]
          /\ going' = to /\ mine' = g

(* A navigation that no guard delays; one to where the tab is does nothing,*)
(* and the pending one goes on.                                            *)
Turn(to) ==
  IF to = page THEN UNCHANGED <<going, mine>>
               ELSE going' = to /\ mine' = None

(* A guard that is asked last refuses. *)
Refuse ==
  /\ going' = IF page = "login" THEN Nowhere ELSE "login"
  /\ mine' = None

(* router.push: it replaces the pending navigation, but not its guard's    *)
(* wait.  The guard of the dashboard runs at once up to its request.       *)
Push(to) ==
  LET guarded == to = "dashboard" /\ ~loggedIn /\ page # "dashboard" IN
  \/ ~guarded /\ Turn(to) /\ UNCHANGED check
  \/ guarded /\ cookie = "none" /\ Refuse /\ UNCHANGED check
  \/ /\ guarded /\ cookie # "none"
     /\ \E g \in Guards :
          /\ check[g] = Idle
          /\ check' = [check EXCEPT ![g] = cookie]
          /\ going' = to /\ mine' = g

(* The address the tab is opened at: everything starts from nothing. *)
Open(to, c) ==
  /\ cookie' = c /\ page' = "start" /\ todo' = [NoChains EXCEPT !["app"] = <<"core">>]
  /\ IF to # "dashboard"
       THEN going' = to /\ mine' = None /\ check' = [g \in Guards |-> Idle]
     ELSE IF c = "none"
       THEN going' = "login" /\ mine' = None /\ check' = [g \in Guards |-> Idle]
     ELSE \E g \in Guards :
            /\ going' = to /\ mine' = g
            /\ check' = [h \in Guards |-> IF h = g THEN c ELSE Idle]
  /\ admin' = FALSE /\ loggedIn' = FALSE /\ has' = {} /\ role' = "none"
  /\ proved' = FALSE /\ lost' = FALSE /\ denied' = FALSE

Init ==
  /\ setup \in BOOLEAN /\ renewed = FALSE
  /\ cookie \in IF setup THEN Cookies ELSE {"none", "stale"}
  /\ page = "start" /\ going = Nowhere /\ mine = None
  /\ check = [g \in Guards |-> Idle]
  /\ admin = FALSE /\ loggedIn = FALSE /\ has = {} /\ role = "none"
  /\ todo = NoChains
  /\ reloads = 0 /\ asks = 0
  /\ proved = FALSE /\ lost = FALSE /\ denied = FALSE
  /\ odd = {}

(* The tab is opened, or reloaded; a login by OAuth is one, by a redirect  *)
(* of the server that sets the cookie.                                     *)
Reload(to) ==
  /\ reloads < MaxReloads /\ reloads' = reloads + 1
  /\ \/ Open(to, cookie)
     \/ page = "login" /\ setup /\ to = "dashboard" /\ Open(to, "admin")
  /\ odd' = odd \cap {"setup"}
  /\ UNCHANGED <<server, asks>>

(* The route is resolved and its component created.  That of the login     *)
(* form drops the cookie, that of the setup form asks whether it is needed.*)
Arrive ==
  /\ going # Nowhere /\ mine = None
  /\ going = "setup" => todo["setup"] = <<>>
  /\ page' = going /\ going' = Nowhere
  /\ cookie' = IF going = "login" THEN "none" ELSE cookie
  /\ odd' = odd \cup IF going = "login" THEN {"cookie"} ELSE {}
  /\ todo' = IF going = "setup" THEN [todo EXCEPT !["setup"] = <<"created">>] ELSE todo
  /\ UNCHANGED <<server, check, mine, store, role, bounds, proved, lost, denied>>

(* Mutant: the guard does not return after it refused. *)
GuardAnswerGoesOn(g) ==
  /\ check[g] # Idle
  /\ check' = [check EXCEPT ![g] = Idle]
  /\ admin' = (check[g] = "admin") /\ loggedIn' = (check[g] = "admin")
  /\ proved' = (proved \/ check[g] = "admin")
  /\ mine' = IF mine = g THEN None ELSE mine
  /\ UNCHANGED <<server, cookie, page, going, has, todo, role, bounds,
                 lost, denied, odd>>

(* The server's answer about the token a guard has asked for; an error, or *)
(* no answer, sends to the login form as a refusal does.  A guard whose    *)
(* navigation has been replaced sends there too.                           *)
GuardAnswer(g) ==
  /\ check[g] # Idle
  /\ check' = [check EXCEPT ![g] = Idle]
  /\ \/ /\ check[g] = "admin"
        /\ admin' = TRUE /\ loggedIn' = TRUE /\ proved' = TRUE
        /\ mine' = IF mine = g THEN None ELSE mine
        /\ UNCHANGED going
     \/ /\ \/ check[g] = "user" /\ admin' = FALSE /\ loggedIn' = FALSE
           \/ UNCHANGED <<admin, loggedIn>>
        /\ IF mine = g THEN Refuse ELSE Turn("login")
        /\ UNCHANGED proved
  /\ UNCHANGED <<server, cookie, page, has, todo, role, bounds, lost, denied, odd>>

-----------------------------------------------------------------------------
(* The user.                                                               *)

May == asks < MaxAsks /\ asks' = asks + 1

(* A link, or the Back button. *)
Go(to) ==
  /\ May /\ page # "start" /\ to # page /\ Push(to)
  /\ UNCHANGED <<server, cookie, page, store, todo, role, reloads, history>>

Begin(c, steps) ==
  /\ May /\ todo[c] = <<>> /\ todo' = [todo EXCEPT ![c] = steps]
  /\ UNCHANGED <<server, cookie, route, store, role, reloads, history>>

Login == page = "login" /\ Begin("login", <<"auth">>)
SaveSetup == page = "setup" /\ Begin("setup", <<"submit">>)
Logout == page = "dashboard" /\ Begin("logout", <<"logout", "leave">>)
Renew == page = "dashboard" /\ admin
         /\ Begin("logout", <<"renew", "refresh", "logout", "leave">>)

-----------------------------------------------------------------------------
(* The steps of a chain, each with the server's answer it waits for.       *)

Now(c, step) == todo[c] # <<>> /\ Head(todo[c]) = step
Then(c, steps) == todo' = [todo EXCEPT ![c] = steps]

(* The promise is rejected. *)
Stop(c) ==
  /\ Then(c, <<>>)
  /\ UNCHANGED <<server, cookie, route, store, role, bounds, proved, odd>>

(* Steps that follow the answer before them at once.  *)
Prompt == {"enter", "leave"}

Lose(c) ==
  /\ todo[c] # <<>> /\ Head(todo[c]) \notin Prompt
  /\ Stop(c) /\ lost' = TRUE /\ UNCHANGED denied

NeedsAdmin == AdminData \cup {"renew"}

Deny(c) ==
  /\ \E step \in NeedsAdmin : Now(c, step)
  /\ cookie # "admin"
  /\ Stop(c) /\ denied' = TRUE /\ UNCHANGED lost

(* One item of loadRequired or loadAdmin, and the flag some come with. *)
LoadItem(c) ==
  /\ todo[c] # <<>> /\ Head(todo[c]) \in Items
  /\ setup
  /\ Head(todo[c]) \in AdminData => cookie = "admin"
  /\ proved' = (proved \/ Head(todo[c]) \in AdminData)
  /\ LET flag == IF Len(todo[c]) > 1 /\ todo[c][2] = "public" THEN 1 ELSE 0 IN
       /\ has' = has \cup {todo[c][k] : k \in 1 .. 1 + flag}
       /\ Then(c, SubSeq(todo[c], 2 + flag, Len(todo[c])))
  /\ UNCHANGED <<server, cookie, route, admin, loggedIn, role, bounds,
                 lost, denied, odd>>

(* Mutant: the app asks whether someone is logged in. *)
LoadCoreLoggedIn ==
  /\ Now("app", "core") /\ setup
  /\ admin' = (cookie # "none")
  /\ Then("app", IF loggedIn THEN Admin ELSE Required)
  /\ UNCHANGED <<server, cookie, route, loggedIn, has, role, bounds, history>>

(* App: the core has arrived, and any cookie makes an admin.  Without a    *)
(* core the route turns to the setup form, which may take a moment.        *)
LoadCore ==
  LET data == IF cookie # "none" THEN Admin ELSE Required IN
  /\ Now("app", "core")
  /\ admin' = (cookie # "none")
  /\ \/ /\ setup
        /\ Then("app", IF page # "setup" THEN data ELSE <<>>)
        /\ odd' = odd \cup IF page # "setup" THEN {} ELSE {"skipped"}
        /\ UNCHANGED route
     \/ /\ ~setup
        /\ Then("app", IF page # "setup" THEN data ELSE <<>>)
        /\ Turn("setup") /\ UNCHANGED <<page, check, odd>>
  /\ UNCHANGED <<server, cookie, loggedIn, has, role, bounds, proved, lost, denied>>

(* Setup.created *)
SetupCreated ==
  /\ Now("setup", "created")
  /\ Then("setup", IF ~setup THEN <<>>
                   ELSE IF "public" \in has THEN <<"leave">>
                   ELSE Required \o <<"leave">>)
  /\ UNCHANGED <<server, cookie, route, store, role, bounds, history>>

(* Setup.saveSetup: the form is refused, or the server is set up, with     *)
(* which it signs its cookies anew.                                        *)
SubmitSetup ==
  /\ Now("setup", "submit")
  /\ \/ Then("setup", <<>>) /\ UNCHANGED <<setup, cookie>>
     \/ /\ ~setup /\ setup' = TRUE
        /\ cookie' = IF cookie = "none" THEN "none" ELSE "stale"
        /\ Then("setup", <<"reload">> \o Required \o <<"leave">>)
  /\ UNCHANGED <<renewed, route, store, role, bounds, history>>

(* The second loadCore of a tab, after the form. *)
ReloadCore ==
  /\ Now("setup", "reload")
  /\ admin' = (cookie # "none")
  /\ Then("setup", Tail(todo["setup"]))
  /\ UNCHANGED <<server, cookie, route, loggedIn, has, role, bounds, history>>

(* Login.login: wrong credentials, or a cookie of either worth. *)
Auth ==
  /\ Now("login", "auth") /\ setup
  /\ \/ Then("login", <<>>) /\ UNCHANGED <<cookie, role, odd>>
     \/ \E r \in {"user", "admin"} :
          /\ cookie' = r /\ role' = r /\ odd' = odd \cap {"setup"}
          /\ Then("login", Admin \o <<"enter">>)
  /\ UNCHANGED <<server, route, store, bounds, proved, lost, denied>>

(* The data of an administrator has arrived. *)
Enter ==
  /\ Now("login", "enter")
  /\ admin' = (role = "admin") /\ loggedIn' = TRUE
  /\ Turn("dashboard")
  /\ Then("login", <<>>)
  /\ UNCHANGED <<server, cookie, page, check, has, role, bounds,
                 proved, lost, denied, odd>>

(* Settings.renew *)
RenewKeys ==
  /\ Now("logout", "renew") /\ cookie = "admin"
  /\ renewed' = TRUE /\ proved' = TRUE
  /\ Then("logout", Tail(todo["logout"]))
  /\ UNCHANGED <<setup, cookie, route, store, role, bounds, lost, denied, odd>>

Refresh ==
  /\ Now("logout", "refresh") /\ Then("logout", Tail(todo["logout"]))
  /\ UNCHANGED <<server, cookie, route, store, role, bounds, history>>

(* The answer of logout removes the cookie; state.loggedIn stays. *)
LoggedOut ==
  /\ Now("logout", "logout")
  /\ cookie' = "none" /\ admin' = FALSE
  /\ odd' = odd \cup {"cookie"}
  /\ Then("logout", Tail(todo["logout"]))
  /\ UNCHANGED <<server, route, loggedIn, has, role, bounds, proved, lost, denied>>

(* The setup form and a logout go to the front page. *)
Leave(c) ==
  /\ Now(c, "leave") /\ Push("index") /\ Then(c, <<>>)
  /\ UNCHANGED <<server, cookie, page, store, role, bounds, history>>

-----------------------------------------------------------------------------
(* The rest of the world.                                                  *)

Worn(k) == IF k \in {"none", Idle} THEN k ELSE "stale"

(* After a restart the server signs with the renewed key. *)
Restart ==
  /\ renewed /\ renewed' = FALSE
  /\ cookie' = Worn(cookie) /\ check' = [g \in Guards |-> Worn(check[g])]
  /\ UNCHANGED <<setup, page, going, mine, store, todo, role, bounds, history>>

(* The browser drops the cookie when its three days are over. *)
Expire ==
  /\ cookie # "none"
  /\ cookie' = "none" /\ check' = [g \in Guards |-> Worn(check[g])]
  /\ odd' = odd \cup {"cookie"}
  /\ UNCHANGED <<server, page, going, mine, store, todo, role, bounds,
                 proved, lost, denied>>

(* Another tab of the browser logs in or out, or sets the server up. *)
Elsewhere(k) ==
  /\ May
  /\ \/ setup /\ cookie' = k /\ UNCHANGED setup /\ odd' = odd \cup {"cookie"}
     \/ ~setup /\ setup' = TRUE /\ cookie' = Worn(cookie)
        /\ odd' = odd \cup {"setup"}
  /\ UNCHANGED <<renewed, route, store, todo, role, reloads, proved, lost, denied>>

Next ==
  \/ \E to \in Pages \ {"start"} : Reload(to) \/ Go(to)
  \/ Arrive
  \/ \E g \in Guards : GuardAnswer(g)
  \/ Login \/ SaveSetup \/ Logout \/ Renew
  \/ \E c \in Chains : LoadItem(c) \/ Leave(c) \/ Lose(c) \/ Deny(c)
  \/ LoadCore \/ SetupCreated \/ SubmitSetup \/ ReloadCore
  \/ Auth \/ Enter \/ RenewKeys \/ Refresh \/ LoggedOut
  \/ Restart \/ Expire
  \/ \E k \in {"none", "user", "admin"} : Elsewhere(k)

Spec == Init /\ [][Next]_vars

-----------------------------------------------------------------------------
(* Properties.                                                             *)

(* Every variable has its type, and a navigation that waits waits for a    *)
(* guard that has asked.                                                   *)
TypeOK ==
  /\ setup \in BOOLEAN /\ renewed \in BOOLEAN
  /\ cookie \in Cookies
  /\ page \in Pages
  /\ going \in Pages \cup {Nowhere}
  /\ check \in [Guards -> (Cookies \ {"none"}) \cup {Idle}]
  /\ mine \in Guards \cup {None}
  /\ mine # None => check[mine] # Idle /\ going = "dashboard"
  /\ admin \in BOOLEAN /\ loggedIn \in BOOLEAN
  /\ has \subseteq Items
  /\ todo \in [Chains -> Seq(Steps)]
  /\ role \in {"none", "user", "admin"}
  /\ reloads \in 0 .. MaxReloads /\ asks \in 0 .. MaxAsks
  /\ proved \in BOOLEAN /\ lost \in BOOLEAN /\ denied \in BOOLEAN
  /\ odd \subseteq {"cookie", "setup", "skipped"}

(* The dashboard opens only in a tab whose cookie the server has taken for *)
(* an administrator's, whichever way it was reached and however late the   *)
(* answers of abandoned guards are.  Login.login relies on loadAdmin being *)
(* refused for this: it does not look at the `admin` it is told.           *)
DashboardIsForAdmins == loggedIn \/ page = "dashboard" => proved

(* The front page is never left without its data once the loading has come *)
(* to rest, be the cookie a plain user's or worn out, so that the rest of  *)
(* loadAdmin is refused, and whichever of the three ways led here.         *)
FrontPageFilled ==
  page = "index" /\ going = Nowhere /\ Quiet /\ setup /\ ~lost /\ "setup" \notin odd
    => PublicData \cup {"public"} \subseteq has

(* A dashboard at rest has every list it shows, unless a request was lost  *)
(* or refused, the cookie went while the tab loaded, or the app was opened *)
(* at the setup form of a server that needs none: then no list of          *)
(* administrators is ever loaded.                                          *)
DashboardFilled ==
  page = "dashboard" /\ Quiet /\ ~lost /\ ~denied /\ odd = {}
    => PublicData \cup AdminData \subseteq has

=============================================================================
