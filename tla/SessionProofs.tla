---------------------------- MODULE SessionProofs ----------------------------
(***************************************************************************)
(* Theorems about Session, for any number of guards, reloads and requests  *)
(* of the user.                                                            *)
(***************************************************************************)
EXTENDS Session, TLAPS

(* x is an element of the sequence s. *)
In(x, s) == \E k \in DOMAIN s : s[k] = x

(* The eight items, the names of all steps, and the data of the two kinds. *)
AllItems ==
  {"groups", "services", "messages", "public", "checkins", "notifiers",
   "users", "oauth"}
Others ==
  {"core", "created", "auth", "enter", "submit", "reload", "renew", "refresh",
   "logout", "leave"}
Public == PublicData \cup {"public"}
AllData == Public \cup AdminData

(* Nothing follows these steps in a chain... *)
LastSteps == {"core", "created", "auth", "submit", "enter", "leave"}

(* ... the mark that the public data is there follows other data, and      *)
(* public data comes before the mark and before the administrators'.       *)
Ordered(s) ==
  /\ \A k \in DOMAIN s : s[k] \in LastSteps => k = Len(s)
  /\ \A k \in DOMAIN s : s[k] = "public" => k > 1 /\ s[k - 1] \in AllItems
  /\ \A j, k \in DOMAIN s :
       j < k /\ s[j] \in AdminData \cup {"public", "renew"} => s[k] \notin Public

ChainOrder == \A c \in Chains : Ordered(todo[c])

-----------------------------------------------------------------------------
(* Chains.                                                                 *)

LEMMA StepNames ==
  Items = AllItems /\ Steps = AllItems \cup Others
<1>1. DOMAIN Admin = 1 .. 8
  BY DEF Admin
<1>2. \A k \in 1 .. 8 : Admin[k] \in AllItems
  BY DEF Admin, AllItems
<1>3. \A x \in AllItems : \E k \in 1 .. 8 : Admin[k] = x
  <2>1. /\ Admin[1] = "groups" /\ Admin[2] = "services" /\ Admin[3] = "messages"
        /\ Admin[4] = "public" /\ Admin[5] = "checkins" /\ Admin[6] = "notifiers"
        /\ Admin[7] = "users" /\ Admin[8] = "oauth"
    BY DEF Admin
  <2> QED BY <2>1 DEF AllItems
<1>4. Items = AllItems
  BY <1>1, <1>2, <1>3 DEF Items, Range
<1> QED BY <1>4 DEF Steps, Others

(* What is left of a chain after its first steps. *)
LEMMA Suffix ==
  ASSUME NEW S, NEW s \in Seq(S), NEW m \in 1 .. Len(s) + 1
  PROVE  LET t == SubSeq(s, m, Len(s)) IN
         /\ t \in Seq(S) /\ Len(t) = Len(s) + 1 - m /\ DOMAIN t = 1 .. Len(t)
         /\ \A k \in DOMAIN t : t[k] = s[k + m - 1] /\ k + m - 1 \in DOMAIN s
  OBVIOUS

LEMMA TailIsSuffix ==
  ASSUME NEW S, NEW s \in Seq(S), s # <<>>
  PROVE  Tail(s) = SubSeq(s, 2, Len(s)) /\ 2 \in 1 .. Len(s) + 1 /\ Head(s) = s[1]
  OBVIOUS

LEMMA OrderedSuffix ==
  ASSUME NEW s \in Seq(Steps), NEW m \in 1 .. Len(s) + 1, Ordered(s),
         m <= Len(s) => s[m] # "public"
  PROVE  Ordered(SubSeq(s, m, Len(s)))
<1> DEFINE t == SubSeq(s, m, Len(s))
<1>1. /\ Len(t) = Len(s) + 1 - m /\ DOMAIN t = 1 .. Len(t) /\ Len(t) \in Nat
      /\ m \in Nat /\ Len(s) \in Nat /\ m > 0 /\ DOMAIN s = 1 .. Len(s)
      /\ \A k \in DOMAIN t : t[k] = s[k + m - 1] /\ k + m - 1 \in DOMAIN s
  BY Suffix
<1> HIDE DEF t
<1>2. \A k \in DOMAIN t : t[k] \in LastSteps => k = Len(t)
  BY <1>1 DEF Ordered
<1>3. ASSUME NEW k \in DOMAIN t, t[k] = "public"
      PROVE  k > 1 /\ t[k - 1] \in AllItems
  <2>1. s[k + m - 1] = "public" /\ k + m - 1 \in DOMAIN s /\ k \in Nat /\ k > 0
    BY <1>1, <1>3
  <2>2. k # 1
    BY <1>1, <2>1
  <2>3. k - 1 \in DOMAIN t /\ (k - 1) + m - 1 = (k + m - 1) - 1
    BY <1>1, <1>3, <2>1, <2>2
  <2>4. s[(k + m - 1) - 1] \in AllItems
    BY <2>1 DEF Ordered
  <2> QED BY <1>1, <2>1, <2>2, <2>3, <2>4
<1>4. \A j, k \in DOMAIN t :
        j < k /\ t[j] \in AdminData \cup {"public", "renew"} => t[k] \notin Public
  <2>1. ASSUME NEW j \in DOMAIN t, NEW k \in DOMAIN t, j < k
        PROVE  /\ j + m - 1 \in DOMAIN s /\ k + m - 1 \in DOMAIN s
               /\ j + m - 1 < k + m - 1
               /\ t[j] = s[j + m - 1] /\ t[k] = s[k + m - 1]
    BY <1>1, <2>1
  <2> QED BY <2>1 DEF Ordered
<1> QED BY SMTT(30), <1>2, <1>3, <1>4 DEF Ordered

(* A chain with a step after it, or before it. *)
LEMMA StepAfter ==
  ASSUME NEW S, NEW s \in Seq(S), NEW x \in S
  PROVE  LET t == s \o <<x>> IN
         /\ t \in Seq(S) /\ Len(t) = Len(s) + 1 /\ DOMAIN t = 1 .. Len(t)
         /\ DOMAIN s = 1 .. Len(s) /\ t[Len(t)] = x
         /\ \A k \in DOMAIN s : t[k] = s[k]
  OBVIOUS

LEMMA StepBefore ==
  ASSUME NEW S, NEW s \in Seq(S), NEW x \in S
  PROVE  LET t == <<x>> \o s IN
         /\ t \in Seq(S) /\ Len(t) = Len(s) + 1 /\ DOMAIN t = 1 .. Len(t)
         /\ DOMAIN s = 1 .. Len(s) /\ t[1] = x
         /\ \A k \in DOMAIN s : t[k + 1] = s[k]
  OBVIOUS

(* The data that the server is asked for. *)
LEMMA DataChains ==
  /\ Required \in Seq(Steps) /\ Ordered(Required) /\ Required # <<>>
  /\ Admin \in Seq(Steps) /\ Ordered(Admin) /\ Admin # <<>>
  /\ \A k \in DOMAIN Required : Required[k] \in AllItems \ AdminData
  /\ \A k \in DOMAIN Admin : Admin[k] \in AllItems
  /\ \A x \in Public : In(x, Required)
  /\ \A x \in AllData : In(x, Admin)
<1>1. /\ Required \in Seq(Steps) /\ DOMAIN Required = 1 .. 5 /\ Len(Required) = 5
      /\ Required[1] = "groups" /\ Required[2] = "services"
      /\ Required[3] = "messages" /\ Required[4] = "oauth" /\ Required[5] = "public"
  BY StepNames DEF Required, AllItems
<1>2. /\ Admin \in Seq(Steps) /\ DOMAIN Admin = 1 .. 8 /\ Len(Admin) = 8
      /\ Admin[1] = "groups" /\ Admin[2] = "services" /\ Admin[3] = "messages"
      /\ Admin[4] = "public" /\ Admin[5] = "checkins" /\ Admin[6] = "notifiers"
      /\ Admin[7] = "users" /\ Admin[8] = "oauth"
  BY StepNames DEF Admin, AllItems
<1>3. \A k \in 1 .. 5 : k = 1 \/ k = 2 \/ k = 3 \/ k = 4 \/ k = 5
  OBVIOUS
<1>4. \A k \in 1 .. 8 : k = 1 \/ k = 2 \/ k = 3 \/ k = 4 \/ k = 5 \/ k = 6 \/ k = 7 \/ k = 8
  OBVIOUS
<1>5. \A x \in Public : In(x, Required)
  BY <1>1 DEF In, Public, PublicData
<1>6. \A x \in AllData : In(x, Admin)
  BY <1>2 DEF In, AllData, Public, PublicData, AdminData
<1>7. /\ \A k \in DOMAIN Required : Required[k] \in AllItems \ AdminData
      /\ Ordered(Required)
  <2>1. \A k \in DOMAIN Required : Required[k] \in AllItems \ AdminData
    BY <1>1, <1>3 DEF AllItems, AdminData
  <2>2. \A k \in DOMAIN Required : Required[k] \notin LastSteps
    BY <2>1 DEF AllItems, LastSteps
  <2>3. ASSUME NEW j \in 1 .. 5, NEW k \in 1 .. 5, j < k,
               Required[j] \in AdminData \cup {"public", "renew"}
        PROVE  FALSE
    <3>1. Required[j] = "public"
      BY <2>1, <2>3, <1>1 DEF AllItems
    <3>2. j = 5
      BY <1>1, <1>3, <3>1
    <3> QED BY <2>3, <3>2
  <2>4. Required[1] # "public"
    BY <1>1
  <2> QED BY <1>1, <2>1, <2>2, <2>3, <2>4 DEF Ordered
<1>8. /\ \A k \in DOMAIN Admin : Admin[k] \in AllItems
      /\ Ordered(Admin)
  <2>1. \A k \in DOMAIN Admin : Admin[k] \in AllItems
    BY <1>2, <1>4 DEF AllItems
  <2>2. \A k \in DOMAIN Admin : Admin[k] \notin LastSteps
    BY <2>1 DEF AllItems, LastSteps
  <2>3. ASSUME NEW j \in 1 .. 8, NEW k \in 1 .. 8, j < k,
               Admin[j] \in AdminData \cup {"public", "renew"}
        PROVE  Admin[k] \notin Public
    <3>1. j >= 4
      BY <1>2, <1>4, <2>3 DEF AdminData
    <3>2. k = 5 \/ k = 6 \/ k = 7 \/ k = 8
      BY <3>1, <1>4, <2>3
    <3> QED BY <3>2, <1>2 DEF Public, PublicData
  <2>4. Admin[1] # "public"
    BY <1>2
  <2> QED BY <1>2, <2>1, <2>2, <2>3, <2>4 DEF Ordered
<1>9. Required # <<>> /\ Admin # <<>>
  BY DEF Required, Admin
<1> QED BY <1>1, <1>2, <1>5, <1>6, <1>7, <1>8, <1>9

LEMMA OrderedAfter ==
  ASSUME NEW s \in Seq(Steps), NEW x \in {"enter", "leave"}, Ordered(s), s # <<>>,
         \A k \in DOMAIN s : s[k] \notin LastSteps
  PROVE  Ordered(s \o <<x>>) /\ s \o <<x>> \in Seq(Steps)
<1> DEFINE t == s \o <<x>>
<1>1. x \in Steps /\ x \notin AdminData \cup {"renew"} \cup Public
  BY StepNames DEF Others, AdminData, Public, PublicData
<1>2. /\ t \in Seq(Steps) /\ Len(t) = Len(s) + 1 /\ DOMAIN t = 1 .. Len(t)
      /\ DOMAIN s = 1 .. Len(s) /\ t[Len(t)] = x
      /\ \A k \in DOMAIN s : t[k] = s[k]
  BY <1>1, StepAfter
<1>3. Len(s) \in Nat \ {0}
  OBVIOUS
<1> HIDE DEF t
<1> QED BY <1>1, <1>2, <1>3 DEF Ordered, t

LEMMA OrderedBefore ==
  ASSUME NEW s \in Seq(Steps), Ordered(s)
  PROVE  Ordered(<<"reload">> \o s) /\ <<"reload">> \o s \in Seq(Steps)
<1> DEFINE t == <<"reload">> \o s
<1>1. /\ "reload" \in Steps
      /\ "reload" \notin AdminData \cup {"public", "renew"} \cup LastSteps
  BY StepNames DEF Others, AdminData, LastSteps
<1>2. /\ t \in Seq(Steps) /\ Len(t) = Len(s) + 1 /\ DOMAIN t = 1 .. Len(t)
      /\ DOMAIN s = 1 .. Len(s) /\ t[1] = "reload"
      /\ \A k \in DOMAIN s : t[k + 1] = s[k]
  BY <1>1, StepBefore
<1>3. \A k \in DOMAIN t : k = 1 \/ (k - 1 \in DOMAIN s /\ t[k] = s[k - 1])
  BY <1>2
<1> HIDE DEF t
<1>4. ASSUME NEW k \in DOMAIN t, t[k] \in LastSteps
      PROVE  k = Len(t)
  BY <1>1, <1>2, <1>3, <1>4 DEF Ordered
<1>5. ASSUME NEW j \in DOMAIN t, NEW k \in DOMAIN t, j < k,
             t[j] \in AdminData \cup {"public", "renew"}
      PROVE  t[k] \notin Public
  BY <1>1, <1>2, <1>3, <1>5 DEF Ordered
<1>6. t[1] # "public"
  BY <1>2
<1> QED BY <1>2, <1>4, <1>5, <1>6 DEF Ordered, t

(* The other chains begin with one of these. *)
Shorts ==
  {<<>>, <<"core">>, <<"created">>, <<"auth">>, <<"submit">>, <<"leave">>,
   <<"logout", "leave">>, <<"renew", "refresh", "logout", "leave">>}

LEMMA ShortChains ==
  ASSUME NEW s \in Shorts
  PROVE  s \in Seq(Steps) /\ Ordered(s) /\ \A x \in AllData : ~In(x, s)
<1>1. CASE s = <<>>
  BY <1>1 DEF Ordered, In
<1>2. CASE s \in {<<"core">>, <<"created">>, <<"auth">>, <<"submit">>, <<"leave">>}
  <2>1. PICK x \in {"core", "created", "auth", "submit", "leave"} : s = <<x>>
    BY <1>2
  <2>2. s \in Seq(Steps) /\ DOMAIN s = 1 .. 1 /\ Len(s) = 1 /\ s[1] = x
    BY <2>1, StepNames DEF Others
  <2>3. x \notin AllData /\ x # "renew"
    BY DEF AllData, AdminData, Public, PublicData
  <2> QED BY <2>2, <2>3 DEF Ordered, In, AllData
<1>3. CASE s = <<"logout", "leave">>
  BY <1>3, StepNames DEF Ordered, In, AllData, AdminData, Public, PublicData, Others,
     LastSteps
<1>4. CASE s = <<"renew", "refresh", "logout", "leave">>
  <2>1. /\ s \in Seq(Steps) /\ DOMAIN s = 1 .. 4 /\ Len(s) = 4
        /\ s[1] = "renew" /\ s[2] = "refresh" /\ s[3] = "logout" /\ s[4] = "leave"
    BY <1>4, StepNames DEF Others
  <2>2. \A k \in 1 .. 4 : k = 1 \/ k = 2 \/ k = 3 \/ k = 4
    OBVIOUS
  <2>3. \A k \in 1 .. 4 : s[k] \in {"renew", "refresh", "logout", "leave"}
    BY <2>1, <2>2
  <2>4. \A k \in 1 .. 4 : s[k] \in LastSteps => k = 4
    BY <2>1, <2>2 DEF LastSteps
  <2>5. {"renew", "refresh", "logout", "leave"} \cap AllData = {}
    BY DEF AllData, AdminData, Public, PublicData
  <2> QED BY <2>1, <2>3, <2>4, <2>5 DEF Ordered, In, AllData
<1> QED BY <1>1, <1>2, <1>3, <1>4 DEF Shorts

LEMMA LongChains ==
  /\ \A s \in {Required \o <<"leave">>, <<"reload">> \o Required \o <<"leave">>,
                Admin \o <<"enter">>} : s \in Seq(Steps) /\ Ordered(s)
  /\ \A x \in Public : /\ In(x, Required \o <<"leave">>)
                         /\ In(x, <<"reload">> \o Required \o <<"leave">>)
  /\ \A x \in AllData : In(x, Admin \o <<"enter">>)
<1> DEFINE r == <<"reload">> \o Required
<1>1. /\ "reload" \in Steps /\ "leave" \in Steps /\ "enter" \in Steps
      /\ "reload" \notin LastSteps
      /\ AllItems \cap LastSteps = {}
  BY StepNames DEF Others, AllItems, LastSteps
<1>2. /\ r \in Seq(Steps) /\ Ordered(r) /\ r # <<>> /\ DOMAIN r = 1 .. Len(r)
      /\ Len(r) = Len(Required) + 1 /\ r[1] = "reload"
      /\ DOMAIN Required = 1 .. Len(Required)
      /\ \A k \in DOMAIN Required : r[k + 1] = Required[k]
  BY <1>1, DataChains, StepBefore, OrderedBefore
<1>3. \A k \in DOMAIN r : k = 1 \/ (k - 1 \in DOMAIN Required /\ r[k] = Required[k - 1])
  BY <1>2, DataChains
<1> HIDE DEF r
<1>4. \A k \in DOMAIN r : r[k] \notin LastSteps
  BY <1>1, <1>2, <1>3, DataChains
<1>5. \A x \in Public : In(x, r)
  BY <1>2, DataChains DEF In
<1>6. \A k \in DOMAIN Required : Required[k] \notin LastSteps
  BY <1>1, DataChains
<1>7. \A k \in DOMAIN Admin : Admin[k] \notin LastSteps
  BY <1>1, DataChains
<1>8. r \o <<"leave">> \in Seq(Steps) /\ Ordered(r \o <<"leave">>)
  BY <1>2, <1>4, OrderedAfter
<1>9. /\ Required \o <<"leave">> \in Seq(Steps) /\ Ordered(Required \o <<"leave">>)
      /\ Admin \o <<"enter">> \in Seq(Steps) /\ Ordered(Admin \o <<"enter">>)
  BY <1>6, <1>7, DataChains, OrderedAfter
<1>10. ASSUME NEW s \in Seq(Steps), NEW x \in Steps, NEW y, In(y, s)
       PROVE  In(y, s \o <<x>>)
  BY <1>10, StepAfter DEF In
<1> QED BY <1>1, <1>2, <1>5, <1>8, <1>9, <1>10, DataChains DEF r

-----------------------------------------------------------------------------
(* The type invariant.                                                     *)

RouteOK ==
  /\ going \in Pages \cup {Nowhere}
  /\ check \in [Guards -> (Cookies \ {"none"}) \cup {Idle}]
  /\ mine \in Guards \cup {None}
  /\ mine # None => check[mine] # Idle /\ going = "dashboard"

StoreOK ==
  /\ admin \in BOOLEAN /\ loggedIn \in BOOLEAN
  /\ has \subseteq Items

HistoryOK ==
  /\ proved \in BOOLEAN /\ lost \in BOOLEAN /\ denied \in BOOLEAN
  /\ odd \subseteq {"cookie", "setup", "skipped"}

RestOK ==
  /\ setup \in BOOLEAN /\ renewed \in BOOLEAN
  /\ cookie \in Cookies
  /\ page \in Pages
  /\ role \in {"none", "user", "admin"}
  /\ reloads \in 0 .. MaxReloads /\ asks \in 0 .. MaxAsks

TodoOK == todo \in [Chains -> Seq(Steps)]

LEMMA TypeParts ==
  /\ TypeOK <=> RouteOK /\ StoreOK /\ HistoryOK /\ RestOK /\ TodoOK
  /\ TypeOK' <=> (RouteOK /\ StoreOK /\ HistoryOK /\ RestOK /\ TodoOK)'
  BY DEF TypeOK, RouteOK, StoreOK, HistoryOK, RestOK, TodoOK

(* A navigation leaves the router in order. *)
LEMMA TurnKeeps ==
  ASSUME RouteOK, NEW to \in Pages, Turn(to), check' = check
  PROVE  RouteOK'
  BY DEF RouteOK, Turn

LEMMA PushKeeps ==
  ASSUME RouteOK, NEW to \in Pages, Push(to), cookie \in Cookies
  PROVE  RouteOK'
<1> DEFINE guarded == to = "dashboard" /\ ~loggedIn /\ page # "dashboard"
<1>1. CASE ~guarded /\ Turn(to) /\ UNCHANGED check
  BY <1>1, TurnKeeps
<1>2. CASE Refuse /\ UNCHANGED check
  BY <1>2 DEF Refuse, RouteOK, Pages
<1>3. CASE /\ guarded /\ cookie # "none"
           /\ \E g \in Guards :
                /\ check[g] = Idle
                /\ check' = [check EXCEPT ![g] = cookie]
                /\ going' = to /\ mine' = g
  BY <1>3, NoneAssumption DEF RouteOK, Cookies, Idle
<1> QED BY <1>1, <1>2, <1>3 DEF Push

(* A chain turns into another. *)
LEMMA ThenKeeps ==
  ASSUME TodoOK, NEW c \in Chains, NEW s \in Seq(Steps), Then(c, s)
  PROVE  TodoOK' /\ todo'[c] = s /\ \A d \in Chains \ {c} : todo'[d] = todo[d]
  BY DEF TodoOK, Then

LEMMA NowSteps ==
  ASSUME TodoOK, NEW c \in Chains, todo[c] # <<>>
  PROVE  /\ todo[c] \in Seq(Steps) /\ Len(todo[c]) \in Nat \ {0}
         /\ DOMAIN todo[c] = 1 .. Len(todo[c]) /\ Head(todo[c]) = todo[c][1]
         /\ Tail(todo[c]) \in Seq(Steps)
  BY DEF TodoOK

LEMMA OpenTypes ==
  ASSUME RestOK, NEW to \in Pages, NEW k \in Cookies, Open(to, k)
  PROVE  /\ RouteOK' /\ StoreOK' /\ TodoOK'
         /\ cookie' \in Cookies /\ page' \in Pages /\ role' = "none"
         /\ proved' \in BOOLEAN /\ lost' \in BOOLEAN /\ denied' \in BOOLEAN
<1>1. RouteOK'
  <2>1. CASE to # "dashboard"
    BY <2>1 DEF Open, RouteOK, Idle, Nowhere
  <2>2. CASE to = "dashboard" /\ k = "none"
    BY <2>2 DEF Open, RouteOK, Idle, Nowhere, Pages
  <2>3. CASE to = "dashboard" /\ k # "none"
    BY <2>3, NoneAssumption DEF Open, RouteOK, Idle, Nowhere, Pages, Cookies
  <2> QED BY <2>1, <2>2, <2>3
<1>2. TodoOK'
  <2>1. <<"core">> \in Seq(Steps) /\ <<>> \in Seq(Steps)
    BY ShortChains DEF Shorts
  <2> QED BY <2>1 DEF Open, NoChains, TodoOK
<1> QED BY <1>1, <1>2 DEF Open, StoreOK, Pages

LEMMA TypeStep ==
  ASSUME TypeOK, [Next]_vars
  PROVE  TypeOK'
<1> USE TypeParts, BoundsAssumption
<1> USE DEF HistoryOK, RestOK, StoreOK
<1>0. <<>> \in Seq(Steps)
  OBVIOUS
<1>1. ASSUME NEW to \in Pages \ {"start"}, Reload(to)
      PROVE  TypeOK'
  <2>1. \E k \in Cookies : Open(to, k)
    BY <1>1 DEF Reload, Cookies
  <2> QED BY <1>1, <2>1, OpenTypes DEF Reload, server
<1>2. ASSUME NEW to \in Pages \ {"start"}, Go(to)
      PROVE  TypeOK'
  <2>1. RouteOK'
    BY <1>2, PushKeeps DEF Go
  <2>2. TodoOK'
    BY <1>2 DEF Go, TodoOK
  <2> QED BY <1>2, <2>1, <2>2 DEF Go, May, server, store, history
<1>3. CASE Arrive
  <2>1. RouteOK'
    BY <1>3 DEF Arrive, RouteOK
  <2>2. TodoOK'
    BY <1>3, ShortChains DEF Arrive, TodoOK, Shorts
  <2> QED BY <1>3, <2>1, <2>2 DEF Arrive, RouteOK, server, store, bounds, Cookies, Nowhere
<1>4. ASSUME NEW g \in Guards, GuardAnswer(g)
      PROVE  TypeOK'
  <2>1. RouteOK'
    BY <1>4, NoneAssumption DEF GuardAnswer, RouteOK, Refuse, Turn, Pages
  <2>2. TodoOK'
    BY <1>4 DEF GuardAnswer, TodoOK
  <2> QED BY <1>4, <2>1, <2>2 DEF GuardAnswer, server, bounds
<1>5. CASE Login \/ SaveSetup \/ Logout \/ Renew
  <2>1. PICK c \in Chains, s \in Shorts : Begin(c, s)
    BY <1>5 DEF Login, SaveSetup, Logout, Renew, Chains, Shorts
  <2>2. TodoOK'
    BY <2>1, ShortChains DEF Begin, TodoOK
  <2>3. RouteOK'
    BY <2>1 DEF Begin, RouteOK, route
  <2> QED BY <2>1, <2>2, <2>3 DEF Begin, May, server, store, history, route
<1>6. ASSUME NEW c \in Chains, LoadItem(c)
      PROVE  TypeOK'
  <2>1. PICK flag \in {0, 1} :
          /\ flag = 1 => Len(todo[c]) > 1
          /\ has' = has \cup {todo[c][k] : k \in 1 .. 1 + flag}
          /\ flag = 1 => todo[c][2] = "public"
          /\ Then(c, SubSeq(todo[c], 2 + flag, Len(todo[c])))
    <3>1. CASE Len(todo[c]) > 1 /\ todo[c][2] = "public"
      BY <1>6, <3>1 DEF LoadItem
    <3>2. CASE ~(Len(todo[c]) > 1 /\ todo[c][2] = "public")
      BY <1>6, <3>2 DEF LoadItem
    <3> QED BY <3>1, <3>2
  <2>2. /\ todo[c] \in Seq(Steps) /\ Len(todo[c]) \in Nat \ {0}
        /\ todo[c][1] \in Items
    BY <1>6, NowSteps DEF LoadItem
  <2>3. TodoOK'
    <3> DEFINE t == SubSeq(todo[c], 2 + flag, Len(todo[c]))
    <3>1. 2 + flag \in 1 .. Len(todo[c]) + 1
      BY <2>1, <2>2
    <3>2. t \in Seq(Steps)
      BY <2>2, <3>1, Suffix
    <3> QED BY <2>1, <3>2, ThenKeeps
  <2>4. has' \subseteq Items
    BY <2>1, <2>2, StepNames DEF AllItems
  <2>5. RouteOK'
    BY <1>6 DEF LoadItem, RouteOK, route
  <2> QED BY <1>6, <2>3, <2>4, <2>5 DEF LoadItem, server, bounds, route
<1>7. ASSUME NEW c \in Chains, Leave(c)
      PROVE  TypeOK'
  <2>1. RouteOK'
    BY <1>7, PushKeeps DEF Leave, Pages
  <2>2. TodoOK'
    BY <1>0, <1>7, ThenKeeps DEF Leave
  <2> QED BY <1>7, <2>1, <2>2 DEF Leave, server, store, bounds, history
<1>8. ASSUME NEW c \in Chains, Lose(c) \/ Deny(c)
      PROVE  TypeOK'
  <2>1. TodoOK'
    BY <1>0, <1>8, ThenKeeps DEF Lose, Deny, Stop
  <2>2. RouteOK'
    BY <1>8 DEF Lose, Deny, Stop, RouteOK, route
  <2> QED BY <1>8, <2>1, <2>2 DEF Lose, Deny, Stop, server, store, bounds, route
<1>9. CASE LoadCore
  <2>1. TodoOK'
    <3>1. PICK s \in {<<>>, Required, Admin} : Then("app", s)
      BY <1>9 DEF LoadCore
    <3> QED BY <1>0, <3>1, ThenKeeps, DataChains DEF Chains
  <2>2. RouteOK'
    <3>1. CASE UNCHANGED route
      BY <3>1 DEF RouteOK, route
    <3>2. CASE Turn("setup") /\ UNCHANGED check
      BY <3>2, TurnKeeps DEF Pages
    <3> QED BY <1>9, <3>1, <3>2 DEF LoadCore
  <2>3. odd' \subseteq {"cookie", "setup", "skipped"} /\ page' = page
    BY <1>9 DEF LoadCore, route
  <2> QED BY <1>9, <2>1, <2>2, <2>3 DEF LoadCore, server, bounds
<1>10. CASE SetupCreated
  <2>1. TodoOK'
    BY <1>10, ThenKeeps, LongChains, ShortChains DEF SetupCreated, Chains, Shorts
  <2>2. RouteOK'
    BY <1>10 DEF SetupCreated, RouteOK, route
  <2> QED BY <1>10, <2>1, <2>2 DEF SetupCreated, server, store, bounds, history, route
<1>11. CASE SubmitSetup
  <2>1. TodoOK'
    BY <1>11, ThenKeeps, LongChains, ShortChains DEF SubmitSetup, Chains, Shorts
  <2>2. RouteOK'
    BY <1>11 DEF SubmitSetup, RouteOK, route
  <2> QED BY ZenonT(40), <1>11, <2>1, <2>2 DEF SubmitSetup, store, bounds, history, route, Cookies
<1>12. CASE ReloadCore \/ Refresh \/ RenewKeys \/ LoggedOut
  <2>1. TodoOK'
    BY <1>12, ThenKeeps, NowSteps DEF ReloadCore, Refresh, RenewKeys, LoggedOut, Now, Chains
  <2>2. RouteOK'
    BY <1>12 DEF ReloadCore, Refresh, RenewKeys, LoggedOut, RouteOK, route
  <2>3. RestOK'
    BY <1>12 DEF ReloadCore, Refresh, RenewKeys, LoggedOut, server, bounds, route, Cookies
  <2>4. StoreOK'
    BY <1>12 DEF ReloadCore, Refresh, RenewKeys, LoggedOut, store
  <2>5. HistoryOK'
    BY <1>12 DEF ReloadCore, Refresh, RenewKeys, LoggedOut, history
  <2> QED BY <2>1, <2>2, <2>3, <2>4, <2>5
<1>13. CASE Auth
  <2>1. TodoOK'
    BY <1>13, ThenKeeps, LongChains, ShortChains DEF Auth, Chains, Shorts
  <2>2. RouteOK'
    BY <1>13 DEF Auth, RouteOK, route
  <2> QED BY <1>13, <2>1, <2>2 DEF Auth, server, store, bounds, route, Cookies
<1>14. CASE Enter
  <2>1. TodoOK'
    BY <1>14, ThenKeeps, ShortChains DEF Enter, Chains, Shorts
  <2>2. RouteOK'
    BY <1>14, TurnKeeps DEF Enter, Pages
  <2> QED BY <1>14, <2>1, <2>2 DEF Enter, server, bounds
<1>15. CASE Restart \/ Expire
  <2>1. \A k \in (Cookies \ {"none"}) \cup {Idle} :
          /\ Worn(k) \in (Cookies \ {"none"}) \cup {Idle}
          /\ Worn(k) = Idle <=> k = Idle
    BY DEF Worn, Cookies, Idle
  <2>2. Worn(cookie) \in Cookies
    BY DEF Worn, Cookies, Idle
  <2>3. RouteOK'
    BY <1>15, <2>1 DEF Restart, Expire, RouteOK
  <2>4. TodoOK'
    BY <1>15 DEF Restart, Expire, TodoOK
  <2> QED BY <1>15, <2>2, <2>3, <2>4 DEF Restart, Expire, server, store, bounds, history,
          Cookies
<1>16. ASSUME NEW k \in {"none", "user", "admin"}, Elsewhere(k)
       PROVE  TypeOK'
  <2>1. Worn(cookie) \in Cookies
    BY DEF Worn, Cookies, Idle
  <2>2. RouteOK'
    BY <1>16 DEF Elsewhere, RouteOK, route
  <2>3. TodoOK'
    BY <1>16 DEF Elsewhere, TodoOK
  <2>4. StoreOK'
    BY <1>16 DEF Elsewhere, store
  <2>5. HistoryOK'
    BY <1>16 DEF Elsewhere
  <2>6. RestOK'
    <3>1. cookie' \in Cookies
      BY <1>16, <2>1 DEF Elsewhere, Cookies
    <3>2. setup' \in BOOLEAN
      BY <1>16 DEF Elsewhere
    <3> QED BY <1>16, <3>1, <3>2 DEF Elsewhere, May, route
  <2> QED BY <2>2, <2>3, <2>4, <2>5, <2>6
<1>17. CASE UNCHANGED vars
  BY <1>17 DEF vars, server, route, store, bounds, history, RouteOK, TodoOK
<1> QED BY <1>1, <1>2, <1>3, <1>4, <1>5, <1>6, <1>7, <1>8, <1>9, <1>10, <1>11, <1>12,
        <1>13, <1>14, <1>15, <1>16, <1>17 DEF Next

LEMMA InitTypes ==
  ASSUME Init
  PROVE  TypeOK
<1>1. TodoOK
  BY DEF Init, NoChains, TodoOK
<1>2. RouteOK
  BY DEF Init, RouteOK
<1>3. RestOK
  <2>1. cookie \in Cookies
    <3>1. CASE setup
      BY <3>1 DEF Init
    <3>2. CASE ~setup
      BY <3>2 DEF Init, Cookies
    <3> QED BY <3>1, <3>2
  <2>2. setup \in BOOLEAN /\ renewed \in BOOLEAN
    BY DEF Init
  <2>3. reloads \in 0 .. MaxReloads /\ asks \in 0 .. MaxAsks
    BY BoundsAssumption DEF Init
  <2> QED BY <2>1, <2>2, <2>3 DEF Init, RestOK, Pages
<1>4. StoreOK /\ HistoryOK
  BY DEF Init, StoreOK, HistoryOK
<1> QED BY <1>1, <1>2, <1>3, <1>4, TypeParts

(* Every variable has its type, as in TypeOK of Session.                   *)
THEOREM TypeCorrect == Spec => []TypeOK
<1>1. TypeOK /\ [Next]_vars => TypeOK'
  BY TypeStep
<1> QED BY <1>1, InitTypes, PTL DEF Spec

-----------------------------------------------------------------------------
(* What a step does to the chains.                                         *)

(* The chains that steps other than a reload begin, and end with. *)
Begun ==
  {<<>>, <<"created">>, <<"auth">>, <<"submit">>, <<"leave">>,
   <<"logout", "leave">>, <<"renew", "refresh", "logout", "leave">>,
   Required, Admin, Required \o <<"leave">>, Admin \o <<"enter">>,
   <<"reload">> \o Required \o <<"leave">>}

LEMMA PublicChains ==
  ASSUME NEW s,
         s = Required \o <<"leave">> \/ s = <<"reload">> \o Required \o <<"leave">>
  PROVE  \A k \in DOMAIN s : s[k] \in {"leave", "reload"} \cup AllItems
<1> DEFINE r == <<"reload">> \o Required
<1>1. "leave" \in Steps /\ "reload" \in Steps
  BY StepNames DEF Others
<1>2. /\ r \in Seq(Steps)
      /\ \A k \in DOMAIN r : r[k] = "reload" \/ r[k] \in AllItems
  <2>1. /\ r \in Seq(Steps) /\ DOMAIN r = 1 .. Len(r)
        /\ Len(r) = Len(Required) + 1 /\ r[1] = "reload"
        /\ DOMAIN Required = 1 .. Len(Required)
        /\ \A k \in DOMAIN Required : r[k + 1] = Required[k]
    BY <1>1, DataChains, StepBefore
  <2>2. Len(Required) \in Nat
    BY DataChains
  <2> HIDE DEF r
  <2>3. ASSUME NEW k \in DOMAIN r, k # 1
        PROVE  k - 1 \in DOMAIN Required /\ r[k] = Required[k - 1]
    <3>1. k - 1 \in 1 .. Len(Required) /\ (k - 1) + 1 = k
      BY <2>1, <2>2, <2>3
    <3> QED BY <2>1, <3>1
  <2> QED BY <2>1, <2>3, DataChains
<1> HIDE DEF r
<1>3. \A k \in DOMAIN s : s[k] \in {"leave", "reload"} \cup AllItems
  <2>1. CASE s = Required \o <<"leave">>
    BY <2>1, <1>1, DataChains, StepAfter
  <2>2. CASE s = r \o <<"leave">>
    BY <2>2, <1>1, <1>2, StepAfter
  <2> QED BY <2>1, <2>2 DEF r
<1> QED BY <1>3

LEMMA BegunChains ==
  ASSUME NEW s \in Begun
  PROVE  /\ s \in Seq(Steps) /\ Ordered(s) /\ ~In("core", s)
         /\ (\E x \in AllData : In(x, s)) => \A x \in Public : In(x, s)
         /\ In("enter", s) => \A x \in AllData : In(x, s)
<1>0. AllItems \cap {"core", "enter"} = {}
  BY DEF AllItems
<1>1. CASE s = Required \/ s = Admin
  BY <1>1, <1>0, DataChains DEF In, AllData
<1>2. CASE s = Admin \o <<"enter">>
  <2>1. "enter" \in Steps
    BY StepNames DEF Others
  <2>2. \A k \in DOMAIN s : (k \in DOMAIN Admin /\ s[k] = Admin[k]) \/ s[k] = "enter"
    BY <1>2, <2>1, DataChains, StepAfter
  <2> QED BY <1>0, <1>2, <2>2, DataChains, LongChains DEF In, AllData
<1>3. CASE s = Required \o <<"leave">> \/ s = <<"reload">> \o Required \o <<"leave">>
  BY <1>0, <1>3, PublicChains, LongChains DEF In
<1>4. CASE s \in Shorts \ {<<"core">>}
  <2>1. ~In("core", s) /\ ~In("enter", s)
    BY <1>4 DEF Shorts, In
  <2> QED BY <1>4, <2>1, ShortChains
<1> QED BY <1>1, <1>2, <1>3, <1>4 DEF Begun, Shorts

(* No data of the chain is lost by the step... *)
Advanced(c) ==
  /\ has \subseteq has' /\ Ordered(todo'[c])
  /\ \A x \in AllData :
       In(x, todo[c]) =>
         In(x, todo'[c]) \/ (x \in has' /\ (x \in AdminData => proved'))

(* ... which does nothing new, or begins a chain where there was none.     *)
Calm(c) == Advanced(c) /\ \A y : In(y, todo'[c]) => In(y, todo[c])

Fresh(c) ==
  /\ Advanced(c)
  /\ todo'[c] \in Begun /\ (In("enter", todo'[c]) => Auth)

LEMMA Shortened ==
  ASSUME TodoOK, NEW c \in Chains, NEW m \in 2 .. Len(todo[c]) + 1,
         Ordered(todo[c]), Then(c, SubSeq(todo[c], m, Len(todo[c]))),
         m <= Len(todo[c]) => todo[c][m] # "public",
         has \subseteq has',
         \A k \in 1 .. m - 1 :
           todo[c][k] \in AllData =>
             todo[c][k] \in has' /\ (todo[c][k] \in AdminData => proved')
  PROVE  Calm(c)
<1> DEFINE s == todo[c]
           t == SubSeq(s, m, Len(s))
<1>1. s \in Seq(Steps) /\ m \in 1 .. Len(s) + 1 /\ DOMAIN s = 1 .. Len(s) /\ Len(s) \in Nat
  BY DEF TodoOK
<1>2. /\ t \in Seq(Steps) /\ Len(t) = Len(s) + 1 - m /\ DOMAIN t = 1 .. Len(t)
      /\ \A k \in DOMAIN t : t[k] = s[k + m - 1] /\ k + m - 1 \in DOMAIN s
  BY <1>1, Suffix
<1>3. Ordered(t)
  BY <1>1, OrderedSuffix
<1>4. todo'[c] = t
  BY <1>2, ThenKeeps
<1> HIDE DEF s, t
<1>5. \A y : In(y, t) => In(y, s)
  BY <1>2 DEF In
<1>6. ASSUME NEW x \in AllData, In(x, s)
      PROVE  In(x, t) \/ (x \in has' /\ (x \in AdminData => proved'))
  <2>1. PICK k \in DOMAIN s : s[k] = x
    BY <1>6 DEF In
  <2>2. CASE k < m
    BY <1>1, <2>1, <2>2 DEF s
  <2>3. CASE k >= m
    <3>1. k - m + 1 \in DOMAIN t /\ t[k - m + 1] = s[k]
      BY <1>1, <1>2, <2>3
    <3> QED BY <2>1, <3>1 DEF In
  <2> QED BY <1>1, <2>2, <2>3
<1> QED BY <1>3, <1>4, <1>5, <1>6 DEF Calm, Advanced, s

LEMMA NothingLeft ==
  ASSUME TodoOK, NEW c \in Chains, Ordered(todo[c]),
         todo[c] = <<>> \/ (todo[c] # <<>> /\ Head(todo[c]) \in LastSteps)
  PROVE  \A x \in AllData : ~In(x, todo[c])
<1>1. CASE todo[c] = <<>>
  BY <1>1 DEF In
<1>2. CASE todo[c] # <<>> /\ Head(todo[c]) \in LastSteps
  <2>1. DOMAIN todo[c] = 1 .. 1
    BY <1>2, NowSteps DEF Ordered
  <2>2. todo[c][1] \notin AllData
    BY <1>2, NowSteps DEF LastSteps, AllData, AdminData, Public, PublicData
  <2> QED BY <2>1, <2>2 DEF In
<1> QED BY <1>1, <1>2

LEMMA Replaced ==
  ASSUME TodoOK, NEW c \in Chains, Ordered(todo[c]),
         todo[c] = <<>> \/ (todo[c] # <<>> /\ Head(todo[c]) \in LastSteps),
         NEW s \in Begun, todo'[c] = s, has \subseteq has',
         In("enter", s) => Auth
  PROVE  Fresh(c)
  BY NothingLeft, BegunChains DEF Fresh, Advanced

LEMMA Untouched ==
  ASSUME NEW c \in Chains, Ordered(todo[c]), todo'[c] = todo[c], has \subseteq has'
  PROVE  Calm(c)
  BY DEF Calm, Advanced

LEMMA ChainStep ==
  ASSUME TypeOK, ChainOrder, [Next]_vars,
         ~ \E to \in Pages \ {"start"} : Reload(to), NEW c \in Chains
  PROVE  \/ Calm(c) \/ Fresh(c)
         \/ (Lose(c) \/ Deny(c)) /\ todo'[c] = <<>> /\ has' = has
<1> USE TypeParts
<1>0. Ordered(todo[c]) 
  BY DEF ChainOrder
<1>1. ASSUME UNCHANGED <<todo, has>>
      PROVE  Calm(c)
  BY <1>0, <1>1, Untouched
<1>2. ASSUME NEW d \in Chains, d # c, NEW s \in Seq(Steps), Then(d, s), has \subseteq has'
      PROVE  Calm(c)
  BY <1>0, <1>2, ThenKeeps, Untouched
<1>3. ASSUME NEW d \in Chains, NEW s \in Begun, Then(d, s), has' = has,
             todo[d] = <<>> \/ (todo[d] # <<>> /\ Head(todo[d]) \in LastSteps),
             In("enter", s) => Auth
      PROVE  Calm(c) \/ Fresh(c)
  <2>1. s \in Seq(Steps)
    BY BegunChains
  <2>2. CASE d # c
    BY <1>2, <1>3, <2>1, <2>2
  <2>3. CASE d = c
    <3>1. todo'[c] = s
      BY <1>3, <2>1, <2>3, ThenKeeps
    <3> QED BY <1>0, <1>3, <2>3, <3>1, Replaced
  <2> QED BY <2>2, <2>3
<1>4. ASSUME NEW d \in Chains, todo[d] # <<>>, Head(todo[d]) \notin AllItems \cup AllData,
             Then(d, Tail(todo[d])), has' = has
      PROVE  Calm(c)
  <2>1. /\ todo[d] \in Seq(Steps) /\ Tail(todo[d]) = SubSeq(todo[d], 2, Len(todo[d]))
        /\ 2 \in 2 .. Len(todo[d]) + 1 /\ Head(todo[d]) = todo[d][1]
        /\ Tail(todo[d]) \in Seq(Steps)
    BY <1>4, NowSteps, TailIsSuffix
  <2>2. CASE d # c
    BY <1>2, <1>4, <2>1, <2>2
  <2>3. CASE d = c
    <3>1. Then(c, SubSeq(todo[c], 2, Len(todo[c])))
      BY <1>4, <2>1, <2>3
    <3>2. \A k \in 1 .. 2 - 1 : todo[c][k] \notin AllData
      BY <1>4, <2>1, <2>3
    <3>3. has \subseteq has' /\ (2 <= Len(todo[c]) => todo[c][2] # "public")
      <4>1. ASSUME 2 <= Len(todo[c]), todo[c][2] = "public"
            PROVE  FALSE
        <5>1. 2 \in DOMAIN todo[c] /\ 2 - 1 = 1 /\ todo[c][1] \notin AllItems
          BY <1>4, <2>1, <2>3, <4>1, NowSteps
        <5> QED BY <1>0, <4>1, <5>1 DEF Ordered
      <4> QED BY <1>4, <4>1
    <3> QED BY <1>0, <2>1, <2>3, <3>1, <3>2, <3>3, Shortened
  <2> QED BY <2>2, <2>3
<1>5. ASSUME NEW to \in Pages \ {"start"}, Go(to)
      PROVE  Calm(c)
  BY <1>1, <1>5 DEF Go, store
<1>6. CASE Arrive
  <2>1. CASE going # "setup"
    BY <1>1, <1>6, <2>1 DEF Arrive, store
  <2>2. CASE going = "setup"
    <3>1. todo["setup"] = <<>> /\ Then("setup", <<"created">>) /\ has' = has
      BY <1>6, <2>2 DEF Arrive, store, Then
    <3>2. "setup" \in Chains /\ <<"created">> \in Begun /\ ~In("enter", <<"created">>)
      BY DEF Chains, Begun, In
    <3> QED BY <1>3, <3>1, <3>2
  <2> QED BY <2>1, <2>2
<1>7. ASSUME NEW g \in Guards, GuardAnswer(g)
      PROVE  Calm(c)
  BY <1>1, <1>7 DEF GuardAnswer
<1>8. CASE Login \/ SaveSetup \/ Logout \/ Renew
  <2> DEFINE steps == {<<"auth">>, <<"submit">>, <<"logout", "leave">>,
                       <<"renew", "refresh", "logout", "leave">>}
  <2>1. PICK d \in Chains, s \in steps : Begin(d, s)
    BY <1>8 DEF Login, SaveSetup, Logout, Renew, Chains
  <2>2. s \in Begun /\ ~In("enter", s)
    BY DEF Begun, In
  <2> QED BY <1>3, <2>1, <2>2 DEF Begin, Then, store
<1>9. ASSUME NEW d \in Chains, LoadItem(d)
      PROVE  Calm(c)
  <2>1. PICK flag \in {0, 1} :
          /\ flag = 1 => Len(todo[d]) > 1
          /\ has' = has \cup {todo[d][k] : k \in 1 .. 1 + flag}
          /\ flag = 0 => ~(Len(todo[d]) > 1 /\ todo[d][2] = "public")
          /\ flag = 1 => todo[d][2] = "public"
          /\ Then(d, SubSeq(todo[d], 2 + flag, Len(todo[d])))
    <3>1. CASE Len(todo[d]) > 1 /\ todo[d][2] = "public"
      BY <1>9, <3>1 DEF LoadItem
    <3>2. CASE ~(Len(todo[d]) > 1 /\ todo[d][2] = "public")
      BY <1>9, <3>2 DEF LoadItem
    <3> QED BY <3>1, <3>2
  <2> DEFINE m == 2 + flag
             t == SubSeq(todo[d], m, Len(todo[d]))
  <2>2. /\ todo[d] \in Seq(Steps) /\ Len(todo[d]) \in Nat \ {0}
        /\ DOMAIN todo[d] = 1 .. Len(todo[d])
        /\ m \in 2 .. Len(todo[d]) + 1 /\ Ordered(todo[d])
    BY <1>9, <2>1, NowSteps DEF LoadItem, ChainOrder
  <2>3. t \in Seq(Steps)
    BY <2>2, Suffix
  <2>4. m <= Len(todo[d]) => todo[d][m] # "public"
    <3>1. CASE flag = 0
      BY <2>1, <2>2, <3>1
    <3>2. CASE flag = 1 /\ 3 <= Len(todo[d])
      BY <2>1, <2>2, <3>2 DEF Ordered, Public
    <3> QED BY <3>1, <3>2
  <2>5. \A k \in 1 .. m - 1 :
          todo[d][k] \in has' /\ (todo[d][k] \in AdminData => proved')
    <3>1. todo[d][1] \in AdminData => proved'
      BY <1>9, <2>2, NowSteps DEF LoadItem
    <3>2. ASSUME NEW k \in 1 .. m - 1
          PROVE  k = 1 \/ (k = 2 /\ flag = 1)
      BY <2>1, <3>2
    <3> QED BY <2>1, <3>1, <3>2 DEF AdminData
  <2>6. CASE d # c
    BY <1>2, <2>1, <2>3, <2>6
  <2>7. CASE d = c
    BY <2>1, <2>2, <2>4, <2>5, <2>7, Shortened
  <2> QED BY <2>6, <2>7
<1>10. ASSUME NEW d \in Chains, Leave(d)
       PROVE  Calm(c) \/ Fresh(c)
  <2>1. <<>> \in Begun /\ ~In("enter", <<>>)
    BY DEF Begun, In
  <2> QED BY <1>3, <1>10, <2>1 DEF Leave, Now, LastSteps, store
<1>11. ASSUME NEW d \in Chains, Lose(d) \/ Deny(d)
       PROVE  Calm(c) \/ ((Lose(c) \/ Deny(c)) /\ todo'[c] = <<>> /\ has' = has)
  <2>1. <<>> \in Seq(Steps) /\ Then(d, <<>>) /\ has' = has
    BY <1>11 DEF Lose, Deny, Stop, store
  <2>2. CASE d = c
    BY <1>11, <2>1, <2>2, ThenKeeps
  <2>3. CASE d # c
    BY <1>2, <2>1, <2>3
  <2> QED BY <2>2, <2>3
<1>12. CASE LoadCore
  <2>1. PICK s \in {<<>>, Required, Admin} : Then("app", s)
    BY <1>12 DEF LoadCore
  <2>2. s \in Begun /\ "app" \in Chains /\ ~In("enter", s)
    <3>1. ~In("enter", <<>>)
      BY DEF In
    <3>2. ~In("enter", Required) /\ ~In("enter", Admin)
      BY DataChains DEF In, AllItems
    <3> QED BY <3>1, <3>2 DEF Begun, Chains
  <2> QED BY <1>3, <1>12, <2>1, <2>2 DEF LoadCore, Now, LastSteps
<1>13. CASE SetupCreated
  <2>1. PICK s \in {<<>>, <<"leave">>, Required \o <<"leave">>} :
          Then("setup", s)
    BY <1>13 DEF SetupCreated
  <2>2. s \in Begun /\ "setup" \in Chains /\ ~In("enter", s)
    <3>1. ~In("enter", <<>>) /\ ~In("enter", <<"leave">>)
      BY DEF In
    <3>2. ~In("enter", Required \o <<"leave">>)
      BY PublicChains DEF In, AllItems
    <3> QED BY <3>1, <3>2 DEF Begun, Chains
  <2> QED BY <1>3, <1>13, <2>1, <2>2 DEF SetupCreated, Now, LastSteps, store
<1>14. CASE SubmitSetup
  <2> DEFINE r == <<"reload">> \o Required \o <<"leave">>
  <2>1. PICK s \in {<<>>, r} : Then("setup", s)
    BY <1>14 DEF SubmitSetup
  <2>2. s \in Begun /\ "setup" \in Chains
    BY DEF Begun, Chains
  <2>3. ~In("enter", s)
    <3>1. ~In("enter", <<>>)
      BY DEF In
    <3>2. ~In("enter", r)
      BY PublicChains DEF In, AllItems
    <3> QED BY <3>1, <3>2
  <2> QED BY <1>3, <1>14, <2>1, <2>2, <2>3 DEF SubmitSetup, Now, LastSteps, store
<1>15. CASE ReloadCore \/ Refresh \/ RenewKeys \/ LoggedOut
  <2>1. PICK d \in Chains, step \in {"reload", "refresh", "renew", "logout"} :
          Now(d, step) /\ Then(d, Tail(todo[d]))
    BY <1>15 DEF ReloadCore, Refresh, RenewKeys, LoggedOut, Now, Chains
  <2>2. has' = has
    BY <1>15 DEF ReloadCore, Refresh, RenewKeys, LoggedOut, store
  <2>3. step \notin AllItems \cup AllData
    BY DEF AllItems, AllData, AdminData, Public, PublicData
  <2> QED BY <1>4, <2>1, <2>2, <2>3 DEF Now
<1>16. CASE Auth
  <2>1. PICK s \in {<<>>, Admin \o <<"enter">>} : Then("login", s)
    BY <1>16 DEF Auth
  <2>2. s \in Begun /\ "login" \in Chains
    BY DEF Begun, Chains
  <2> QED BY <1>3, <1>16, <2>1, <2>2 DEF Auth, Now, LastSteps, store, server
<1>17. CASE Enter
  <2>1. <<>> \in Begun /\ "login" \in Chains /\ ~In("enter", <<>>)
    BY DEF Begun, Chains, In
  <2> QED BY <1>3, <1>17, <2>1 DEF Enter, Now, LastSteps
<1>18. CASE Restart \/ Expire
  BY <1>1, <1>18 DEF Restart, Expire, store
<1>19. ASSUME NEW k \in {"none", "user", "admin"}, Elsewhere(k)
       PROVE  Calm(c)
  BY <1>1, <1>19 DEF Elsewhere, store
<1>20. CASE UNCHANGED vars
  BY <1>1, <1>20 DEF vars, store
<1> QED
  BY <1>5, <1>6, <1>7, <1>8, <1>9, <1>10, <1>11, <1>12, <1>13, <1>14, <1>15, <1>16,
     <1>17, <1>18, <1>19, <1>20 DEF Next

LEMMA ReloadTab ==
  ASSUME TypeOK, NEW to \in Pages \ {"start"}, Reload(to)
  PROVE  /\ todo'["app"] = <<"core">>
         /\ \A c \in Chains \ {"app"} : todo'[c] = <<>>
         /\ has' = {} /\ ~loggedIn'
         /\ page' = "start" /\ going' \in Pages \ {"start"}
         /\ going' = "dashboard" => mine' # None
         /\ \A g \in Guards : check'[g] = Idle \/ (check'[g] = cookie' /\ cookie' # "none")
         /\ cookie' = cookie \/ (setup /\ cookie' = "admin")
         /\ setup' = setup /\ ~proved' /\ ~lost' /\ ~denied' /\ odd' = odd \cap {"setup"}
<1>1. PICK k \in Cookies : Open(to, k) /\ (k = cookie \/ (setup /\ k = "admin"))
  BY DEF Reload, Cookies, TypeOK
<1>2. todo' = [NoChains EXCEPT !["app"] = <<"core">>] /\ cookie' = k /\ page' = "start"
      /\ has' = {} /\ ~loggedIn' /\ ~proved' /\ ~lost' /\ ~denied'
  BY <1>1 DEF Open
<1>3. /\ going' \in Pages \ {"start"}
      /\ going' = "dashboard" => mine' # None
      /\ \A g \in Guards : check'[g] = Idle \/ (check'[g] = k /\ k # "none")
  <2>1. CASE to # "dashboard"
    BY <1>1, <2>1 DEF Open
  <2>2. CASE to = "dashboard" /\ k = "none"
    BY <1>1, <2>2 DEF Open, Pages
  <2>3. CASE to = "dashboard" /\ k # "none"
    BY <1>1, <2>3, NoneAssumption DEF Open
  <2> QED BY <2>1, <2>2, <2>3
<1> QED BY <1>1, <1>2, <1>3 DEF Reload, server, NoChains, Chains

LEMMA OrderStep ==
  ASSUME TypeOK, ChainOrder, [Next]_vars
  PROVE  ChainOrder'
<1>1. CASE \E to \in Pages \ {"start"} : Reload(to)
  <2>1. Ordered(<<>>) /\ Ordered(<<"core">>)
    BY ShortChains DEF Shorts
  <2> QED BY <1>1, <2>1, ReloadTab DEF ChainOrder
<1>2. CASE ~ \E to \in Pages \ {"start"} : Reload(to)
  <2>1. Ordered(<<>>)
    BY ShortChains DEF Shorts
  <2> QED BY <1>2, <2>1, ChainStep DEF ChainOrder, Calm, Fresh, Advanced
<1> QED BY <1>1, <1>2

-----------------------------------------------------------------------------
(* The page and where it goes.                                             *)

Opened == page # "start" \/ going # Nowhere

(* Nothing is under way in a tab that has not been opened. *)
Unopened ==
  /\ going # "start"
  /\ ~Opened => (\A c \in Chains : todo[c] = <<>>) /\ \A g \in Guards : check[g] = Idle

(* Once a tab is open it is somewhere, or on its way. *)
LEMMA OpenedStep ==
  ASSUME TypeOK, Unopened, [Next]_vars, ~ \E to \in Pages \ {"start"} : Reload(to)
  PROVE  Unopened' /\ (Opened' <=> Opened)
<1>1. ASSUME NEW to \in Pages \ {"start"}, Turn(to), page' = page, Opened
      PROVE  going' # "start" /\ Opened'
  BY <1>1 DEF Turn, Unopened, Opened, Pages, Nowhere
<1>2. ASSUME Refuse, page' = page
      PROVE  going' # "start" /\ Opened'
  BY <1>2 DEF Refuse, Opened, Nowhere
<1>3. ASSUME NEW to \in Pages \ {"start"}, Push(to), page' = page, Opened
      PROVE  going' # "start" /\ Opened'
  BY <1>1, <1>2, <1>3 DEF Push, Opened, Pages, Nowhere
<1>4. ASSUME NEW c \in Chains, todo[c] # <<>>
      PROVE  Opened
  BY <1>4 DEF Unopened
<1>5. ASSUME page' = page, going' = going, Opened
      PROVE  Unopened' /\ (Opened' <=> Opened)
  BY <1>5 DEF Unopened, Opened
<1>6. ASSUME going' # "start", Opened', Opened
      PROVE  Unopened' /\ (Opened' <=> Opened)
  BY <1>6 DEF Unopened
<1>7. ASSUME NEW to \in Pages \ {"start"}, Go(to)
      PROVE  Unopened' /\ (Opened' <=> Opened)
  BY <1>3, <1>6, <1>7 DEF Go, Opened
<1>8. CASE Arrive
  BY <1>6, <1>8 DEF Arrive, Opened, Unopened, Nowhere
<1>9. ASSUME NEW g \in Guards, GuardAnswer(g)
      PROVE  Unopened' /\ (Opened' <=> Opened)
  <2>1. Opened /\ page' = page
    BY <1>9 DEF GuardAnswer, Unopened
  <2> QED BY <1>1, <1>2, <1>5, <1>6, <1>9, <2>1 DEF GuardAnswer, Pages
<1>10. CASE Login \/ SaveSetup \/ Logout \/ Renew
  <2>1. Opened /\ UNCHANGED <<page, going>>
    BY <1>10 DEF Login, SaveSetup, Logout, Renew, Begin, route, Opened
  <2> QED BY <1>5, <2>1
<1>11. ASSUME NEW c \in Chains, LoadItem(c) \/ Lose(c) \/ Deny(c)
       PROVE  Unopened' /\ (Opened' <=> Opened)
  <2>1. Opened /\ UNCHANGED <<page, going>>
    BY <1>4, <1>11 DEF LoadItem, Lose, Deny, Stop, Now, route
  <2> QED BY <1>5, <2>1
<1>12. ASSUME NEW c \in Chains, Leave(c)
       PROVE  Unopened' /\ (Opened' <=> Opened)
  <2>1. Opened /\ page' = page /\ Push("index")
    BY <1>4, <1>12 DEF Leave, Now
  <2> QED BY <1>3, <1>6, <2>1 DEF Pages
<1>13. CASE LoadCore
  <2>1. Opened /\ page' = page
    BY <1>4, <1>13 DEF LoadCore, Now, route, Chains
  <2> QED BY <1>1, <1>5, <1>6, <1>13, <2>1 DEF LoadCore, route, Pages
<1>14. CASE \/ SetupCreated \/ SubmitSetup \/ ReloadCore
            \/ Auth \/ RenewKeys \/ Refresh \/ LoggedOut
  <2>1. Opened
    BY <1>4, <1>14 DEF SetupCreated, SubmitSetup, ReloadCore, Auth, RenewKeys, Refresh,
       LoggedOut, Now, Chains
  <2>2. UNCHANGED <<page, going>>
    BY <1>14 DEF SetupCreated, SubmitSetup, ReloadCore, Auth, RenewKeys, Refresh,
       LoggedOut, route
  <2> QED BY <1>5, <2>1, <2>2
<1>15. CASE Enter
  <2>1. Opened /\ page' = page /\ Turn("dashboard")
    BY <1>4, <1>15 DEF Enter, Now, Chains
  <2> QED BY <1>1, <1>6, <2>1 DEF Pages
<1>16. CASE Restart \/ Expire
  <2>1. /\ UNCHANGED <<page, going, todo>>
        /\ \A g \in Guards : check'[g] = Worn(check[g])
    BY <1>16 DEF Restart, Expire
  <2> QED BY <2>1 DEF Unopened, Opened, Worn
<1>17. ASSUME NEW k \in {"none", "user", "admin"}, Elsewhere(k)
       PROVE  Unopened' /\ (Opened' <=> Opened)
  BY <1>17 DEF Elsewhere, route, Unopened, Opened
<1>18. CASE UNCHANGED vars
  BY <1>18 DEF vars, route, Unopened, Opened
<1> QED
  BY <1>7, <1>8, <1>9, <1>10, <1>11, <1>12, <1>13, <1>14, <1>15, <1>16, <1>17, <1>18
     DEF Next

LEMMA UnopenedStep ==
  ASSUME TypeOK, Unopened, [Next]_vars
  PROVE  Unopened'
<1>1. CASE \E to \in Pages \ {"start"} : Reload(to)
  BY <1>1, ReloadTab DEF Unopened, Opened, Pages, Nowhere
<1>2. CASE ~ \E to \in Pages \ {"start"} : Reload(to)
  BY <1>2, OpenedStep
<1> QED BY <1>1, <1>2

-----------------------------------------------------------------------------
(* What is loaded.                                                         *)

(* The data of D is there, or in what is left of the chain. *)
Covered(c, D) == \A x \in D : x \in has \/ In(x, todo[c])

LEMMA CoverKept ==
  ASSUME NEW c \in Chains, NEW D \in SUBSET AllData, Calm(c) \/ Fresh(c), Covered(c, D)
  PROVE  Covered(c, D)'
  BY DEF Calm, Fresh, Advanced, Covered

(* The chains that load other data, or the mark that the public data is    *)
(* there, load the public data first.                                      *)
PublicFirst ==
  /\ \A c \in Chains :
       (\E x \in AdminData \cup {"public"} : In(x, todo[c])) => Covered(c, Public)
  /\ "public" \in has => Public \subseteq has

LEMMA OnlyLoadsAdd ==
  ASSUME [Next]_vars, ~ \E to \in Pages \ {"start"} : Reload(to),
         ~ \E c \in Chains : LoadItem(c)
  PROVE  has' = has
<1>2. CASE Arrive \/ LoadCore \/ Enter
  BY <1>2 DEF Arrive, LoadCore, Enter, store
<1>3. ASSUME NEW to \in Pages, Go(to)
      PROVE  has' = has
  BY <1>3 DEF Go, store
<1>4. ASSUME NEW g \in Guards, GuardAnswer(g)
      PROVE  has' = has
  BY <1>4 DEF GuardAnswer
<1>5. CASE Login \/ SaveSetup \/ Logout \/ Renew
  BY <1>5 DEF Login, SaveSetup, Logout, Renew, Begin, store
<1>6. ASSUME NEW c \in Chains, Leave(c) \/ Lose(c) \/ Deny(c)
      PROVE  has' = has
  BY <1>6 DEF Leave, Lose, Deny, Stop, store
<1>7. CASE SetupCreated \/ SubmitSetup \/ Refresh \/ Auth \/ RenewKeys
  BY <1>7 DEF SetupCreated, SubmitSetup, Refresh, Auth, RenewKeys, store
<1>8. CASE ReloadCore \/ LoggedOut \/ Restart \/ Expire
  BY <1>8 DEF ReloadCore, LoggedOut, Restart, Expire, store
<1>9. ASSUME NEW k \in {"none", "user", "admin"}, Elsewhere(k)
      PROVE  has' = has
  BY <1>9 DEF Elsewhere, store
<1>10. CASE UNCHANGED vars
  BY <1>10 DEF vars, store
<1> QED
  BY <1>2, <1>3, <1>4, <1>5, <1>6, <1>7, <1>8, <1>9, <1>10 DEF Next

LEMMA PublicFirstStep ==
  ASSUME TypeOK, ChainOrder, PublicFirst, [Next]_vars
  PROVE  PublicFirst'
<1>1. CASE \E to \in Pages \ {"start"} : Reload(to)
  <2>1. \A x \in AdminData \cup {"public"} : ~In(x, <<"core">>) /\ ~In(x, <<>>)
    BY ShortChains DEF Shorts, AllData, Public
  <2> QED BY <1>1, <2>1, ReloadTab DEF PublicFirst
<1>2. CASE ~ \E to \in Pages \ {"start"} : Reload(to)
  <2>1. ASSUME NEW c \in Chains, NEW x \in AdminData \cup {"public"}, In(x, todo'[c])
        PROVE  Covered(c, Public)'
    <3>1. CASE Calm(c)
      <4>1. Covered(c, Public)
        BY <2>1, <3>1 DEF Calm, PublicFirst
      <4> QED BY <3>1, <4>1, CoverKept DEF AllData
    <3>2. CASE Fresh(c)
      <4>1. x \in AllData
        BY DEF AllData, Public
      <4>2. \A y \in Public : In(y, todo'[c])
        BY <2>1, <3>2, <4>1, BegunChains DEF Fresh
      <4> QED BY <4>2 DEF Covered
    <3>3. CASE todo'[c] = <<>>
      BY <2>1, <3>3 DEF In
    <3> QED BY <1>2, <3>1, <3>2, <3>3, ChainStep
  <2>2. ASSUME "public" \in has'
        PROVE  Public \subseteq has'
    <3>1. CASE "public" \in has
      <4>1. has \subseteq has'
        BY <1>2, ChainStep DEF Calm, Fresh, Advanced, Chains
      <4> QED BY <3>1, <4>1 DEF PublicFirst
    <3>2. CASE "public" \notin has
      <4>1. PICK c \in Chains : LoadItem(c)
        BY <1>2, <2>2, <3>2, OnlyLoadsAdd
      <4>2. /\ todo[c] \in Seq(Steps) /\ Len(todo[c]) \in Nat \ {0}
            /\ DOMAIN todo[c] = 1 .. Len(todo[c]) /\ Ordered(todo[c])
        BY <4>1, NowSteps, TypeParts DEF LoadItem, ChainOrder
      <4>3. PICK m \in {1, 2} :
              /\ m <= Len(todo[c]) /\ todo[c][m] = "public"
              /\ \A k \in 1 .. m : todo[c][k] \in has'
        <5>1. CASE Len(todo[c]) > 1 /\ todo[c][2] = "public"
          <6>1. has' = has \cup {todo[c][k] : k \in 1 .. 1 + 1}
            BY <4>1, <5>1 DEF LoadItem
          <6> QED BY <5>1, <6>1
        <5>2. CASE ~(Len(todo[c]) > 1 /\ todo[c][2] = "public")
          <6>1. has' = has \cup {todo[c][k] : k \in 1 .. 1 + 0}
            BY <4>1, <5>2 DEF LoadItem
          <6>2. todo[c][1] = "public"
            BY <2>2, <3>2, <6>1
          <6> QED BY <4>2, <6>1, <6>2
        <5> QED BY <5>1, <5>2
      <4>4. Covered(c, Public) /\ has \subseteq has'
        BY <4>1, <4>2, <4>3 DEF PublicFirst, In, LoadItem
      <4>5. ASSUME NEW x \in Public, x \notin has
            PROVE  x \in has'
        <5>1. PICK k \in DOMAIN todo[c] : todo[c][k] = x
          BY <4>4, <4>5 DEF Covered, In
        <5>2. ~(m < k)
          BY <4>2, <4>3, <5>1 DEF Ordered
        <5> QED BY <4>2, <4>3, <5>1, <5>2
      <4> QED BY <4>4, <4>5
    <3> QED BY <3>1, <3>2
  <2> QED BY <2>1, <2>2 DEF PublicFirst
<1> QED BY <1>1, <1>2

-----------------------------------------------------------------------------
(* Who is let in.                                                          *)

(* Before the server is set up nobody can have proved anything. *)
NobodyYet ==
  ~setup =>
    /\ cookie \in {"none", "stale"}
    /\ \A g \in Guards : check[g] \in {Idle, "stale"}
    /\ ~proved
    /\ ~In("enter", todo["login"])

(* Once set up, the server stays so. *)
LEMMA SetupStays ==
  ASSUME setup \in BOOLEAN, [Next]_vars
  PROVE  setup => setup'
  BY DEF Next, vars, server, Reload, Go, Arrive, GuardAnswer, Login, SaveSetup, Logout, Renew,
     Begin, LoadItem, Leave, Lose, Deny, Stop, LoadCore, SetupCreated, SubmitSetup,
     ReloadCore, Auth, Enter, RenewKeys, Refresh, LoggedOut, Restart, Expire, Elsewhere

LEMMA NobodyStep ==
  ASSUME TypeOK, ChainOrder, NobodyYet, [Next]_vars
  PROVE  NobodyYet'
<1> SUFFICES ASSUME ~setup' PROVE NobodyYet'
  BY DEF NobodyYet
<1>0. ~setup
  BY SetupStays DEF TypeOK
<1>1. /\ cookie \in {"none", "stale"}
      /\ \A g \in Guards : check[g] \in {Idle, "stale"}
      /\ ~proved
      /\ ~In("enter", todo["login"])
  BY <1>0 DEF NobodyYet
<1>2. CASE \E to \in Pages \ {"start"} : Reload(to)
  <2>1. ~In("enter", <<>>)
    BY DEF In
  <2> QED BY <1>0, <1>1, <1>2, <2>1, ReloadTab DEF NobodyYet, Chains
<1>3. CASE ~ \E to \in Pages \ {"start"} : Reload(to)
  <2>1. ~In("enter", todo'["login"])
    <3>1. ~In("enter", <<>>) /\ "login" \in Chains
      BY DEF In, Chains
    <3> QED BY <1>0, <1>1, <1>3, <3>1, ChainStep DEF Calm, Fresh, Auth
  <2>2. ASSUME UNCHANGED <<cookie, check, proved>>
        PROVE  NobodyYet'
    BY <1>1, <2>1, <2>2 DEF NobodyYet
  <2>3. ASSUME NEW to \in Pages, Push(to), UNCHANGED <<cookie, proved>>
        PROVE  NobodyYet'
    <3>1. \A g \in Guards : check'[g] = check[g] \/ (check'[g] = cookie /\ cookie # "none")
      BY <2>3 DEF Push, TypeOK
    <3> QED BY <1>1, <2>1, <2>3, <3>1 DEF NobodyYet
  <2>4. ASSUME NEW to \in Pages, Go(to)
        PROVE  NobodyYet'
    BY <2>3, <2>4 DEF Go, history
  <2>5. CASE Arrive
    BY <1>1, <2>1, <2>5 DEF Arrive, NobodyYet
  <2>6. ASSUME NEW g \in Guards, GuardAnswer(g)
        PROVE  NobodyYet'
    <3>1. proved' = proved /\ cookie' = cookie
      BY <1>1, <2>6 DEF GuardAnswer, Idle
    <3>2. \A h \in Guards : check'[h] = check[h] \/ check'[h] = Idle
      BY <2>6 DEF GuardAnswer, TypeOK
    <3> QED BY <1>1, <2>1, <3>1, <3>2 DEF NobodyYet
  <2>7. CASE Login \/ SaveSetup \/ Logout \/ Renew
    BY <2>2, <2>7 DEF Login, SaveSetup, Logout, Renew, Begin, route, history
  <2>8. ASSUME NEW c \in Chains, LoadItem(c) \/ Lose(c) \/ Deny(c)
        PROVE  NobodyYet'
    BY <1>0, <2>2, <2>8 DEF LoadItem, Lose, Deny, Stop, route
  <2>9. ASSUME NEW c \in Chains, Leave(c)
        PROVE  NobodyYet'
    BY <2>3, <2>9 DEF Leave, history, Pages
  <2>10. CASE LoadCore \/ Enter
    BY <2>2, <2>10 DEF LoadCore, Enter, route
  <2>11. CASE SetupCreated \/ ReloadCore \/ Refresh
    BY <2>2, <2>11 DEF SetupCreated, ReloadCore, Refresh, route, history
  <2>12. CASE SubmitSetup
    BY <1>0, <2>2, <2>12 DEF SubmitSetup, route, history
  <2>13. CASE Auth \/ RenewKeys
    BY <1>0, <1>1, <2>13 DEF Auth, RenewKeys
  <2>14. CASE LoggedOut
    BY <1>1, <2>1, <2>14 DEF LoggedOut, NobodyYet, route
  <2>15. CASE Restart \/ Expire
    <3>1. /\ cookie' \in {"none", "stale"} /\ proved' = proved
          /\ \A g \in Guards : check'[g] = Worn(check[g])
      BY <1>1, <2>15 DEF Restart, Expire, Worn, history
    <3> QED BY <1>1, <2>1, <3>1 DEF NobodyYet, Worn
  <2>16. ASSUME NEW k \in {"none", "user", "admin"}, Elsewhere(k)
         PROVE  NobodyYet'
    BY <1>0, <2>16 DEF Elsewhere
  <2>17. CASE UNCHANGED vars
    BY <2>2, <2>17 DEF vars, route, history
  <2> QED
    BY <1>3, <2>4, <2>5, <2>6, <2>7, <2>8, <2>9, <2>10, <2>11, <2>12, <2>13, <2>14,
       <2>15, <2>16, <2>17 DEF Next
<1> QED BY <1>2, <1>3

(* Somebody is in, or on the way and let through. *)
Inside == loggedIn \/ page = "dashboard" \/ (going = "dashboard" /\ mine = None)

(* Whoever is, has been let in by the server. *)
LetIn ==
  /\ Inside => proved
  /\ In("enter", todo["login"]) =>
       proved \/ \E x \in AdminData : In(x, todo["login"])

(* Where a navigation leads. *)
LEMMA TurnLetsIn ==
  ASSUME NEW to \in Pages, Turn(to), page' = page, loggedIn' = loggedIn, Inside',
         to # "dashboard"
  PROVE  Inside
  BY DEF Turn, Inside

LEMMA PushLetsIn ==
  ASSUME NEW to \in Pages, Push(to), page' = page, loggedIn' = loggedIn, Inside'
  PROVE  Inside
<1> DEFINE guarded == to = "dashboard" /\ ~loggedIn /\ page # "dashboard"
<1>1. CASE ~guarded /\ Turn(to)
  BY <1>1 DEF Turn, Inside
<1>2. CASE Refuse
  BY <1>2 DEF Refuse, Inside, Nowhere
<1>3. CASE \E g \in Guards : going' = to /\ mine' = g
  BY <1>3, NoneAssumption DEF Inside
<1> QED BY <1>1, <1>2, <1>3 DEF Push

LEMMA EnterIsLetIn ==
  ASSUME TypeOK, ChainOrder, LetIn, Now("login", "enter")
  PROVE  proved
<1>1. "login" \in Chains
  BY DEF Chains
<1>2. In("enter", todo["login"]) /\ \A x \in AdminData : ~In(x, todo["login"])
  BY <1>1, NowSteps, NothingLeft, TypeParts DEF Now, In, LastSteps, ChainOrder, AllData
<1> QED BY <1>2 DEF LetIn

LEMMA LetInStep ==
  ASSUME TypeOK, ChainOrder, LetIn, [Next]_vars
  PROVE  LetIn'
<1>0. "login" \in Chains
  BY DEF Chains
<1>1. CASE \E to \in Pages \ {"start"} : Reload(to)
  <2>1. ~In("enter", <<>>)
    BY DEF In
  <2> QED BY <1>1, <2>1, ReloadTab DEF LetIn, Inside, Chains
<1>2. CASE ~ \E to \in Pages \ {"start"} : Reload(to)
  <2>1. ASSUME proved => proved', Inside' => proved'
        PROVE  LetIn'
    <3>1. CASE Calm("login")
      BY <2>1, <3>1 DEF LetIn, Calm, Advanced, AllData
    <3>2. CASE Fresh("login")
      <4>1. In("enter", todo'["login"]) => \A x \in AdminData : In(x, todo'["login"])
        BY <3>2, BegunChains DEF Fresh, AllData
      <4>2. "users" \in AdminData
        BY DEF AdminData
      <4> QED BY <2>1, <4>1, <4>2 DEF LetIn
    <3>3. CASE todo'["login"] = <<>>
      BY <2>1, <3>3 DEF LetIn, In
    <3> QED BY <1>0, <1>2, <3>1, <3>2, <3>3, ChainStep
  <2>2. ASSUME UNCHANGED <<page, going, mine, loggedIn>>, proved => proved'
        PROVE  LetIn'
    BY <2>1, <2>2 DEF LetIn, Inside
  <2>3. ASSUME NEW to \in Pages, Go(to)
        PROVE  LetIn'
    BY <2>1, <2>3, PushLetsIn DEF Go, history, store, LetIn
  <2>4. CASE Arrive
    BY <2>1, <2>4 DEF Arrive, LetIn, Inside, store, Nowhere
  <2>5. ASSUME NEW g \in Guards, GuardAnswer(g)
        PROVE  LetIn'
    <3>1. CASE proved'
      BY <2>1, <3>1
    <3>2. CASE ~proved'
      <4>1. /\ ~proved /\ page' = page /\ ~loggedIn'
            /\ Refuse \/ Turn("login")
        BY <2>5, <3>2 DEF GuardAnswer, LetIn, Inside
      <4>2. ~Inside'
        BY <4>1, TurnLetsIn DEF Refuse, Turn, Inside, LetIn, Nowhere, Pages
      <4> QED BY <2>1, <4>1, <4>2
    <3> QED BY <3>1, <3>2
  <2>6. CASE Login \/ SaveSetup \/ Logout \/ Renew
    BY <2>2, <2>6 DEF Login, SaveSetup, Logout, Renew, Begin, route, store, history
  <2>7. ASSUME NEW c \in Chains, LoadItem(c) \/ Lose(c) \/ Deny(c)
        PROVE  LetIn'
    BY <2>2, <2>7 DEF LoadItem, Lose, Deny, Stop, route, store
  <2>8. ASSUME NEW c \in Chains, Leave(c)
        PROVE  LetIn'
    BY <2>1, <2>8, PushLetsIn DEF Leave, history, store, LetIn, Pages
  <2>9. CASE LoadCore
    <3>1. Inside' => Inside
      BY <2>9, TurnLetsIn DEF LoadCore, route, Pages, Inside
    <3> QED BY <2>1, <2>9, <3>1 DEF LoadCore, LetIn
  <2>10. CASE Enter
    BY <2>1, <2>10, EnterIsLetIn DEF Enter
  <2>11. CASE \/ SetupCreated \/ SubmitSetup \/ ReloadCore
              \/ Auth \/ RenewKeys \/ Refresh \/ LoggedOut
    BY <2>2, <2>11 DEF SetupCreated, SubmitSetup, ReloadCore, Auth, RenewKeys, Refresh,
       LoggedOut, route, store, history
  <2>12. CASE Restart \/ Expire
    BY <2>2, <2>12 DEF Restart, Expire, store, history
  <2>13. ASSUME NEW k \in {"none", "user", "admin"}, Elsewhere(k)
         PROVE  LetIn'
    BY <2>2, <2>13 DEF Elsewhere, route, store
  <2>14. CASE UNCHANGED vars
    BY <2>2, <2>14 DEF vars, route, store, history
  <2> QED
    BY <1>2, <2>3, <2>4, <2>5, <2>6, <2>7, <2>8, <2>9, <2>10, <2>11, <2>12, <2>13,
       <2>14 DEF Next
<1> QED BY <1>1, <1>2

-----------------------------------------------------------------------------
(* The front page.                                                         *)

(* A chain that waits for the core, or to know whether the server is set   *)
(* up, waits on.                                                           *)
LEMMA HeadKept ==
  ASSUME TypeOK, [Next]_vars, ~ \E to \in Pages \ {"start"} : Reload(to),
         NEW c \in Chains, NEW step \in {"core", "created"}, Now(c, step),
         ~LoadCore, ~SetupCreated, ~Lose(c)
  PROVE  todo'[c] = todo[c]
<1> USE TypeParts
<1>1. ASSUME NEW d \in Chains, d # c, NEW s \in Seq(Steps), Then(d, s)
      PROVE  todo'[c] = todo[c]
  BY <1>1, ThenKeeps
<1>2. ASSUME NEW d \in Chains, NEW other, Now(d, other), other # step
      PROVE  d # c /\ Tail(todo[d]) \in Seq(Steps)
  BY <1>2, NowSteps DEF Now
<1>3. <<>> \in Seq(Steps)
  OBVIOUS
<1>4. CASE UNCHANGED todo
  BY <1>4
<1>5. ASSUME NEW to \in Pages \ {"start"}, Go(to)
      PROVE  todo'[c] = todo[c]
  BY <1>5 DEF Go
<1>6. CASE Arrive
  <2>1. <<"created">> \in Seq(Steps) /\ "setup" \in Chains
    BY ShortChains DEF Shorts, Chains
  <2> QED BY <1>1, <1>6, <2>1 DEF Arrive, Now, Then
<1>7. ASSUME NEW g \in Guards, GuardAnswer(g)
      PROVE  todo'[c] = todo[c]
  BY <1>7 DEF GuardAnswer
<1>8. CASE Login \/ SaveSetup \/ Logout \/ Renew
  <2>1. PICK d \in Chains, s \in Shorts : Begin(d, s)
    BY <1>8 DEF Login, SaveSetup, Logout, Renew, Chains, Shorts
  <2> QED BY <1>1, <2>1, ShortChains DEF Begin, Now, Then
<1>9. ASSUME NEW d \in Chains, LoadItem(d)
      PROVE  todo'[c] = todo[c]
  <2>1. d # c
    BY <1>9, StepNames DEF LoadItem, Now, AllItems
  <2> QED BY <1>9, <2>1 DEF LoadItem, Then, TodoOK
<1>10. ASSUME NEW d \in Chains, Leave(d) \/ Lose(d) \/ Deny(d)
       PROVE  todo'[c] = todo[c]
  <2>1. d # c
    BY <1>2, <1>10 DEF Leave, Deny, NeedsAdmin, AdminData
  <2> QED BY <1>1, <1>3, <1>10, <2>1 DEF Leave, Lose, Deny, Stop
<1>11. CASE SubmitSetup
  <2>1. "setup" # c /\ "setup" \in Chains
    BY <1>2, <1>11 DEF SubmitSetup, Chains
  <2> QED BY <1>11, <2>1 DEF SubmitSetup, Then, TodoOK
<1>12. CASE ReloadCore \/ Refresh \/ RenewKeys \/ LoggedOut
  <2>1. PICK d \in Chains, other \in {"reload", "refresh", "renew", "logout"} :
          Now(d, other) /\ Then(d, Tail(todo[d]))
    BY <1>12 DEF ReloadCore, Refresh, RenewKeys, LoggedOut, Now, Chains
  <2> QED BY <1>1, <1>2, <2>1
<1>13. CASE Auth \/ Enter
  <2>1. "login" # c /\ "login" \in Chains
    BY <1>2, <1>13 DEF Auth, Enter, Chains
  <2> QED BY <1>13, <2>1 DEF Auth, Enter, Then, TodoOK
<1>14. CASE Restart \/ Expire
  BY <1>14 DEF Restart, Expire
<1>15. ASSUME NEW k \in {"none", "user", "admin"}, Elsewhere(k)
       PROVE  todo'[c] = todo[c]
  BY <1>15 DEF Elsewhere
<1>16. CASE UNCHANGED vars
  BY <1>16 DEF vars
<1> QED
  BY <1>5, <1>6, <1>7, <1>8, <1>9, <1>10, <1>11, <1>12, <1>13, <1>14, <1>15, <1>16 DEF Next

(* A request that is lost, and one that is refused, leave their mark. *)
LEMMA MarksStay ==
  ASSUME HistoryOK, [Next]_vars, ~ \E to \in Pages \ {"start"} : Reload(to)
  PROVE  /\ ~lost' => ~lost /\ \A c \in Chains : ~Lose(c)
         /\ ~denied' => ~denied /\ \A c \in Chains : ~Deny(c)
         /\ "setup" \in odd => "setup" \in odd'
  BY DEF HistoryOK, history, Next, vars, server, Go, Arrive, GuardAnswer, Login, SaveSetup,
     Logout, Renew, Begin, LoadItem, Leave, Lose, Deny, LoadCore, SetupCreated,
     SubmitSetup, ReloadCore, Auth, Enter, RenewKeys, Refresh, LoggedOut, Restart, Expire,
     Elsewhere, Stop

(* The chain brings the public data. *)
Fills(c) ==
  \/ Covered(c, Public)
  \/ c = "app" /\ Now("app", "core")
  \/ c = "setup" /\ Now("setup", "created")

(* Some chain does, and that of the setup form if the tab is there. *)
FrontInv ==
  setup /\ ~lost /\ "setup" \notin odd =>
    /\ Opened => \E c \in Chains : Fills(c)
    /\ page = "setup" => Fills("setup")

(* Data for administrators is refused only after the public data. *)
LEMMA DenialIsLate ==
  ASSUME TypeOK, ChainOrder, NEW c \in Chains, Covered(c, Public), Deny(c)
  PROVE  Public \subseteq has
<1>1. /\ todo[c] \in Seq(Steps) /\ DOMAIN todo[c] = 1 .. Len(todo[c])
      /\ Len(todo[c]) \in Nat \ {0} /\ Ordered(todo[c])
      /\ todo[c][1] \in AdminData \cup {"renew"}
  BY NowSteps, TypeParts DEF Deny, Now, NeedsAdmin, ChainOrder
<1>2. ASSUME NEW k \in DOMAIN todo[c], todo[c][k] \in Public
      PROVE  FALSE
  <2>1. k # 1
    BY <1>1, <1>2 DEF AdminData, Public, PublicData
  <2> QED BY <1>1, <1>2, <2>1 DEF Ordered
<1> QED BY <1>2 DEF Covered, In

LEMMA FillsKept ==
  ASSUME TypeOK, ChainOrder, [Next]_vars, ~ \E to \in Pages \ {"start"} : Reload(to),
         NEW c \in Chains, Fills(c), ~LoadCore, ~SetupCreated, ~lost'
  PROVE  Fills(c)'
<1>0. ~Lose(c)
  BY MarksStay, TypeParts
<1>1. CASE Covered(c, Public)
  <2>1. CASE Calm(c) \/ Fresh(c)
    BY <1>1, <2>1, CoverKept DEF Fills, AllData
  <2>2. CASE Deny(c) /\ has' = has
    BY <1>1, <2>2, DenialIsLate DEF Fills, Covered
  <2> QED BY <1>0, <2>1, <2>2, ChainStep
<1>2. CASE c = "app" /\ Now("app", "core")
  BY <1>0, <1>2, HeadKept DEF Fills, Now
<1>3. CASE c = "setup" /\ Now("setup", "created")
  BY <1>0, <1>3, HeadKept DEF Fills, Now
<1> QED BY <1>1, <1>2, <1>3 DEF Fills

LEMMA FrontStep ==
  ASSUME TypeOK, ChainOrder, Unopened, PublicFirst, FrontInv, [Next]_vars
  PROVE  FrontInv'
<1> USE TypeParts
<1>0. "app" \in Chains /\ "setup" \in Chains
  BY DEF Chains
<1>1. CASE \E to \in Pages \ {"start"} : Reload(to)
  <2>1. <<"core">> # <<>> /\ Head(<<"core">>) = "core"
    OBVIOUS
  <2>2. todo'["app"] = <<"core">> /\ page' = "start"
    BY <1>1, ReloadTab
  <2>3. Now("app", "core")'
    BY <2>1, <2>2 DEF Now
  <2> QED BY <1>0, <2>2, <2>3 DEF FrontInv, Fills
<1>2. CASE ~ \E to \in Pages \ {"start"} : Reload(to)
  <2> SUFFICES ASSUME setup', ~lost', "setup" \notin odd'
               PROVE  /\ Opened' => \E c \in Chains : Fills(c)'
                      /\ page' = "setup" => Fills("setup")'
    BY DEF FrontInv
  <2>0. ~lost /\ "setup" \notin odd /\ (Opened' <=> Opened)
    BY <1>2, MarksStay, OpenedStep
  <2>1. ASSUME NEW s \in {Required \o <<"leave">>, <<"reload">> \o Required \o <<"leave">>},
               Then("setup", s)
        PROVE  Fills("setup")'
    BY <1>0, <2>1, LongChains, ThenKeeps DEF Fills, Covered
  <2>2. CASE ~setup
    <3>1. Then("setup", <<"reload">> \o Required \o <<"leave">>)
      BY <1>2, <2>2 DEF Next, vars, server, Go, Arrive, GuardAnswer, Login, SaveSetup, Logout,
         Renew, Begin, LoadItem, Leave, Lose, Deny, Stop, LoadCore, SetupCreated, SubmitSetup,
         ReloadCore, Auth, Enter, RenewKeys, Refresh, LoggedOut, Restart, Expire, Elsewhere
    <3> QED BY <1>0, <2>1, <3>1
  <2>3. CASE setup /\ SetupCreated
    <3>1. CASE "public" \in has
      BY <1>0, <2>3, <3>1 DEF SetupCreated, store, PublicFirst, Fills, Covered
    <3>2. CASE "public" \notin has
      BY <1>0, <2>1, <2>3, <3>2 DEF SetupCreated
    <3> QED BY <1>0, <3>1, <3>2
  <2>4. CASE setup /\ LoadCore /\ page # "setup"
    <3>1. PICK s \in {Required, Admin} : Then("app", s)
      BY <2>4 DEF LoadCore
    <3>2. Fills("app")'
      BY <1>0, <3>1, DataChains, ThenKeeps DEF Fills, Covered, AllData
    <3>3. page' = page
      BY <2>4 DEF LoadCore, route
    <3> QED BY <1>0, <2>4, <3>2, <3>3
  <2>5. CASE setup /\ LoadCore /\ page = "setup"
    <3>1. Fills("setup") /\ has' = has /\ Then("app", <<>>)
      BY <2>0, <2>5 DEF LoadCore, FrontInv
    <3>2. todo'["setup"] = todo["setup"]
      <4>1. <<>> \in Seq(Steps) /\ "setup" \in Chains \ {"app"}
        BY DEF Chains
      <4> QED BY <1>0, <3>1, <4>1, ThenKeeps
    <3> QED BY <1>0, <2>5, <3>1, <3>2 DEF Fills, Covered, Now
  <2>6. CASE setup /\ Arrive /\ going = "setup"
    BY <1>0, <2>6, ThenKeeps DEF Arrive, Fills, Now, TodoOK
  <2>7. CASE setup /\ ~SetupCreated /\ ~LoadCore /\ ~(Arrive /\ going = "setup")
    <3>1. page' = "setup" => page = "setup"
      BY <1>2, <2>7 DEF Next, vars, route, Go, Arrive, GuardAnswer, Login, SaveSetup,
         Logout, Renew, Begin, LoadItem, Leave, Lose, Deny, Stop, SubmitSetup, ReloadCore,
         Auth, Enter, RenewKeys, Refresh, LoggedOut, Restart, Expire, Elsewhere
    <3> QED BY <1>0, <1>2, <2>0, <2>7, <3>1, FillsKept DEF FrontInv
  <2> QED BY <2>2, <2>3, <2>4, <2>5, <2>6, <2>7
<1> QED BY <1>1, <1>2

-----------------------------------------------------------------------------
(* The dashboard.                                                          *)

(* Whoever may come to see it. *)
Admitted ==
  \/ Inside
  \/ cookie \in {"user", "admin"}
  \/ \E g \in Guards : check[g] = "admin"
  \/ In("enter", todo["login"])

(* All of an administrator's data is coming. *)
DashInv ==
  Admitted /\ odd = {} /\ Opened =>
    /\ ~lost /\ ~denied =>
         Now("app", "core") \/ \E c \in Chains : Covered(c, AllData)
    /\ In("core", todo["app"]) => cookie # "none"

(* Only a login admits. *)
LEMMA AdmittedStep ==
  ASSUME TypeOK, ChainOrder, [Next]_vars, ~ \E to \in Pages \ {"start"} : Reload(to),
         ~Auth, Admitted', odd' = {}
  PROVE  Admitted /\ odd = {} /\ (cookie' = "none" => cookie = "none")
<1>1. In("enter", todo'["login"]) => In("enter", todo["login"])
  <2>1. "login" \in Chains /\ ~In("enter", <<>>)
    BY DEF Chains, In
  <2> QED BY <2>1, ChainStep DEF Calm, Fresh
<1>2. ASSUME UNCHANGED <<cookie, odd>>,
             \A g \in Guards : check'[g] = "admin" => check[g] = "admin" \/ cookie = "admin",
             Inside' => Inside
      PROVE  Admitted /\ odd = {} /\ (cookie' = "none" => cookie = "none")
  BY <1>1, <1>2 DEF Admitted
<1>3. ASSUME NEW to \in Pages, Push(to), UNCHANGED <<page, loggedIn, cookie, odd>>
      PROVE  Admitted /\ odd = {} /\ (cookie' = "none" => cookie = "none")
  <2>1. \A g \in Guards : check'[g] = check[g] \/ check'[g] = cookie
    BY <1>3 DEF Push, TypeOK
  <2> QED BY <1>2, <1>3, <2>1, PushLetsIn
<1>4. ASSUME NEW to \in Pages, Go(to)
      PROVE  Admitted /\ odd = {} /\ (cookie' = "none" => cookie = "none")
  BY <1>3, <1>4 DEF Go, store, history
<1>5. CASE Arrive
  BY <1>2, <1>5 DEF Arrive, store, Inside, Nowhere
<1>6. ASSUME NEW g \in Guards, GuardAnswer(g)
      PROVE  Admitted /\ odd = {} /\ (cookie' = "none" => cookie = "none")
  <2>1. UNCHANGED <<cookie, odd, page>>
    BY <1>6 DEF GuardAnswer
  <2>2. \A h \in Guards : check'[h] = "admin" => check[h] = "admin"
    BY <1>6 DEF GuardAnswer, TypeOK, Idle
  <2>3. CASE check[g] = "admin"
    BY <1>6, <2>1, <2>3 DEF Admitted
  <2>4. CASE check[g] # "admin"
    <3>1. (loggedIn' => loggedIn) /\ (Refuse \/ Turn("login"))
      BY <1>6, <2>4 DEF GuardAnswer
    <3>2. Inside' => Inside
      BY <2>1, <3>1 DEF Refuse, Turn, Inside, Nowhere
    <3> QED BY <1>2, <2>1, <2>2, <3>2
  <2> QED BY <2>3, <2>4
<1>7. CASE Login \/ SaveSetup \/ Logout \/ Renew
  BY <1>2, <1>7 DEF Login, SaveSetup, Logout, Renew, Begin, route, store, history, Inside
<1>8. ASSUME NEW c \in Chains, LoadItem(c) \/ Lose(c) \/ Deny(c)
      PROVE  Admitted /\ odd = {} /\ (cookie' = "none" => cookie = "none")
  BY <1>2, <1>8 DEF LoadItem, Lose, Deny, Stop, route, store, Inside
<1>9. ASSUME NEW c \in Chains, Leave(c)
      PROVE  Admitted /\ odd = {} /\ (cookie' = "none" => cookie = "none")
  BY <1>3, <1>9 DEF Leave, store, history, Pages
<1>10. CASE LoadCore
  <2>1. UNCHANGED <<cookie, check, page, loggedIn>> /\ odd' = odd
    BY <1>10 DEF LoadCore, route
  <2>2. Inside' => Inside
    BY <1>10, <2>1 DEF LoadCore, Turn, route, Inside
  <2> QED BY <1>2, <2>1, <2>2
<1>11. CASE Enter
  <2>1. In("enter", todo["login"])
    BY <1>11, NowSteps, TypeParts DEF Enter, Now, In, Chains
  <2> QED BY <1>11, <2>1 DEF Enter, Admitted
<1>12. CASE SubmitSetup
  <2>1. cookie' = cookie \/ (cookie' = "stale" /\ cookie # "none")
    BY <1>12 DEF SubmitSetup
  <2> QED BY <1>1, <1>12, <2>1 DEF SubmitSetup, Admitted, Inside, route, store, history
<1>13. CASE SetupCreated \/ ReloadCore \/ RenewKeys \/ Refresh
  BY <1>2, <1>13 DEF SetupCreated, ReloadCore, RenewKeys, Refresh, route, store, history,
     Inside
<1>14. CASE LoggedOut \/ Expire
  BY <1>14 DEF LoggedOut, Expire
<1>15. CASE Restart
  <2>1. /\ cookie' = Worn(cookie) /\ odd' = odd
        /\ \A g \in Guards : check'[g] = Worn(check[g])
        /\ Inside' <=> Inside
    BY <1>15 DEF Restart, Inside, store, history
  <2> QED BY <1>1, <2>1 DEF Worn, Admitted, Idle
<1>16. ASSUME NEW k \in {"none", "user", "admin"}, Elsewhere(k)
       PROVE  Admitted /\ odd = {} /\ (cookie' = "none" => cookie = "none")
  BY <1>16 DEF Elsewhere
<1>17. CASE UNCHANGED vars
  BY <1>2, <1>17 DEF vars, route, store, history, Inside
<1> QED
  BY <1>4, <1>5, <1>6, <1>7, <1>8, <1>9, <1>10, <1>11, <1>12, <1>13, <1>14, <1>15, <1>16,
     <1>17 DEF Next

LEMMA DashStep ==
  ASSUME TypeOK, ChainOrder, Unopened, NobodyYet, LetIn, DashInv, [Next]_vars
  PROVE  DashInv'
<1> USE TypeParts
<1>0. "app" \in Chains /\ "login" \in Chains
  BY DEF Chains
<1>1. CASE \E to \in Pages \ {"start"} : Reload(to)
  <2>1. <<"core">> # <<>> /\ Head(<<"core">>) = "core" /\ ~In("enter", <<>>)
    BY DEF In
  <2>2. /\ todo'["app"] = <<"core">> /\ todo'["login"] = <<>>
        /\ page' = "start" /\ ~loggedIn' /\ (going' = "dashboard" => mine' # None)
        /\ \A g \in Guards : check'[g] = "admin" => cookie' # "none"
    BY <1>1, ReloadTab DEF Chains, Idle
  <2>3. Now("app", "core")'
    BY <2>1, <2>2 DEF Now
  <2>4. Admitted' => cookie' # "none"
    BY <2>1, <2>2 DEF Admitted, Inside
  <2> QED BY <2>3, <2>4 DEF DashInv
<1>2. CASE ~ \E to \in Pages \ {"start"} : Reload(to)
  <2> SUFFICES ASSUME Admitted', odd' = {}, Opened'
               PROVE  /\ ~lost' /\ ~denied' =>
                           Now("app", "core")' \/ \E c \in Chains : Covered(c, AllData)'
                      /\ In("core", todo'["app"]) => cookie' # "none"
    BY DEF DashInv
  <2>0. Opened /\ (~lost' => ~lost) /\ (~denied' => ~denied)
    BY <1>2, MarksStay, OpenedStep
  <2>1. CASE Auth /\ cookie' \in {"user", "admin"} /\ Then("login", Admin \o <<"enter">>)
    BY <1>0, <2>1, LongChains, ThenKeeps DEF Covered
  <2>2. CASE Auth /\ UNCHANGED <<cookie, odd, has>> /\ Then("login", <<>>)
    <3>1. /\ \A c \in Chains \ {"login"} : todo'[c] = todo[c]
          /\ todo'["login"] = <<>> /\ ~In("enter", <<>>)
      <4>1. <<>> \in Seq(Steps)
        OBVIOUS
      <4>2. ~In("enter", <<>>)
        BY DEF In
      <4>3. TodoOK /\ "login" \in Chains /\ Then("login", <<>>)
        BY <1>0, <2>2
      <4> QED BY <4>1, <4>2, <4>3, ThenKeeps
    <3>2. Admitted
      BY <2>2, <3>1 DEF Admitted, Auth, route, store, Inside
    <3>3. \A x \in AllData : ~In(x, todo["login"])
      BY <1>0, <2>2, NothingLeft DEF Auth, Now, LastSteps, ChainOrder
    <3>4. "app" # "login"
      OBVIOUS
    <3> QED BY <1>0, <2>0, <2>2, <3>1, <3>2, <3>3, <3>4 DEF DashInv, Covered, Now
  <2>3. CASE ~Auth
    <3>1. Admitted /\ odd = {} /\ (cookie' = "none" => cookie = "none")
      BY <1>2, <2>3, AdmittedStep
    <3>2. /\ ~lost /\ ~denied => Now("app", "core") \/ \E c \in Chains : Covered(c, AllData)
          /\ In("core", todo["app"]) => cookie # "none"
      BY <2>0, <3>1 DEF DashInv
    <3>3. In("core", todo'["app"]) => In("core", todo["app"])
      <4>1. ~In("core", <<>>)
        BY DEF In
      <4> QED BY <1>0, <1>2, <4>1, BegunChains, ChainStep DEF Calm, Fresh
    <3>4. CASE LoadCore
      <4>1. cookie # "none"
        BY <1>0, <3>2, <3>4, NowSteps DEF LoadCore, Now, In
      <4>2. CASE page # "setup"
        <5>1. Then("app", Admin)
          BY <3>4, <4>1, <4>2 DEF LoadCore
        <5> QED BY <1>0, <3>1, <3>2, <3>3, <5>1, DataChains, ThenKeeps DEF Covered
      <4>3. CASE page = "setup"
        <5>1. ~setup
          BY <3>4, <4>3 DEF LoadCore
        <5>2. ~Admitted
          BY <5>1 DEF NobodyYet, LetIn, Admitted, Idle
        <5> QED BY <3>1, <5>2
      <4> QED BY <4>2, <4>3
    <3>5. CASE ~LoadCore
      <4>1. ASSUME ~lost', ~denied'
            PROVE  Now("app", "core")' \/ \E c \in Chains : Covered(c, AllData)'
        <5>1. \A c \in Chains : ~Lose(c) /\ ~Deny(c)
          BY <1>2, <4>1, MarksStay
        <5>2. CASE Now("app", "core")
          <6>1. CASE SetupCreated
            BY <1>0, <5>2, <6>1 DEF SetupCreated, Now, Then, TodoOK, Chains
          <6>2. CASE ~SetupCreated
            BY <1>0, <1>2, <3>5, <5>1, <5>2, <6>2, HeadKept DEF Now
          <6> QED BY <6>1, <6>2
        <5>3. ASSUME NEW c \in Chains, Covered(c, AllData)
              PROVE  Covered(c, AllData)'
          BY <1>2, <5>1, <5>3, CoverKept, ChainStep
        <5> QED BY <2>0, <3>2, <4>1, <5>2, <5>3
      <4> QED BY <3>1, <3>2, <3>3, <4>1
    <3> QED BY <3>4, <3>5
  <2>4. ASSUME Auth
        PROVE  \/ cookie' \in {"user", "admin"} /\ Then("login", Admin \o <<"enter">>)
               \/ UNCHANGED <<cookie, odd, has>> /\ Then("login", <<>>)
    BY <2>4 DEF Auth, store
  <2> QED BY <2>1, <2>2, <2>3, <2>4
<1> QED BY <1>1, <1>2

-----------------------------------------------------------------------------
(* The theorems.                                                           *)

Inv ==
  /\ TypeOK /\ ChainOrder /\ Unopened /\ PublicFirst
  /\ NobodyYet /\ LetIn /\ FrontInv /\ DashInv

LEMMA Invariant == Spec => []Inv
<1>1. Init => Inv
  <2> SUFFICES ASSUME Init PROVE Inv
    OBVIOUS
  <2>1. TypeOK
    BY InitTypes
  <2>2. \A c \in Chains : todo[c] = <<>> /\ Ordered(todo[c])
    BY ShortChains DEF Init, NoChains, Shorts
  <2>3. \A x : ~In(x, <<>>)
    BY DEF In
  <2>4. ~Opened
    BY DEF Init, Opened
  <2>5. Unopened
    BY <2>2 DEF Init, Unopened, Nowhere
  <2>6. NobodyYet
    <3>1. ~setup => cookie \in {"none", "stale"}
      BY DEF Init
    <3> QED BY <2>2, <2>3, <3>1 DEF NobodyYet, Init, Chains
  <2>7. LetIn
    BY <2>2, <2>3 DEF LetIn, Inside, Init, Chains, Nowhere
  <2>8. PublicFirst
    BY <2>2, <2>3 DEF PublicFirst, Init
  <2> QED BY <2>1, <2>2, <2>4, <2>5, <2>6, <2>7, <2>8
          DEF Inv, ChainOrder, FrontInv, DashInv, Init
<1>2. Inv /\ [Next]_vars => Inv'
  BY TypeStep, OrderStep, UnopenedStep, PublicFirstStep, NobodyStep, LetInStep,
     FrontStep, DashStep DEF Inv
<1> QED BY <1>1, <1>2, PTL DEF Spec

(* The dashboard, and the mark that somebody is logged in, come only after *)
(* the server took the cookie for an administrator's: DashboardIsForAdmins *)
(* of Session.                                                             *)
THEOREM OnlyAdminsEnter == Spec => []DashboardIsForAdmins
<1>1. Inv => DashboardIsForAdmins
  BY DEF Inv, LetIn, Inside, DashboardIsForAdmins
<1> QED BY <1>1, Invariant, PTL

(* A front page at rest has the public data: FrontPageFilled of Session.   *)
THEOREM FrontPageIsFilled == Spec => []FrontPageFilled
<1>1. ASSUME Inv PROVE FrontPageFilled
  <2> SUFFICES ASSUME page = "index", Quiet, setup, ~lost, "setup" \notin odd
               PROVE  Public \subseteq has
    BY DEF FrontPageFilled, Public
  <2>1. PICK c \in Chains : Fills(c)
    BY <1>1 DEF Inv, FrontInv, Opened
  <2>2. todo[c] = <<>> /\ todo["app"] = <<>> /\ todo["setup"] = <<>>
    BY DEF Quiet, Chains
  <2> QED BY <2>1, <2>2 DEF Fills, Covered, In, Now
<1> QED BY <1>1, Invariant, PTL

(* A dashboard at rest has every list, unless a request was lost or        *)
(* refused or the tab met something odd: DashboardFilled of Session.       *)
THEOREM DashboardIsFilled == Spec => []DashboardFilled
<1>1. ASSUME Inv PROVE DashboardFilled
  <2> SUFFICES ASSUME page = "dashboard", Quiet, ~lost, ~denied, odd = {}
               PROVE  PublicData \cup AdminData \subseteq has
    BY DEF DashboardFilled
  <2>1. todo["app"] = <<>>
    BY DEF Quiet, Chains
  <2>2. PICK c \in Chains : Covered(c, AllData)
    BY <1>1, <2>1 DEF Inv, DashInv, Admitted, Inside, Opened, Now
  <2>3. todo[c] = <<>>
    BY DEF Quiet
  <2> QED BY <2>2, <2>3 DEF Covered, In, AllData, Public
<1> QED BY <1>1, Invariant, PTL

=============================================================================
