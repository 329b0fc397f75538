---------------------------- MODULE WebTabProofs ----------------------------
(***************************************************************************)
(* For every catalog and every bound: the types of a tab, and what its     *)
(* pages promise however their requests, their socket's messages and the   *)
(* navigation between them interleave.                                     *)
(***************************************************************************)
EXTENDS WebTab, TLAPS

Cookie == {"none", "live", "expired"}
PostCall == [form : Form, own : BOOLEAN]
LoadCall == [sent : Cookie, own : BOOLEAN]
AskCall == [sent : Cookie, create : BOOLEAN, car : Car \cup {NoCar}, own : BOOLEAN]

(* The session, and whose posts are under way. *)
SessionOK ==
    /\ cookie \in Cookie /\ page \in Page /\ leaving \in Page \cup {"here"}
    /\ formErrors \subseteq {"username", "email", "password", "root"}
    /\ busyForm \in BOOLEAN /\ posts \subseteq PostCall
    /\ page \notin Form => ~busyForm /\ formErrors = {}
    /\ "username" \in formErrors => page = "register"
    /\ \A p \in posts : p.own => p.form = page

(* The lobby, and whose requests are under way. *)
LobbyOK ==
    /\ selected \in Car \cup {NoCar} /\ stored \in Car \cup {NoCar}
    /\ catalog \in BOOLEAN /\ dialog \in BOOLEAN /\ busy \in BOOLEAN /\ error \in BOOLEAN
    /\ rejected \in BOOLEAN
    /\ page # "lobby" => ~catalog /\ ~busy /\ ~error /\ polls = {}
    /\ rooms \in Nat /\ list \in {NoPoll} \cup 0..rooms /\ polls \subseteq {NoPoll} \cup 0..rooms
    /\ loads \subseteq LoadCall /\ asks \subseteq AskCall
    /\ \A c \in loads : c.own => page = "lobby"
    /\ \A q \in asks : q.own => page = "lobby"

TabOK == SessionOK /\ LobbyOK
-----------------------------------------------------------------------------
(* The routes end in one of four ways; what the layouts show is a page.    *)
LEMMA BehindIsPage ==
    ASSUME NEW p \in Page
    PROVE  Behind(p) \in Page
BY DEF Page, Behind, LobbyLayout, RoomLayout

(* A navigation brings a page that mounts, or leaves the one on show. *)
LEMMA Navigates ==
    ASSUME SessionOK, Arrive \/ FollowLink
    PROVE  /\ leaving' = "here" /\ cookie' = cookie
           /\ \/ \E p \in Page : Mounts(p)
              \/ stayed' = TRUE /\ UNCHANGED <<page, forms, lobbyVars, roomVars>>
<1>1. CASE Arrive
    <2>1. Behind(leaving) \in Page
        BY <1>1, BehindIsPage DEF Arrive, SessionOK
    <2> QED BY <1>1, <2>1 DEF Arrive
<1>2. CASE FollowLink
    <2>1. \A p \in Links(page) : p \in Page
        BY DEF Links, Page, SessionOK
    <2> QED BY <1>2, <2>1, BehindIsPage DEF FollowLink
<1> QED BY <1>1, <1>2

(* What every other step leaves alone. *)
LEMMA Frames ==
    ASSUME [Next]_vars
    PROVE  \/ Arrive \/ FollowLink
           \/ /\ UNCHANGED <<page, stayed>>
              /\ \/ UNCHANGED <<forms, lobbyVars, roomVars, leaving>> /\ (Surprise \/ cookie' = cookie)
                 \/ FormStep /\ UNCHANGED <<lobbyVars, roomVars>>
                 \/ LobbyStep /\ UNCHANGED <<cookie, forms, roomVars>>
                 \/ RoomStep /\ UNCHANGED <<cookie, forms, lobbyVars>>
<1>1. CASE Surprise
    BY <1>1 DEF Surprise, TokenExpires, OtherTab, route, forms
<1>2. CASE FormStep /\ UNCHANGED <<lobbyVars, roomVars, stayed>>
    BY <1>2 DEF FormStep, Submit, FormAnswers, LoginAnswered, RegisterAnswered, PostAnswered, route
<1>3. CASE LobbyStep /\ UNCHANGED <<roomVars, stayed>>
    <2>1. UNCHANGED <<cookie, page, forms>>
        BY <1>3 DEF LobbyStep, LobbyAnswers, PollStep, LobbyUser, LoadAnswered, AskAnswered,
           PollRead, PollFails, PollAnswered, Poll, RoomsChange, Retry, OpenDialog, CloseDialog,
           SelectCar, HandleCreateRoom, HandleJoinByCode, HandleJoinRoom, Ask, BadCode, route
    <2> QED BY <1>3, <2>1
<1>4. CASE RoomStep /\ UNCHANGED <<lobbyVars, stayed>>
    <2>1. UNCHANGED <<cookie, page, forms>>
        <3>1. CASE RoomServer \/ RoomOthers
            BY <3>1 DEF RoomServer, RoomOthers, Announce, JoinReceived, JoinAnnounces, JoinReads,
               JoinResyncs, ReadyWritten, ReadyReceived, MoveReceived, UpdateSent, OtherReady, CountdownExpires, RaceEnds, OtherReturns,
               GhostNoticed, OtherGoes, route
        <3>2. CASE RoomEvents \/ RoomFetches
            BY <3>2 DEF RoomEvents, RoomFetches, OnGameStart, OnStateUpdate, OnGameEnd, OnRejected, OnPlayerJoined,
               OnRaceCountdown, OnConnectionChange, Receive, RoomRead, RoomLoaded, RoomNotLoaded,
               SocketToken, route
        <3>3. CASE Connect \/ Drop \/ CountdownOver \/ ClickReady \/ ClickMove
            BY <3>3 DEF Connect, Drop, JoinGoesOn, CountdownOver, ClickReady, ClickMove, route
        <3> QED BY <1>4, <3>1, <3>2, <3>3 DEF RoomStep
    <2> QED BY <1>4, <2>1
<1>5. CASE UNCHANGED vars
    BY <1>5 DEF vars, route
<1> QED BY <1>1, <1>2, <1>3, <1>4, <1>5 DEF Next

(* Where a page asks the browser to go. *)
LEMMA Leaves ==
    ASSUME LobbyStep \/ RoomStep \/ FormStep
    PROVE  leaving' = leaving \/ leaving' \in {"login", "lobby", "room"}
<1>1. CASE LobbyStep
    BY <1>1 DEF LobbyStep, LobbyAnswers, PollStep, LobbyUser, LoadAnswered, LoadOk, AskAnswered,
       PollRead, PollFails, PollAnswered, Poll, RoomsChange, Retry, OpenDialog, CloseDialog,
       SelectCar, HandleCreateRoom, HandleJoinByCode, HandleJoinRoom, Ask, BadCode, route
<1>2. CASE RoomStep
    <2>1. CASE RoomServer \/ RoomOthers
        BY <2>1 DEF RoomServer, RoomOthers, Announce, JoinReceived, JoinAnnounces, JoinReads,
           JoinResyncs, ReadyWritten, ReadyReceived, MoveReceived, UpdateSent, OtherReady, CountdownExpires, RaceEnds, OtherReturns,
           GhostNoticed, OtherGoes, route
    <2>2. CASE RoomEvents \/ RoomFetches
        BY <2>2 DEF RoomEvents, RoomFetches, OnGameStart, OnStateUpdate, OnGameEnd, OnRejected, OnPlayerJoined,
           OnRaceCountdown, OnConnectionChange, Receive, RoomRead, RoomLoaded, RoomNotLoaded,
           SocketToken, route
    <2>3. CASE Connect \/ Drop \/ CountdownOver \/ ClickReady \/ ClickMove
        BY <2>3 DEF Connect, Drop, JoinGoesOn, CountdownOver, ClickReady, ClickMove, route
    <2> QED BY <1>2, <2>1, <2>2, <2>3 DEF RoomStep
<1>3. CASE FormStep
    BY <1>3 DEF FormStep, Submit, FormAnswers, LoginAnswered, RegisterAnswered, PostAnswered, route
<1> QED BY <1>1, <1>2, <1>3
-----------------------------------------------------------------------------
(* The requests of a page that was left answer to nobody. *)
LEMMA DisownedPosts ==
    ASSUME posts \subseteq PostCall
    PROVE  Disowned(posts) \subseteq PostCall /\ \A p \in Disowned(posts) : ~p.own
<1> SUFFICES ASSUME NEW d \in Disowned(posts) PROVE d \in PostCall /\ ~d.own
    OBVIOUS
<1>1. PICK c \in posts : d = [c EXCEPT !.own = FALSE]
    BY Zenon DEF Disowned
<1> QED BY <1>1 DEF PostCall

LEMMA DisownedLoads ==
    ASSUME loads \subseteq LoadCall
    PROVE  Disowned(loads) \subseteq LoadCall /\ \A c \in Disowned(loads) : ~c.own
<1> SUFFICES ASSUME NEW d \in Disowned(loads) PROVE d \in LoadCall /\ ~d.own
    OBVIOUS
<1>1. PICK c \in loads : d = [c EXCEPT !.own = FALSE]
    BY Zenon DEF Disowned
<1> QED BY <1>1 DEF LoadCall

LEMMA DisownedAsks ==
    ASSUME asks \subseteq AskCall
    PROVE  /\ Disowned(asks) \subseteq AskCall
           /\ \A d \in Disowned(asks) : ~d.own /\ \E q \in asks : d.car = q.car
<1> SUFFICES ASSUME NEW d \in Disowned(asks)
             PROVE  d \in AskCall /\ ~d.own /\ \E q \in asks : d.car = q.car
    OBVIOUS
<1>1. PICK c \in asks : d = [c EXCEPT !.own = FALSE]
    BY Zenon DEF Disowned
<1> QED BY <1>1 DEF AskCall

LEMMA MountTypes ==
    ASSUME TabOK, NEW p \in Page, Mounts(p), leaving' = "here", cookie' = cookie
    PROVE  TabOK'
<1>1. /\ page' = p /\ busyForm' = FALSE /\ formErrors' = {} /\ posts' = Disowned(posts)
    BY DEF Mounts
<1>2. SessionOK'
    BY <1>1, DisownedPosts DEF TabOK, SessionOK
<1>3. /\ catalog' = FALSE /\ selected' = NoCar /\ dialog' = FALSE /\ busy' = FALSE
      /\ error' = FALSE /\ list' = NoPoll /\ rejected' = FALSE /\ rooms' = 0
      /\ stored' \in Car \cup {NoCar} /\ asks' = Disowned(asks)
      /\ polls' \subseteq {NoPoll} /\ (p # "lobby" => polls' = {})
    BY DEF Mounts, LobbyMounts, LobbyAsks
<1>4. loads' \subseteq LoadCall /\ \A c \in loads' : c.own => page' = "lobby"
    <2> DEFINE new == IF p = "lobby" THEN {[sent |-> cookie, own |-> TRUE]} ELSE {}
    <2>1. loads' = Disowned(loads) \cup new
        BY DEF Mounts, LobbyAsks
    <2>2. [sent |-> cookie, own |-> TRUE] \in LoadCall
        BY DEF TabOK, SessionOK, LoadCall
    <2>3. new \subseteq LoadCall /\ (p # "lobby" => new = {})
        BY <2>2
    <2> HIDE DEF new
    <2> QED BY <1>1, <2>1, <2>3, DisownedLoads DEF TabOK, LobbyOK
<1>5. asks' \subseteq AskCall /\ \A q \in asks' : ~q.own
    BY <1>3, DisownedAsks DEF TabOK, LobbyOK
<1>6. LobbyOK'
    BY <1>1, <1>3, <1>4, <1>5 DEF LobbyOK
<1> QED BY <1>2, <1>6 DEF TabOK

LEMMA FormTypes ==
    ASSUME SessionOK, FormStep
    PROVE  SessionOK'
<1>1. CASE Submit
    <2>1. page \in Form /\ ~busyForm
        BY <1>1 DEF Submit, LoginForm, RegisterForm, Form
    <2>2. [form |-> page, own |-> TRUE] \in PostCall
        BY <2>1 DEF PostCall
    <2>3. posts' \subseteq PostCall /\ \A p \in posts' : p.own => p.form = page
        <3> DEFINE new == [form |-> page, own |-> TRUE]
        <3>1. new.form = page /\ posts' = posts \cup {new}
            BY <1>1 DEF Submit
        <3> HIDE DEF new
        <3>2. new \in PostCall
            BY <2>2 DEF new
        <3> QED BY <3>1, <3>2 DEF SessionOK
    <2>4. /\ UNCHANGED <<cookie, page, leaving>>
          /\ busyForm' = TRUE /\ formErrors' = {}
        BY <1>1 DEF Submit, route
    <2> QED BY <2>1, <2>3, <2>4 DEF SessionOK
<1>2. ASSUME NEW p \in posts, NEW outcome, NEW errors, PostAnswered(p, outcome, errors),
             errors \subseteq {"username", "email", "password", "root"},
             "username" \in errors => p.form = "register"
      PROVE  SessionOK'
    <2>1. /\ page' = page /\ posts' = posts \ {p} /\ cookie' \in Cookie
          /\ leaving' \in Page \cup {"here"}
        BY <1>2 DEF PostAnswered, Posted, SetAuthCookies, ClearAuthCookies, SessionOK, Cookie, Page
    <2>2. busyForm' = (busyForm /\ ~p.own) /\ busyForm' \in BOOLEAN
        BY <1>2 DEF PostAnswered
    <2>3. formErrors' = formErrors \/ (p.own /\ formErrors' = errors)
        BY <1>2 DEF PostAnswered
    <2>4. p.own => p.form = page /\ page \in Form
        BY DEF SessionOK, PostCall
    <2> QED BY <1>2, <2>1, <2>2, <2>3, <2>4 DEF SessionOK
<1>3. CASE FormAnswers
    <2>1. PICK p \in posts, outcome \in {"ok", "refused", "lost"} :
             \E named \in (IF outcome = "refused" THEN NormalizeBackendError ELSE {{}}) :
                LoginAnswered(p, outcome, named) \/ RegisterAnswered(p, outcome, named)
        BY <1>3 DEF FormAnswers
    <2>2. PICK named : LoginAnswered(p, outcome, named) \/ RegisterAnswered(p, outcome, named)
        BY <2>1
    <2>3. CASE LoginAnswered(p, outcome, named)
        <3>1. PostAnswered(p, outcome, OrRoot(named \cap {"email", "password"}))
            BY <2>3 DEF LoginAnswered
        <3> QED BY <1>2, <3>1 DEF OrRoot
    <2>4. CASE RegisterAnswered(p, outcome, named)
        <3>1. /\ PostAnswered(p, outcome, OrRoot(named \cap {"username", "email", "password"}))
              /\ p.form = "register"
            BY <2>4 DEF RegisterAnswered
        <3> QED BY <1>2, <3>1 DEF OrRoot
    <2> QED BY <2>2, <2>3, <2>4
<1> QED BY <1>1, <1>3 DEF FormStep

LEMMA LobbyTypes ==
    ASSUME TabOK, LobbyStep, UNCHANGED <<cookie, page, forms>>
    PROVE  TabOK'
<1>1. SessionOK'
    BY Leaves DEF TabOK, SessionOK, forms, Page
<1> SUFFICES LobbyOK'
    BY <1>1 DEF TabOK
<1> USE DEF TabOK, LobbyOK, lobby, lobbyCalls, route, forms
<1>2. ASSUME NEW c \in loads, NEW o, LoadAnswered(c, o)
      PROVE  LobbyOK'
    <2>1. /\ loads' = loads \ {c} /\ UNCHANGED <<page, dialog, busy, list, rooms, asks, polls>>
        BY <1>2 DEF LoadAnswered
    <2>2. \/ LoadOk(c)
          \/ error' = (error \/ c.own) /\ UNCHANGED <<catalog, selected, stored, rejected>>
          \/ rejected' = (rejected \/ c.own) /\ UNCHANGED <<catalog, selected, stored, error>>
          \/ UNCHANGED <<catalog, selected, stored, error, rejected>>
        BY <1>2 DEF LoadAnswered
    <2>3. Pick \subseteq Car \cup {NoCar}
        BY CarAssumption DEF Pick
    <2>4. CASE LoadOk(c)
        <3>1. PICK car \in Pick :
                 /\ stored' = IF car = NoCar \/ page # "lobby" THEN stored ELSE car
                 /\ IF c.own THEN catalog' = TRUE /\ selected' = car
                    ELSE UNCHANGED <<catalog, selected>>
                 /\ UNCHANGED <<error, rejected>>
            BY <2>4 DEF LoadOk
        <3>2. selected' \in Car \cup {NoCar} /\ stored' \in Car \cup {NoCar}
            BY <2>3, <3>1
        <3>3. catalog' \in BOOLEAN /\ (page # "lobby" => ~catalog')
            BY <3>1
        <3> QED BY <2>1, <3>1, <3>2, <3>3
    <2>5. CASE error' = (error \/ c.own) /\ UNCHANGED <<catalog, selected, stored, rejected>>
        BY <2>1, <2>5
    <2>6. CASE rejected' = (rejected \/ c.own) /\ UNCHANGED <<catalog, selected, stored, error>>
        BY <2>1, <2>6
    <2>7. CASE UNCHANGED <<catalog, selected, stored, error, rejected>>
        BY <2>1, <2>7
    <2> QED BY <2>2, <2>4, <2>5, <2>6, <2>7
<1>3. ASSUME NEW q \in asks, NEW o, AskAnswered(q, o)
      PROVE  LobbyOK'
    BY <1>3 DEF AskAnswered
<1>4. CASE PollStep \/ Poll \/ RoomsChange
    <2>1. CASE PollRead
        BY <2>1 DEF PollRead
    <2>2. CASE PollFails
        BY <2>2 DEF PollFails
    <2>3. ASSUME NEW n \in polls, PollAnswered(n) PROVE LobbyOK'
        BY <2>3 DEF PollAnswered
    <2>4. CASE Poll
        BY <2>4 DEF Poll
    <2>5. CASE RoomsChange
        <3>1. rooms' \in Nat /\ \A n \in 0..rooms : n \in 0..rooms'
            BY <2>5 DEF RoomsChange
        <3> QED BY <2>5, <3>1 DEF RoomsChange
    <2> QED BY <1>4, <2>1, <2>2, <2>3, <2>4, <2>5 DEF PollStep
<1>5. CASE LobbyUser
    <2>1. CASE Retry
        <3>1. [sent |-> cookie, own |-> TRUE] \in LoadCall
            BY DEF LoadCall, SessionOK
        <3> QED BY <2>1, <3>1 DEF Retry, LoadingView
    <2>2. CASE OpenDialog \/ CloseDialog
        <3>1. /\ UNCHANGED <<page, catalog, selected, stored, busy, error, list, rejected, rooms>>
              /\ UNCHANGED <<loads, asks, polls>>
            BY <2>2 DEF OpenDialog, CloseDialog
        <3>2. dialog' \in BOOLEAN
            BY <2>2 DEF OpenDialog, CloseDialog
        <3> QED BY <3>1, <3>2
    <2>3. ASSUME NEW car \in Car, SelectCar(car) PROVE LobbyOK'
        BY <2>3 DEF SelectCar
    <2>4. ASSUME NEW create \in BOOLEAN, Ask(create), page = "lobby" PROVE LobbyOK'
        <3>1. [sent |-> cookie, create |-> create, car |-> selected, own |-> TRUE] \in AskCall
            BY DEF AskCall, SessionOK
        <3> QED BY <2>4, <3>1 DEF Ask
    <2>5. CASE BadCode /\ page = "lobby"
        BY <2>5 DEF BadCode
    <2> QED BY <1>5, <2>1, <2>2, <2>3, <2>4, <2>5 DEF LobbyUser, HandleCreateRoom,
           HandleJoinByCode, HandleJoinRoom, CreateDialog, JoinForm, PublicList, Shown
<1> QED BY <1>2, <1>3, <1>4, <1>5 DEF LobbyStep, LobbyAnswers

LEMMA TabTypes ==
    ASSUME TabOK, [Next]_vars
    PROVE  TabOK'
<1>1. CASE Arrive \/ FollowLink
    <2>1. /\ leaving' = "here" /\ cookie' = cookie
          /\ \/ \E p \in Page : Mounts(p)
             \/ stayed' = TRUE /\ UNCHANGED <<page, forms, lobbyVars, roomVars>>
        BY <1>1, Navigates DEF TabOK
    <2>2. CASE \E p \in Page : Mounts(p)
        BY <2>1, <2>2, MountTypes
    <2>3. CASE UNCHANGED <<page, forms, lobbyVars, roomVars>>
        BY <2>1, <2>3 DEF TabOK, SessionOK, LobbyOK, forms, lobbyVars, lobby, lobbyCalls
    <2> QED BY <2>1, <2>2, <2>3
<1>2. CASE /\ UNCHANGED <<page, forms, lobbyVars, roomVars, leaving>>
           /\ Surprise \/ cookie' = cookie
    BY <1>2 DEF Surprise, TokenExpires, OtherTab, SetAuthCookies, ClearAuthCookies, Cookie,
       TabOK, SessionOK, LobbyOK, forms, lobbyVars, lobby, lobbyCalls
<1>3. CASE FormStep /\ UNCHANGED <<page, lobbyVars, roomVars>>
    BY <1>3, FormTypes DEF TabOK, LobbyOK, lobbyVars, lobby, lobbyCalls
<1>4. CASE LobbyStep /\ UNCHANGED <<page, cookie, forms, roomVars>>
    BY <1>4, LobbyTypes
<1>5. CASE RoomStep /\ UNCHANGED <<page, cookie, forms, lobbyVars>>
    BY <1>5, Leaves DEF TabOK, SessionOK, LobbyOK, forms, lobbyVars, lobby, lobbyCalls, Page
<1> QED BY <1>1, <1>2, <1>3, <1>4, <1>5, Frames

LEMMA TabInit == Init => TabOK
<1> SUFFICES ASSUME Init PROVE TabOK
    OBVIOUS
<1>1. SessionOK
    BY DEF Init, SessionOK, Cookie, Page, Form
<1>2. rooms = 0 /\ list = NoPoll /\ polls = {} /\ loads = {} /\ asks = {}
    BY DEF Init
<1>3. /\ ~catalog /\ ~dialog /\ ~busy /\ ~error /\ ~rejected
      /\ {catalog, dialog, busy, error, rejected} \subseteq BOOLEAN
    BY DEF Init
<1>4. selected = NoCar /\ stored = NoCar
    BY DEF Init
<1> QED BY <1>1, <1>2, <1>3, <1>4 DEF TabOK, LobbyOK
-----------------------------------------------------------------------------
(* The lobby: what it may do when, and what is left of it elsewhere. *)
LEMMA SelectedStep ==
    ASSUME TabOK, SelectedIsUnlocked, [Next]_vars
    PROVE  SelectedIsUnlocked'
<1> USE DEF SelectedIsUnlocked
<1>1. CASE Arrive \/ FollowLink
    <2>1. \/ \E p \in Page : Mounts(p)
          \/ UNCHANGED <<catalog, selected, asks>>
        BY <1>1, Navigates DEF TabOK, lobbyVars, lobby, lobbyCalls
    <2>2. ASSUME NEW p \in Page, Mounts(p) PROVE SelectedIsUnlocked'
        <3>1. catalog' = FALSE /\ asks' = Disowned(asks)
            BY <2>2 DEF Mounts, LobbyMounts, LobbyAsks
        <3> QED BY <3>1, DisownedAsks DEF TabOK, LobbyOK
    <2> QED BY <2>1, <2>2
<1>2. CASE UNCHANGED lobbyVars
    BY <1>2 DEF lobbyVars, lobby, lobbyCalls
<1>3. CASE LobbyStep
    <2>1. ASSUME NEW c \in loads, NEW o, LoadAnswered(c, o) PROVE SelectedIsUnlocked'
        <3>1. \A car \in Pick : Unlocked # {} => car \in Unlocked
            BY DEF Pick
        <3> QED BY <2>1, <3>1 DEF LoadAnswered, LoadOk
    <2>2. ASSUME NEW q \in asks, NEW o, AskAnswered(q, o) PROVE SelectedIsUnlocked'
        BY <2>2 DEF AskAnswered
    <2>3. CASE PollStep \/ Poll \/ RoomsChange \/ Retry \/ OpenDialog \/ CloseDialog \/ BadCode
        BY <2>3 DEF PollStep, PollRead, PollFails, PollAnswered, Poll, RoomsChange, Retry,
           OpenDialog, CloseDialog, BadCode, lobby, lobbyCalls
    <2>4. ASSUME NEW car \in Car, SelectCar(car) PROVE SelectedIsUnlocked'
        BY <2>4 DEF SelectCar, CarGrid, lobbyCalls
    <2>5. ASSUME NEW create \in BOOLEAN, Ask(create) PROVE SelectedIsUnlocked'
        <3> DEFINE new == [sent |-> cookie, create |-> create, car |-> selected, own |-> TRUE]
        <3>1. /\ UNCHANGED <<catalog, selected>>
              /\ \/ asks' = asks
                 \/ asks' = asks \cup {new} /\ selected \in Unlocked
            BY <2>5 DEF Ask, RequireCarId
        <3>2. new.car = selected
            OBVIOUS
        <3> HIDE DEF new
        <3> QED BY <3>1, <3>2
    <2> QED BY <1>3, <2>1, <2>2, <2>3, <2>4, <2>5 DEF LobbyStep, LobbyAnswers, LobbyUser,
           HandleCreateRoom, HandleJoinByCode, HandleJoinRoom
<1> QED BY <1>1, <1>2, <1>3, Frames

LEMMA BusyStep ==
    ASSUME TabOK, BusyEnds, [Next]_vars
    PROVE  BusyEnds'
<1> DEFINE FormBusy == busyForm => \E p \in posts : p.own /\ p.form = page
           LobbyBusy == busy => \E q \in asks : q.own
<1>1. CASE Arrive \/ FollowLink
    <2>1. \/ \E p \in Page : Mounts(p)
          \/ UNCHANGED <<page, busyForm, posts, busy, asks>>
        BY <1>1, Navigates DEF TabOK, forms, lobbyVars, lobby, lobbyCalls
    <2>2. (\E p \in Page : Mounts(p)) => busy' = FALSE /\ busyForm' = FALSE
        BY DEF Mounts, LobbyMounts
    <2> QED BY <2>1, <2>2 DEF BusyEnds
<1>2. ASSUME UNCHANGED page, FormStep PROVE FormBusy'
    <2>1. CASE Submit
        <3> DEFINE new == [form |-> page, own |-> TRUE]
        <3>1. new.form = page /\ new.own /\ posts' = posts \cup {new}
            BY <2>1 DEF Submit
        <3> HIDE DEF new
        <3> QED BY <1>2, <3>1
    <2>2. CASE FormAnswers
        <3>1. PICK p \in posts : posts' = posts \ {p} /\ busyForm' = (busyForm /\ ~p.own)
            BY <2>2 DEF FormAnswers, LoginAnswered, RegisterAnswered, PostAnswered
        <3> QED BY <1>2, <3>1 DEF BusyEnds
    <2> QED BY <1>2, <2>1, <2>2 DEF FormStep
<1>3. ASSUME UNCHANGED <<page, forms>> PROVE FormBusy'
    BY <1>3 DEF BusyEnds, forms
<1>4. ASSUME UNCHANGED lobbyVars PROVE LobbyBusy'
    BY <1>4 DEF BusyEnds, lobbyVars, lobby, lobbyCalls
<1>5. ASSUME LobbyStep PROVE LobbyBusy'
    <2>1. ASSUME NEW q \in asks, NEW o, AskAnswered(q, o) PROVE LobbyBusy'
        BY <2>1 DEF AskAnswered, BusyEnds
    <2>2. ASSUME NEW create \in BOOLEAN, Ask(create) PROVE LobbyBusy'
        <3> DEFINE new == [sent |-> cookie, create |-> create, car |-> selected, own |-> TRUE]
        <3>1. UNCHANGED <<busy, asks>> \/ asks' = asks \cup {new}
            BY <2>2 DEF Ask
        <3>2. new.own
            OBVIOUS
        <3> HIDE DEF new
        <3> QED BY <3>1, <3>2 DEF BusyEnds
    <2>3. CASE UNCHANGED <<busy, asks>>
        BY <2>3 DEF BusyEnds
    <2>4. (LobbyAnswers /\ ~\E q \in asks : \E o \in Asked(q) : AskAnswered(q, o))
             \/ PollStep \/ Poll \/ RoomsChange \/ Retry \/ OpenDialog \/ CloseDialog \/ BadCode
             \/ (\E car \in Car : SelectCar(car))
          => UNCHANGED <<busy, asks>>
        BY DEF LobbyAnswers, LoadAnswered, PollStep, PollRead, PollFails, PollAnswered, Poll,
           RoomsChange, Retry, OpenDialog, CloseDialog, SelectCar, BadCode, lobby, lobbyCalls
    <2> QED BY <1>5, <2>1, <2>2, <2>3, <2>4 DEF LobbyStep, LobbyAnswers, LobbyUser,
           HandleCreateRoom, HandleJoinByCode, HandleJoinRoom
<1> QED BY <1>1, <1>2, <1>3, <1>4, <1>5, Frames DEF BusyEnds

LEMMA LoadingStep ==
    ASSUME TabOK, LoadingEnds, [Next]_vars
    PROVE  LoadingEnds'
<1>1. CASE Arrive \/ FollowLink
    <2>1. ASSUME NEW p \in Page, Mounts(p) PROVE LoadingEnds'
        <3> DEFINE new == [sent |-> cookie, own |-> TRUE]
        <3>1. page' = p /\ (p = "lobby" => new \in loads')
            BY <2>1 DEF Mounts, LobbyAsks
        <3>2. new.own
            OBVIOUS
        <3> HIDE DEF new
        <3> QED BY <3>1, <3>2 DEF LoadingEnds
    <2> QED BY <1>1, <2>1, Navigates DEF TabOK, LoadingEnds
<1>2. CASE UNCHANGED <<page, stayed, lobbyVars>> /\ (leaving' = leaving \/ leaving' # "here")
    BY <1>2 DEF LoadingEnds, lobbyVars, lobby, lobbyCalls
<1>3. CASE LobbyStep /\ UNCHANGED <<page, stayed>>
    <2>0. leaving' = leaving \/ leaving' # "here"
        BY <1>3, Leaves
    <2>1. ASSUME NEW c \in loads, NEW o, LoadAnswered(c, o) PROVE LoadingEnds'
        <3>1. loads' = loads \ {c}
            BY <2>1 DEF LoadAnswered
        <3>2. \/ c.own => catalog' \/ leaving' = "login" \/ error' \/ rejected'
            BY <2>1 DEF LoadAnswered, LoadOk
        <3>3. catalog => catalog'
            BY <2>1 DEF LoadAnswered, LoadOk
        <3>4. error => error'
            BY <2>1, Zenon DEF LoadAnswered, LoadOk
        <3>5. rejected => rejected'
            BY <2>1, Zenon DEF LoadAnswered, LoadOk
        <3> QED BY <1>3, <2>0, <3>1, <3>2, <3>3, <3>4, <3>5 DEF LoadingEnds
    <2>2. CASE /\ UNCHANGED <<catalog, rejected>> /\ loads \subseteq loads'
               /\ (error => error') \/ catalog \/ \E c \in loads' : c.own
        BY <1>3, <2>0, <2>2 DEF LoadingEnds
    <2>3. CASE Retry
        <3> DEFINE new == [sent |-> cookie, own |-> TRUE]
        <3>1. UNCHANGED <<catalog, rejected>> /\ loads' = loads \cup {new}
            BY <2>3 DEF Retry
        <3>2. new.own
            OBVIOUS
        <3> HIDE DEF new
        <3> QED BY <2>2, <3>1, <3>2
    <2>4. CASE \/ PollStep \/ Poll \/ RoomsChange \/ OpenDialog \/ CloseDialog \/ HandleCreateRoom
               \/ HandleJoinByCode \/ HandleJoinRoom \/ (\E car \in Car : SelectCar(car))
               \/ \E q \in asks : \E o \in Asked(q) : AskAnswered(q, o)
        <3>1. UNCHANGED <<catalog, rejected, loads>>
            BY <2>4 DEF PollStep, PollRead, PollFails, PollAnswered, Poll, RoomsChange, OpenDialog,
               CloseDialog, HandleCreateRoom, HandleJoinByCode, HandleJoinRoom, Ask, BadCode,
               SelectCar, AskAnswered, lobby, lobbyCalls
        <3>2. ASSUME NEW q \in asks, NEW o, AskAnswered(q, o) PROVE error => error'
            BY <2>4, <3>2 DEF AskAnswered
        <3>3. (error => error') \/ catalog
            BY <2>4, <3>2 DEF PollStep, PollRead, PollFails, PollAnswered, Poll, RoomsChange,
               OpenDialog, CloseDialog, HandleCreateRoom, HandleJoinByCode, HandleJoinRoom,
               SelectCar, CreateDialog, JoinForm, PublicList, Shown, lobby
        <3> QED BY <2>2, <3>1, <3>3
    <2> QED BY <1>3, <2>1, <2>3, <2>4 DEF LobbyStep, LobbyAnswers, LobbyUser
<1> QED BY <1>1, <1>2, <1>3, Frames, Leaves
-----------------------------------------------------------------------------
(* The room page. *)
Event == {"player_joined", "online", "offline", "race_countdown", "game_start", "game_end",
          "state_update", "rejected"}
Events == [type : Event, list : SUBSET Member]
Announcements == [list : SUBSET Member, start : BOOLEAN, online : BOOLEAN]
Readies == [who : Member, list : SUBSET Member]
Fetches ==
    [at : {"sent"}, sent : Cookie]
      \cup [at : {"read"}, sent : Cookie, status : {"WAITING", "RACING", "FINISHED"},
            list : SUBSET Member]

(* What it fetches comes before its socket. *)
ViewOK ==
    /\ view \in {"none", "loading", "failed", "loaded"} /\ (view = "none") = (page # "room")
    /\ roster \subseteq Member
    /\ fetched = Nothing \/ fetched \in Fetches
    /\ fetched # Nothing => view = "loading" /\ link = "none"

ServerOK ==
    /\ game \in Game /\ ready \subseteq Member
    /\ open \in BOOLEAN /\ (game = "none" => open) /\ timer \in BOOLEAN
    /\ readying \subseteq Readies /\ announcing \subseteq Announcements

(* A socket has joined the room only once it is connected: whoever joins   *)
(* asks for it over the connection there is.                               *)
SocketOK ==
    /\ link \in {"none", "token", "down", "up", "error"}
    /\ joined \in BOOLEAN /\ (joined => link = "up")
    /\ joining \in JoinHandler \cup {Nothing}
    /\ joining # Nothing \/ down # <<>> => joined
    /\ up \in Seq({"join", "ready", "move"}) /\ down \in Seq(Events)
    /\ link # "up" => \A i \in 1..Len(up) : up[i] # "join"

RoomOK == ViewOK /\ ServerOK /\ SocketOK

LEMMA MessageOK == \A type \in Event, l \in SUBSET Member : Message(type, l) \in Events
BY DEF Message, Events

LEMMA ToRoomOK ==
    ASSUME SocketOK, NEW msgs \in Seq(Events)
    PROVE  ToRoom(msgs) \in Seq(Events) /\ (~joined => ToRoom(msgs) = <<>>)
BY DEF SocketOK, ToRoom

(* What is sent with an announcement: the list, and maybe more. *)
Said(a, starts) ==
    <<Message("player_joined", a.list)>>
      \o (IF a.online THEN <<Message("online", {})>> ELSE <<>>)
      \o (IF starts THEN <<Message("race_countdown", {})>> ELSE <<>>)

LEMMA NewsOK ==
    ASSUME NEW a \in Announcements, NEW starts \in BOOLEAN
    PROVE  Said(a, starts) \in Seq(Events)
<1>1. a.list \in SUBSET Member
    BY DEF Announcements
<1>2. /\ <<Message("player_joined", a.list)>> \in Seq(Events)
      /\ <<Message("online", {})>> \in Seq(Events)
      /\ <<Message("race_countdown", {})>> \in Seq(Events)
    BY <1>1, MessageOK DEF Event
<1> QED BY <1>2 DEF Said

LEMMA EmptyOK ==
    /\ <<>> \in Seq(Events) /\ <<>> \in Seq({"join", "ready", "move"})
    /\ \A i \in 1..Len(<<>>) : FALSE
OBVIOUS

LEMMA RoomMountTypes ==
    ASSUME NEW p \in Page, Mounts(p), cookie' = cookie, cookie \in Cookie
    PROVE  RoomOK'
<1>1. RoomMounts(p) /\ page' = p
    BY DEF Mounts
<1>2. ViewOK'
    <2>1. [at |-> "sent", sent |-> cookie] \in Fetches
        BY DEF Fetches
    <2> QED BY <1>1, <2>1 DEF RoomMounts, ViewOK
<1>3. ServerOK'
    BY <1>1 DEF RoomMounts, ServerOK, Game
<1>4. SocketOK'
    <2>1. link' = "none" /\ up' = <<>> /\ down' = <<>> /\ joined' = FALSE /\ joining' = Nothing
        BY <1>1 DEF RoomMounts
    <2> QED BY <2>1, EmptyOK DEF SocketOK
<1> QED BY <1>2, <1>3, <1>4 DEF RoomOK

LEMMA ViewTypes ==
    ASSUME RoomOK, RoomStep, UNCHANGED <<cookie, page>>, cookie \in Cookie
    PROVE  ViewOK'
<1> USE DEF RoomOK, ViewOK
<1>1. CASE RoomRead
    <2>1. [at |-> "read", sent |-> fetched.sent, status |-> Status, list |-> ready]
             \in Fetches
        <3>1. Status \in {"WAITING", "RACING", "FINISHED"} /\ ready \in SUBSET Member
            BY DEF Status, ServerOK
        <3>2. fetched.sent \in Cookie
            BY <1>1 DEF RoomRead, Fetches
        <3> QED BY <3>1, <3>2 DEF Fetches
    <2> QED BY <1>1, <2>1 DEF RoomRead, socket
<1>2. CASE RoomLoaded
    BY <1>2 DEF RoomLoaded, Fetches
<1>3. ASSUME NEW o, RoomNotLoaded(o) PROVE ViewOK'
    BY <1>3 DEF RoomNotLoaded, socket
<1>4. ASSUME NEW o, SocketToken(o) PROVE ViewOK'
    BY <1>4 DEF SocketToken, roomView
<1>5. CASE Connect \/ Drop \/ CountdownOver \/ ClickReady \/ ClickMove
    BY <1>5 DEF Connect, Drop, JoinGoesOn, CountdownOver, ClickReady, ClickMove, roomView, socket, roomVars
<1>6. CASE RoomServer \/ RoomOthers
    BY <1>6 DEF RoomServer, RoomOthers, Announce, JoinReceived, JoinAnnounces, JoinReads,
       JoinResyncs, ReadyWritten, ReadyReceived, MoveReceived, UpdateSent, OtherReady, CountdownExpires, RaceEnds, OtherReturns,
       GhostNoticed, OtherGoes, roomView, socket
<1>7. CASE RoomEvents
    <2>1. UNCHANGED <<view, fetched, link>>
        BY <1>7 DEF RoomEvents, OnGameStart, OnStateUpdate, OnGameEnd, OnRejected, OnPlayerJoined, OnRaceCountdown,
           OnConnectionChange, Receive
    <2>2. roster' = roster \/ (down # <<>> /\ roster' = Head(down).list)
        BY <1>7 DEF RoomEvents, OnGameStart, OnStateUpdate, OnGameEnd, OnRejected, OnPlayerJoined, OnRaceCountdown,
           OnConnectionChange, Receive
    <2>3. down # <<>> => Head(down) \in Events
        BY DEF SocketOK
    <2>4. roster' \subseteq Member
        BY <2>2, <2>3 DEF Events
    <2> QED BY <2>1, <2>4
<1> QED BY <1>1, <1>2, <1>3, <1>4, <1>5, <1>6, <1>7 DEF RoomStep, RoomFetches

LEMMA ServerTypes ==
    ASSUME RoomOK, RoomStep
    PROVE  ServerOK'
<1> USE DEF RoomOK, ServerOK
<1>1. ASSUME NEW m \in Member, ReadyRead(m), UNCHANGED <<room, announcing>>
      PROVE  ServerOK'
    <2>1. [who |-> m, list |-> ready] \in Readies
        BY DEF Readies
    <2> QED BY <1>1, <2>1 DEF ReadyRead, room
<1>2. ASSUME UNCHANGED <<game, open, ready, readying>>, timer' \in BOOLEAN,
             NEW n \in Announcements, announcing' \subseteq announcing \cup {n}
      PROVE  ServerOK'
    BY <1>2
<1>3. ASSUME NEW a \in announcing, Announce(a) PROVE ServerOK'
    <2>1. UNCHANGED <<game, open, ready, readying>> /\ timer' \in BOOLEAN
        BY <1>3 DEF Announce, Announcements
    <2>2. announcing' \subseteq announcing
        BY <1>3 DEF Announce
    <2> QED BY <2>1, <2>2
<1>4. ASSUME NEW r \in readying, ReadyWritten(r) PROVE ServerOK'
    <2>1. r.list \subseteq Member /\ r.who \in Member
        BY DEF Readies
    <2>2. ready' \subseteq Member /\ open' = TRUE /\ readying' \subseteq readying
          /\ UNCHANGED <<game, timer>>
        BY <1>4, <2>1 DEF ReadyWritten
    <2>3. News(ready', ready' = Member, FALSE) \in Announcements
        BY <2>2 DEF News, Announcements
    <2>4. announcing' \subseteq Announcements
        BY <1>4, <2>3 DEF ReadyWritten
    <2> QED BY <2>2, <2>4
<1>5. CASE OtherReturns
    <2>1. News(ready, FALSE, TRUE) \in Announcements
        BY DEF News, Announcements
    <2> QED BY <1>2, <1>5, <2>1 DEF OtherReturns, room
<1>6. CASE Drop
    <2>1. joining # Nothing /\ joining.at = "list" => joining.list \subseteq Member
        BY DEF SocketOK, JoinHandler
    <2>2. joining # Nothing /\ joining.at = "list" => Tidings(joining.list) \in Announcements
        BY <2>1 DEF Tidings, News, Announcements
    <2>3. UNCHANGED <<room, readying>> /\ announcing' \subseteq Announcements
        BY <1>6, <2>2 DEF Drop, JoinGoesOn
    <2> QED BY <2>3 DEF room
<1>7. CASE ReadyReceived \/ OtherReady
    <2>1. UNCHANGED <<room, announcing>>
        BY <1>7 DEF ReadyReceived, OtherReady
    <2>2. readying' = readying \/ \E m \in Member : ReadyRead(m)
        BY <1>7 DEF ReadyReceived, OtherReady, Member
    <2> QED BY <1>1, <2>1, <2>2 DEF room
<1>8. CASE CountdownExpires \/ RaceEnds
    <2>1. /\ UNCHANGED <<ready, calls>> /\ timer' \in BOOLEAN
          /\ UNCHANGED <<game, open>> \/ (game' \in {"on", "over"} /\ open' = FALSE)
        BY <1>8 DEF CountdownExpires, RaceEnds
    <2>2. UNCHANGED <<readying, announcing>>
        BY <2>1 DEF calls
    <2>3. CASE game' = game /\ open' = open
        BY <2>1, <2>2, <2>3
    <2>4. CASE game' \in {"on", "over"} /\ open' = FALSE
        BY <2>1, <2>2, <2>4 DEF Game
    <2> QED BY <2>1, <2>3, <2>4
<1>9. CASE \/ JoinReceived \/ JoinAnnounces \/ JoinReads \/ JoinResyncs \/ MoveReceived
           \/ UpdateSent \/ GhostNoticed \/ \E noticed \in BOOLEAN : OtherGoes(noticed)
    <2>1. UNCHANGED <<room, calls>>
        BY <1>9 DEF JoinReceived, JoinAnnounces, JoinReads, JoinResyncs, MoveReceived, UpdateSent,
           GhostNoticed, OtherGoes, server
    <2> QED BY <2>1 DEF room, calls
<1>10. CASE RoomEvents \/ RoomFetches \/ Connect \/ CountdownOver \/ ClickReady \/ ClickMove
    <2>1. UNCHANGED server
        BY <1>10 DEF RoomEvents, RoomFetches, OnGameStart, OnStateUpdate, OnGameEnd, OnRejected,
           OnPlayerJoined, OnRaceCountdown, OnConnectionChange, Receive, RoomRead, RoomLoaded,
           RoomNotLoaded, SocketToken, Connect, CountdownOver, ClickReady, ClickMove
    <2> QED BY <2>1 DEF server, room, calls
<1> QED BY <1>3, <1>4, <1>5, <1>6, <1>7, <1>8, <1>9, <1>10 DEF RoomStep, RoomServer, RoomOthers

LEMMA SocketTypes ==
    ASSUME RoomOK, RoomStep
    PROVE  SocketOK'
<1> USE DEF RoomOK
<1>0. SocketOK
    OBVIOUS
<1>1. ASSUME NEW msgs \in Seq(Events), down' = ToRoom(msgs), UNCHANGED <<link, up, joined>>,
             joining' \in JoinHandler \cup {Nothing}, joining' # Nothing => joined
      PROVE  SocketOK'
    BY <1>1, ToRoomOK DEF SocketOK
<1>2. \A type \in Event, l \in SUBSET Member : <<Message(type, l)>> \in Seq(Events)
    BY MessageOK
<1>3. ASSUME NEW a \in announcing, Announce(a) PROVE SocketOK'
    <2> DEFINE starts == a.start /\ ~timer
    <2>1. starts \in BOOLEAN /\ a \in Announcements
        BY DEF ServerOK
    <2>2. down' = ToRoom(Said(a, starts)) /\ UNCHANGED <<link, up, joined, joining>>
        BY <1>3 DEF Announce, Said, handler
    <2> HIDE DEF starts
    <2>3. Said(a, starts) \in Seq(Events)
        BY <2>1, NewsOK
    <2> QED BY <1>1, <2>2, <2>3 DEF SocketOK
<1>4. CASE \/ CountdownExpires \/ RaceEnds \/ UpdateSent \/ GhostNoticed
           \/ \E noticed \in BOOLEAN : OtherGoes(noticed)
    <2>1. UNCHANGED <<link, up, joined, joining>>
        BY <1>4 DEF CountdownExpires, RaceEnds, UpdateSent, GhostNoticed, OtherGoes, handler
    <2>2. \/ down' = down
          \/ \E type \in Event : down' = ToRoom(<<Message(type, {})>>)
        BY <1>4 DEF CountdownExpires, RaceEnds, UpdateSent, GhostNoticed, OtherGoes, Event
    <2>3. CASE down' = down
        BY <2>1, <2>3 DEF SocketOK
    <2>4. ASSUME NEW type \in Event, down' = ToRoom(<<Message(type, {})>>) PROVE SocketOK'
        <3>1. <<Message(type, {})>> \in Seq(Events)
            BY <1>2
        <3> QED BY <1>1, <2>1, <2>4, <3>1 DEF SocketOK
    <2> QED BY <2>2, <2>3, <2>4
<1>5. CASE JoinAnnounces
    <2>1. joining.list \in SUBSET Member /\ joined
        BY <1>5 DEF JoinAnnounces, SocketOK, JoinHandler
    <2>2. <<Message("player_joined", joining.list)>> \in Seq(Events)
        BY <1>2, <2>1 DEF Event
    <2>3. joining' \in JoinHandler
        BY <1>5 DEF JoinAnnounces, JoinHandler
    <2> QED BY <1>1, <1>5, <2>1, <2>2, <2>3 DEF JoinAnnounces
<1>6. CASE JoinReads \/ JoinResyncs
    <2>1. joined /\ UNCHANGED <<link, up, joined>>
        BY <1>6 DEF JoinReads, JoinResyncs, SocketOK, socket
    <2>2. joining' \in JoinHandler \cup {Nothing}
        BY <1>6 DEF JoinReads, JoinResyncs, JoinHandler
    <2>3. down' = down \/ down' = ToRoom(<<Message("game_start", {})>>)
        BY <1>6 DEF JoinReads, JoinResyncs, socket
    <2>4. <<Message("game_start", {})>> \in Seq(Events)
        BY <1>2 DEF Event
    <2>5. CASE down' = down
        BY <2>1, <2>2, <2>5 DEF SocketOK
    <2> QED BY <1>1, <2>1, <2>2, <2>3, <2>4, <2>5
<1>7. CASE JoinReceived \/ ReadyReceived \/ MoveReceived
    <2>1. /\ up # <<>> /\ up' = Tail(up) /\ UNCHANGED link
          /\ JoinReceived => Head(up) = "join"
        BY <1>7 DEF JoinReceived, ReadyReceived, MoveReceived
    <2>2. up' \in Seq({"join", "ready", "move"}) /\ Len(up') = Len(up) - 1
          /\ \A i \in 1..Len(up') : up'[i] = up[i + 1]
        BY <2>1 DEF SocketOK
    <2>3. Len(up) \in Nat \ {0} /\ Head(up) = up[1]
        BY <2>1 DEF SocketOK
    <2>4. link # "up" => \A i \in 1..Len(up') : up'[i] # "join"
        BY <2>2, <2>3 DEF SocketOK
    <2>5. JoinReceived => link = "up"
        BY <2>1, <2>3 DEF SocketOK
    <2>6. CASE JoinReceived
        <3>1. joining' \in JoinHandler /\ joined' = TRUE /\ down' = down
            BY <2>6 DEF JoinReceived, JoinHandler, ServerOK
        <3> QED BY <2>1, <2>2, <2>4, <2>5, <2>6, <3>1 DEF SocketOK
    <2>7. CASE ReadyReceived
        <3>1. UNCHANGED <<joined, joining, down>>
            BY <2>7 DEF ReadyReceived, handler
        <3> QED BY <2>1, <2>2, <2>4, <3>1 DEF SocketOK
    <2>8. CASE MoveReceived
        <3>1. /\ UNCHANGED <<joined, joining>>
              /\ down' = down \/ down' = ToRoom(<<Message("rejected", {})>>)
            BY <2>8 DEF MoveReceived, handler
        <3>2. down' \in Seq(Events) /\ (down' # <<>> => joined)
            BY <1>2, <3>1, ToRoomOK DEF SocketOK, Event
        <3> QED BY <2>1, <2>2, <2>4, <3>1, <3>2 DEF SocketOK
    <2> QED BY <1>7, <2>6, <2>7, <2>8
<1>8. CASE Connect \/ ClickReady \/ ClickMove
    <2>1. CASE Connect
        BY <2>1 DEF Connect, SocketOK, handler
    <2>2. CASE ClickReady \/ ClickMove
        <3>1. PICK m \in {"ready", "move"} : up' = Append(up, m)
            BY <2>2 DEF ClickReady, ClickMove
        <3>0. UNCHANGED <<link, down, joined, joining>>
            BY <2>2 DEF ClickReady, ClickMove, handler
        <3>2. up' \in Seq({"join", "ready", "move"}) /\ Len(up') = Len(up) + 1
              /\ \A i \in 1..Len(up') : up'[i] = IF i <= Len(up) THEN up[i] ELSE m
            BY <3>1 DEF SocketOK
        <3>3. link # "up" => \A i \in 1..Len(up') : up'[i] # "join"
            BY <3>2 DEF SocketOK
        <3> QED BY <3>0, <3>2, <3>3 DEF SocketOK
    <2> QED BY <1>8, <2>1, <2>2
<1>9. CASE Drop
    <2>1. link' = "down" /\ up' = <<>> /\ down' = <<>> /\ joined' = FALSE /\ joining' = Nothing
        BY <1>9 DEF Drop, JoinGoesOn
    <2> QED BY <2>1, EmptyOK DEF SocketOK
<1>10. CASE RoomEvents
    <2>1. down # <<>> /\ down' = Tail(down) /\ link = "up" /\ UNCHANGED <<link, up, joined, joining>>
        BY <1>10 DEF RoomEvents, OnGameStart, OnStateUpdate, OnGameEnd, OnRejected, OnPlayerJoined, OnRaceCountdown,
           OnConnectionChange, Receive, handler
    <2> QED BY <2>1 DEF SocketOK
<1>11. CASE RoomFetches
    <2>1. UNCHANGED <<up, down, joined, joining>>
        BY <1>11 DEF RoomFetches, RoomRead, RoomLoaded, RoomNotLoaded, SocketToken, handler, socket
    <2>2. link' = link \/ (link # "up" /\ link' \in {"token", "down", "error"})
        BY <1>11 DEF RoomFetches, RoomRead, RoomLoaded, RoomNotLoaded, SocketToken, socket, ViewOK
    <2> QED BY <2>1, <2>2 DEF SocketOK
<1>12. CASE OtherReady \/ OtherReturns \/ CountdownOver \/ \E r \in readying : ReadyWritten(r)
    <2>1. UNCHANGED <<handler, socket>>
        BY <1>12 DEF OtherReady, OtherReturns, CountdownOver, ReadyWritten
    <2> QED BY <2>1 DEF SocketOK, handler, socket
<1> QED BY <1>3, <1>4, <1>5, <1>6, <1>7, <1>8, <1>9, <1>10, <1>11, <1>12
        DEF RoomStep, RoomServer, RoomOthers
-----------------------------------------------------------------------------
(* What messages on their way will have said: the last word of those in C, *)
(* unless one in R takes it back; that nothing in R is among them.         *)
LastSays(msgs, C, R) ==
    \E i \in 1..Len(msgs) : msgs[i] \in C /\ \A j \in (i + 1)..Len(msgs) : msgs[j] \notin R
Unsaid(msgs, R) == \A i \in 1..Len(msgs) : msgs[i] \notin R

Of(type) == [type : {type}, list : SUBSET Member]
OfTheRace == {"game_start", "game_end", "state_update"}

LEMMA NothingSaid ==
    ASSUME NEW C, NEW R
    PROVE  ~LastSays(<<>>, C, R) /\ Unsaid(<<>>, R)
BY DEF LastSays, Unsaid

LEMMA OneSays ==
    ASSUME NEW m, NEW C, NEW R
    PROVE  /\ LastSays(<<m>>, C, R) <=> m \in C
           /\ Unsaid(<<m>>, R) <=> m \notin R
<1>1. Len(<<m>>) = 1 /\ <<m>>[1] = m
    OBVIOUS
<1> QED BY <1>1 DEF LastSays, Unsaid

LEMMA MoreSays ==
    ASSUME NEW S, NEW s \in Seq(S), NEW t \in Seq(S), NEW C, NEW R
    PROVE  /\ LastSays(s \o t, C, R) <=> LastSays(t, C, R) \/ (LastSays(s, C, R) /\ Unsaid(t, R))
           /\ Unsaid(s \o t, R) <=> Unsaid(s, R) /\ Unsaid(t, R)
<1> DEFINE m == Len(s)
           n == Len(t)
           u == s \o t
<1>1. /\ m \in Nat /\ n \in Nat /\ Len(u) = m + n
      /\ \A i \in 1..m : u[i] = s[i]
      /\ \A i \in 1..n : u[m + i] = t[i]
      /\ \A i \in (m + 1)..(m + n) : u[i] = t[i - m] /\ i - m \in 1..n
    OBVIOUS
<1> HIDE DEF m, n, u
<1>2. Unsaid(u, R) <=> (\A i \in 1..m : s[i] \notin R) /\ (\A i \in 1..n : t[i] \notin R)
    <2>1. ASSUME \A i \in 1..m : s[i] \notin R, \A i \in 1..n : t[i] \notin R,
                 NEW i \in 1..(m + n)
          PROVE  u[i] \notin R
        <3>1. i \in 1..m \/ i \in (m + 1)..(m + n)
            BY <1>1
        <3> QED BY <1>1, <2>1, <3>1
    <2>2. ASSUME \A i \in 1..(m + n) : u[i] \notin R
          PROVE  (\A i \in 1..m : s[i] \notin R) /\ (\A i \in 1..n : t[i] \notin R)
        <3>1. (\A i \in 1..m : i \in 1..(m + n)) /\ (\A i \in 1..n : m + i \in 1..(m + n))
            BY <1>1
        <3> QED BY <1>1, <2>2, <3>1
    <2> QED BY <1>1, <2>1, <2>2 DEF Unsaid
<1>3. ASSUME LastSays(t, C, R) PROVE LastSays(u, C, R)
    <2>1. PICK i \in 1..n : t[i] \in C /\ \A j \in (i + 1)..n : t[j] \notin R
        BY <1>3 DEF LastSays, n
    <2>2. m + i \in 1..(m + n) /\ u[m + i] \in C
        BY <1>1, <2>1
    <2>3. ASSUME NEW j \in (m + i + 1)..(m + n) PROVE u[j] \notin R
        <3>1. j \in (m + 1)..(m + n) /\ j - m \in (i + 1)..n
            BY <1>1, <2>1
        <3> QED BY <1>1, <2>1, <3>1
    <2> QED BY <1>1, <2>2, <2>3 DEF LastSays
<1>4. ASSUME LastSays(s, C, R), Unsaid(t, R) PROVE LastSays(u, C, R)
    <2>1. PICK i \in 1..m : s[i] \in C /\ \A j \in (i + 1)..m : s[j] \notin R
        BY <1>4 DEF LastSays, m
    <2>2. i \in 1..(m + n) /\ u[i] \in C
        BY <1>1, <2>1
    <2>3. ASSUME NEW j \in (i + 1)..(m + n) PROVE u[j] \notin R
        <3>1. (j \in 1..m /\ j \in (i + 1)..m) \/ j \in (m + 1)..(m + n)
            BY <1>1, <2>1
        <3> QED BY <1>1, <1>4, <2>1, <3>1 DEF Unsaid, n
    <2> QED BY <1>1, <2>2, <2>3 DEF LastSays
<1>5. ASSUME LastSays(u, C, R)
      PROVE  LastSays(t, C, R) \/ (LastSays(s, C, R) /\ Unsaid(t, R))
    <2>1. PICK i \in 1..(m + n) : u[i] \in C /\ \A j \in (i + 1)..(m + n) : u[j] \notin R
        BY <1>1, <1>5 DEF LastSays
    <2>2. CASE i \in 1..m
        <3>1. s[i] \in C
            BY <1>1, <2>1, <2>2
        <3>2. ASSUME NEW j \in (i + 1)..m PROVE s[j] \notin R
            <4>1. j \in 1..m /\ j \in (i + 1)..(m + n)
                BY <1>1, <2>2
            <4> QED BY <1>1, <2>1, <4>1
        <3>3. ASSUME NEW j \in 1..n PROVE t[j] \notin R
            <4>1. m + j \in (i + 1)..(m + n)
                BY <1>1, <2>2
            <4> QED BY <1>1, <2>1, <4>1
        <3> QED BY <2>2, <3>1, <3>2, <3>3 DEF LastSays, Unsaid, m, n
    <2>3. CASE i \in (m + 1)..(m + n)
        <3>1. t[i - m] \in C /\ i - m \in 1..n
            BY <1>1, <2>1, <2>3
        <3>2. ASSUME NEW j \in (i - m + 1)..n PROVE t[j] \notin R
            <4>1. m + j \in (i + 1)..(m + n) /\ j \in 1..n
                BY <1>1, <2>3
            <4> QED BY <1>1, <2>1, <4>1
        <3> QED BY <3>1, <3>2 DEF LastSays, n
    <2> QED BY <1>1, <2>1, <2>2, <2>3
<1> QED BY <1>2, <1>3, <1>4, <1>5 DEF Unsaid, u, m, n

LEMMA TailSays ==
    ASSUME NEW S, NEW s \in Seq(S), s # <<>>, NEW C, NEW R
    PROVE  /\ LastSays(s, C, R) <=> LastSays(Tail(s), C, R) \/ (Head(s) \in C /\ Unsaid(Tail(s), R))
           /\ Unsaid(s, R) <=> Head(s) \notin R /\ Unsaid(Tail(s), R)
<1>1. Head(s) \in S /\ Tail(s) \in Seq(S) /\ <<Head(s)>> \in Seq(S) /\ s = <<Head(s)>> \o Tail(s)
    OBVIOUS
<1>2. /\ LastSays(<<Head(s)>> \o Tail(s), C, R)
           <=> LastSays(Tail(s), C, R) \/ (LastSays(<<Head(s)>>, C, R) /\ Unsaid(Tail(s), R))
      /\ Unsaid(<<Head(s)>> \o Tail(s), R) <=> Unsaid(<<Head(s)>>, R) /\ Unsaid(Tail(s), R)
    BY <1>1, MoreSays
<1> QED BY <1>1, <1>2, OneSays

LEMMA ToRoomSays ==
    ASSUME SocketOK, NEW msgs \in Seq(Events), NEW C, NEW R
    PROVE  /\ LastSays(ToRoom(msgs), C, R)
                <=> joined /\ (LastSays(msgs, C, R) \/ (LastSays(down, C, R) /\ Unsaid(msgs, R)))
           /\ Unsaid(ToRoom(msgs), R) <=> Unsaid(down, R) /\ (joined => Unsaid(msgs, R))
<1>1. CASE joined
    BY <1>1, MoreSays DEF ToRoom, SocketOK
<1>2. CASE ~joined
    <2>1. down = <<>> /\ ToRoom(msgs) = down
        BY <1>2 DEF ToRoom, SocketOK
    <2> QED BY <1>2, <2>1, NothingSaid
<1> QED BY <1>1, <1>2

LEMMA MessageOf ==
    ASSUME NEW t \in Event, NEW l \in SUBSET Member
    PROVE  /\ <<Message(t, l)>> \in Seq(Events)
           /\ \A u : Message(t, l) \in Of(u) <=> u = t
           /\ \A k : Message(t, l) = Message(t, k) <=> k = l
BY DEF Message, Of, Events

LEMMA NewsSays ==
    ASSUME NEW a \in Announcements, NEW starts \in BOOLEAN
    PROVE  /\ \A u \in OfTheRace : Unsaid(Said(a, starts), Of(u))
           /\ ~LastSays(Said(a, starts), Of("offline"), Of("online"))
           /\ Unsaid(Said(a, starts), Of("online")) => ~a.online
           /\ LastSays(Said(a, starts), {Message("player_joined", a.list)}, Of("player_joined"))
<1> DEFINE first == <<Message("player_joined", a.list)>>
           then == IF a.online THEN <<Message("online", {})>> ELSE <<>>
           last == IF starts THEN <<Message("race_countdown", {})>> ELSE <<>>
<1>1. first \in Seq(Events) /\ then \in Seq(Events) /\ last \in Seq(Events)
      /\ first \o then \in Seq(Events) /\ Said(a, starts) = (first \o then) \o last
    BY MessageOf DEF Announcements, Event, Said
<1>2. \A R : Unsaid(then, R) <=> (a.online => Message("online", {}) \notin R)
    BY OneSays, NothingSaid
<1>3. \A R : Unsaid(last, R) <=> (starts => Message("race_countdown", {}) \notin R)
    BY OneSays, NothingSaid
<1>4. \A C, R : /\ LastSays(then, C, R) <=> a.online /\ Message("online", {}) \in C
                /\ LastSays(last, C, R) <=> starts /\ Message("race_countdown", {}) \in C
    BY OneSays, NothingSaid
<1>5. \A C, R : /\ LastSays(first, C, R) <=> Message("player_joined", a.list) \in C
                /\ Unsaid(first, R) <=> Message("player_joined", a.list) \notin R
    BY OneSays
<1> HIDE DEF first, then, last
<1>6. \A C, R :
        /\ LastSays(Said(a, starts), C, R)
             <=> \/ LastSays(last, C, R)
                 \/ LastSays(then, C, R) /\ Unsaid(last, R)
                 \/ LastSays(first, C, R) /\ Unsaid(then, R) /\ Unsaid(last, R)
        /\ Unsaid(Said(a, starts), R) <=> Unsaid(first, R) /\ Unsaid(then, R) /\ Unsaid(last, R)
    <2> SUFFICES ASSUME NEW C, NEW R
                 PROVE  /\ LastSays(Said(a, starts), C, R)
                             <=> \/ LastSays(last, C, R)
                                 \/ LastSays(then, C, R) /\ Unsaid(last, R)
                                 \/ LastSays(first, C, R) /\ Unsaid(then, R) /\ Unsaid(last, R)
                        /\ Unsaid(Said(a, starts), R)
                             <=> Unsaid(first, R) /\ Unsaid(then, R) /\ Unsaid(last, R)
        OBVIOUS
    <2>1. /\ LastSays(first \o then, C, R)
               <=> LastSays(then, C, R) \/ (LastSays(first, C, R) /\ Unsaid(then, R))
          /\ Unsaid(first \o then, R) <=> Unsaid(first, R) /\ Unsaid(then, R)
        BY <1>1, MoreSays
    <2>2. /\ LastSays((first \o then) \o last, C, R)
               <=> LastSays(last, C, R) \/ (LastSays(first \o then, C, R) /\ Unsaid(last, R))
          /\ Unsaid((first \o then) \o last, R)
               <=> Unsaid(first \o then, R) /\ Unsaid(last, R)
        BY <1>1, MoreSays
    <2> QED BY <1>1, <2>1, <2>2
<1>7. /\ \A u : Message("player_joined", a.list) \in Of(u) <=> u = "player_joined"
      /\ \A u : Message("online", {}) \in Of(u) <=> u = "online"
      /\ \A u : Message("race_countdown", {}) \in Of(u) <=> u = "race_countdown"
    BY MessageOf DEF Announcements, Event
<1>8. /\ \A u \in OfTheRace : Unsaid(Said(a, starts), Of(u))
      /\ Unsaid(Said(a, starts), Of("online")) => ~a.online
    BY <1>2, <1>3, <1>5, <1>6, <1>7 DEF OfTheRace
<1>9. ~LastSays(Said(a, starts), Of("offline"), Of("online"))
    BY <1>4, <1>5, <1>6, <1>7
<1>10. LastSays(Said(a, starts), {Message("player_joined", a.list)}, Of("player_joined"))
    BY <1>2, <1>3, <1>5, <1>6, <1>7
<1> QED BY <1>8, <1>9, <1>10
-----------------------------------------------------------------------------
(* The panel: the race and its end are told in order on a connection, and  *)
(* a page that comes to a race that is on has its state sent to it.        *)
BeforeTheRace ==
    game = "none" =>
        /\ status = "WAITING" /\ ~race /\ ~results /\ ~pre
        /\ fetched # Nothing /\ fetched.at = "read" => fetched.status = "WAITING"
        /\ \A u \in OfTheRace : Unsaid(down, Of(u))
        /\ joining # Nothing => joining.at # "send"

RaceIsTold ==
    game = "on" /\ joined /\ joining = Nothing =>
        \/ LastSays(down, Of("game_start"), Of("game_end"))
        \/ race /\ ~results /\ Unsaid(down, Of("game_end"))

PanelInv == BeforeTheRace /\ RaceIsTold

(* The roster: the room's list is shown, or said, or about to be said.     *)
RosterInv ==
    joined /\ ~(joining # Nothing /\ joining.at = "list") /\ ~outdated =>
        \/ \E a \in announcing : a.list = ready
        \/ LastSays(down, {Message("player_joined", ready)}, Of("player_joined"))
        \/ roster = ready /\ Unsaid(down, Of("player_joined"))

(* Who is shown as gone, now or by what is on its way, is gone, or is just *)
(* about to be announced.                                                  *)
ShownAsGone ==
    \/ LastSays(down, Of("offline"), Of("online"))
    \/ offline /\ Unsaid(down, Of("online"))

OfflineInv ==
    /\ drops \in Nat /\ other \in {"on", "off"}
    /\ drops = 0 /\ ~joined => ~offline
    /\ drops = 0 /\ ~haunted /\ ShownAsGone => other = "off" \/ \E a \in announcing : a.online

LEMMA HeadOf ==
    ASSUME SocketOK, down # <<>>
    PROVE  /\ Head(down) \in Events
           /\ \A u \in Event : Head(down) \in Of(u) <=> Head(down).type = u
<1>1. Head(down) \in Events
    BY DEF SocketOK
<1> QED BY <1>1 DEF Events, Of

LEMMA SilentOnRace ==
    ASSUME NEW type \in Event \ OfTheRace, NEW l \in SUBSET Member
    PROVE  /\ <<Message(type, l)>> \in Seq(Events)
           /\ \A u \in OfTheRace : Unsaid(<<Message(type, l)>>, Of(u))
<1>1. /\ <<Message(type, l)>> \in Seq(Events)
      /\ \A u \in OfTheRace : Message(type, l) \notin Of(u)
    BY MessageOf
<1> QED BY <1>1, OneSays

(* The steps of the room that say nothing of the race. *)
LEMMA PanelKept ==
    ASSUME RoomOK, PanelInv, UNCHANGED <<game, status, race, results, pre, joined>>,
           fetched' = fetched,
           joining' = joining \/ (joining # Nothing /\ joining' # Nothing /\ joining'.at # "send"),
           \/ down' = down
           \/ \E msgs \in Seq(Events) :
                 down' = ToRoom(msgs) /\ \A u \in OfTheRace : Unsaid(msgs, Of(u))
    PROVE  PanelInv'
<1>1. \A u \in OfTheRace : Unsaid(down', Of(u)) <=> Unsaid(down, Of(u))
    BY ToRoomSays DEF RoomOK
<1>2. joined => (LastSays(down, Of("game_start"), Of("game_end"))
                   => LastSays(down', Of("game_start"), Of("game_end")))
    BY ToRoomSays DEF RoomOK, OfTheRace
<1>3. BeforeTheRace'
    BY <1>1 DEF PanelInv, BeforeTheRace
<1>4. RaceIsTold'
    BY <1>1, <1>2 DEF PanelInv, RaceIsTold, OfTheRace
<1> QED BY <1>3, <1>4 DEF PanelInv

(* A race that starts, or is sent to who comes to it, is the last word.    *)
LEMMA StartIsTold ==
    ASSUME RoomOK, down' = ToRoom(<<Message("game_start", {})>>), joined
    PROVE  LastSays(down', Of("game_start"), Of("game_end"))
<1> DEFINE msg == <<Message("game_start", {})>>
<1>1. msg \in Seq(Events) /\ LastSays(msg, Of("game_start"), Of("game_end"))
    BY MessageOf, OneSays DEF Event
<1> HIDE DEF msg
<1>2. down' = ToRoom(msg)
    BY DEF msg
<1> QED BY <1>1, <1>2, ToRoomSays DEF RoomOK

LEMMA PanelServerStep ==
    ASSUME RoomOK, PanelInv, RoomServer \/ RoomOthers
    PROVE  PanelInv'
<1>1. ASSUME NEW a \in announcing, Announce(a) PROVE PanelInv'
    <2> DEFINE starts == a.start /\ ~timer
    <2>1. starts \in BOOLEAN /\ a \in Announcements
        BY DEF RoomOK, ServerOK
    <2>2. /\ down' = ToRoom(Said(a, starts))
          /\ UNCHANGED <<game, status, race, results, pre, joined, joining>> /\ fetched' = fetched
        BY <1>1 DEF Announce, Said, handler, roomView, raceView
    <2> HIDE DEF starts
    <2>3. Said(a, starts) \in Seq(Events) /\ \A u \in OfTheRace : Unsaid(Said(a, starts), Of(u))
        BY <2>1, NewsOK, NewsSays
    <2> QED BY <2>2, <2>3, PanelKept
<1>2. CASE CountdownExpires
    <2>1. /\ UNCHANGED <<status, race, results, pre, joined, joining>> /\ fetched' = fetched
          /\ \/ UNCHANGED <<game, down>>
             \/ game' = "on" /\ down' = ToRoom(<<Message("game_start", {})>>)
        BY <1>2 DEF CountdownExpires, handler, roomView, raceView
    <2>2. CASE UNCHANGED <<game, down>>
        BY <2>1, <2>2, PanelKept
    <2>3. CASE game' = "on" /\ down' = ToRoom(<<Message("game_start", {})>>)
        BY <2>1, <2>3, StartIsTold DEF PanelInv, BeforeTheRace, RaceIsTold
    <2> QED BY <2>1, <2>2, <2>3
<1>3. CASE RaceEnds
    BY <1>3 DEF RaceEnds, PanelInv, BeforeTheRace, RaceIsTold
<1>4. CASE UpdateSent
    <2> DEFINE msg == <<Message("state_update", {})>>
    <2>0. msg \in Seq(Events) /\ Message("state_update", {}) \notin Of("game_end")
        BY MessageOf DEF Event
    <2>1. msg \in Seq(Events) /\ Unsaid(msg, Of("game_end"))
        BY <2>0, OneSays
    <2>2. /\ game # "none" /\ down' = ToRoom(msg)
          /\ UNCHANGED <<game, race, results, joined, joining>>
        BY <1>4 DEF UpdateSent, server, room, handler, roomView, raceView
    <2> HIDE DEF msg
    <2> QED BY <2>1, <2>2, ToRoomSays DEF PanelInv, BeforeTheRace, RaceIsTold, RoomOK
<1>5. CASE GhostNoticed \/ MoveReceived \/ \E noticed \in BOOLEAN : OtherGoes(noticed)
    <2>1. /\ \/ down' = down
             \/ \E type \in {"offline", "rejected"} : down' = ToRoom(<<Message(type, {})>>)
          /\ UNCHANGED <<game, status, race, results, pre, joined, joining, fetched>>
        BY <1>5 DEF GhostNoticed, MoveReceived, OtherGoes, server, room, handler, roomView, raceView
    <2>2. \A type \in {"offline", "rejected"} :
             /\ <<Message(type, {})>> \in Seq(Events)
             /\ \A u \in OfTheRace : Unsaid(<<Message(type, {})>>, Of(u))
        BY SilentOnRace DEF Event, OfTheRace
    <2> QED BY <2>1, <2>2, PanelKept
<1>6. CASE OtherReady \/ OtherReturns \/ ReadyReceived \/ \E r \in readying : ReadyWritten(r)
    <2>1. UNCHANGED <<game, status, race, results, pre, joined, joining, fetched, down>>
        BY <1>6 DEF OtherReady, OtherReturns, ReadyReceived, ReadyWritten, room, handler, roomView,
           raceView, socket
    <2> QED BY <2>1, PanelKept
<1>7. CASE JoinReceived
    <2>1. /\ joining' = [at |-> "list", list |-> ready]
          /\ UNCHANGED <<down, game, status, race, results, pre, fetched>>
        BY <1>7 DEF JoinReceived, server, room, roomView, raceView
    <2>2. joining' \in JoinHandler /\ joining'.at = "list"
        BY <2>1 DEF JoinHandler, RoomOK, ServerOK
    <2> QED BY <2>1, <2>2, NothingAssumption DEF PanelInv, BeforeTheRace, RaceIsTold
<1>8. CASE JoinAnnounces
    <2> DEFINE msg == <<Message("player_joined", joining.list)>>
    <2>1. joining.list \in SUBSET Member
        BY <1>8 DEF JoinAnnounces, RoomOK, SocketOK, JoinHandler
    <2>2. msg \in Seq(Events) /\ \A u \in OfTheRace : Unsaid(msg, Of(u))
        BY <2>1, SilentOnRace DEF Event, OfTheRace
    <2>3. /\ joining # Nothing /\ joining' = [at |-> "resync"] /\ down' = ToRoom(msg)
          /\ UNCHANGED <<joined, game, status, race, results, pre>> /\ fetched' = fetched
        BY <1>8 DEF JoinAnnounces, server, room, roomView, raceView
    <2>4. joining' \in JoinHandler /\ joining'.at = "resync"
        BY <2>3 DEF JoinHandler
    <2> HIDE DEF msg
    <2> QED BY <2>2, <2>3, <2>4, NothingAssumption, PanelKept
<1>9. CASE JoinReads
    <2>1. /\ IF game = "on" THEN joining' = [at |-> "send"] ELSE joining' = Nothing
          /\ UNCHANGED <<joined, down, game, status, race, results, pre, fetched>>
        BY <1>9 DEF JoinReads, server, room, roomView, raceView, socket
    <2>2. game = "on" => joining' \in JoinHandler
        BY <2>1 DEF JoinHandler
    <2> QED BY <2>1, <2>2, NothingAssumption DEF PanelInv, BeforeTheRace, RaceIsTold
<1>10. CASE JoinResyncs
    <2>1. /\ joining # Nothing /\ joining.at = "send" /\ joining' = Nothing
          /\ down' = ToRoom(<<Message("game_start", {})>>) /\ UNCHANGED <<joined, game>>
        BY <1>10 DEF JoinResyncs, server, room
    <2> QED BY <2>1, StartIsTold DEF PanelInv, BeforeTheRace, RaceIsTold
<1> QED BY <1>1, <1>2, <1>3, <1>4, <1>5, <1>6, <1>7, <1>8, <1>9, <1>10 DEF RoomServer, RoomOthers

LEMMA PanelEventStep ==
    ASSUME RoomOK, PanelInv, RoomEvents
    PROVE  PanelInv'
<1>1. /\ down # <<>> /\ down' = Tail(down) /\ joined
      /\ UNCHANGED <<game, status, joined, joining, fetched>>
    BY DEF RoomEvents, OnGameStart, OnStateUpdate, OnGameEnd, OnRejected, OnPlayerJoined,
       OnRaceCountdown, OnConnectionChange, Receive, server, room, handler, RoomOK, SocketOK
<1>2. \A u \in OfTheRace :
         Unsaid(down, Of(u)) <=> Head(down).type # u /\ Unsaid(down', Of(u))
    BY <1>1, TailSays, HeadOf DEF RoomOK, SocketOK, Event, OfTheRace
<1>3. LastSays(down, Of("game_start"), Of("game_end"))
         <=> \/ LastSays(down', Of("game_start"), Of("game_end"))
             \/ Head(down).type = "game_start" /\ Unsaid(down', Of("game_end"))
    BY <1>1, TailSays, HeadOf DEF RoomOK, SocketOK, Event
<1>4. BeforeTheRace'
    <2> SUFFICES ASSUME game = "none" PROVE ~race' /\ ~results' /\ ~pre'
        BY <1>1, <1>2 DEF PanelInv, BeforeTheRace
    <2>1. Head(down).type \notin OfTheRace /\ ~race /\ ~results /\ ~pre
        BY <1>2 DEF PanelInv, BeforeTheRace
    <2>2. ~OnGameStart /\ ~OnStateUpdate /\ ~OnGameEnd
        BY <2>1 DEF OnGameStart, OnStateUpdate, OnGameEnd, Receive, OfTheRace
    <2>3. CASE OnRejected
        <3>1. results' = results /\ pre' = FALSE
            BY <2>3 DEF OnRejected
        <3>2. race' = (race \/ pre)
            BY <2>3, Zenon DEF OnRejected
        <3>3. ~race'
            BY <2>1, <3>2, Zenon
        <3> QED BY <2>1, <3>1, <3>3
    <2>4. OnPlayerJoined \/ OnRaceCountdown \/ (\E online \in BOOLEAN : OnConnectionChange(online))
            => ~race' /\ ~results' /\ ~pre'
        BY <2>1 DEF OnPlayerJoined, OnRaceCountdown, OnConnectionChange, raceView
    <2> QED BY <2>2, <2>3, <2>4 DEF RoomEvents
<1>5. RaceIsTold'
    <2> SUFFICES ASSUME game = "on", joining = Nothing,
                        ~LastSays(down', Of("game_start"), Of("game_end"))
                 PROVE  race' /\ ~results' /\ Unsaid(down', Of("game_end"))
        BY <1>1 DEF RaceIsTold
    <2>1. \/ Head(down).type = "game_start" /\ Unsaid(down', Of("game_end"))
          \/ /\ race /\ ~results /\ Unsaid(down', Of("game_end"))
             /\ Head(down).type # "game_end"
        BY <1>1, <1>2, <1>3 DEF PanelInv, RaceIsTold, OfTheRace
    <2>2. Head(down).type = "game_start" => race' /\ ~results'
        BY DEF RoomEvents, OnGameStart, OnStateUpdate, OnGameEnd, OnRejected, OnPlayerJoined,
           OnRaceCountdown, OnConnectionChange, Receive
    <2>3. Head(down).type # "game_end" /\ race /\ ~results => race' /\ ~results'
        BY DEF RoomEvents, OnGameStart, OnStateUpdate, OnGameEnd, OnRejected, OnPlayerJoined,
           OnRaceCountdown, OnConnectionChange, Receive, raceView
    <2> QED BY <2>1, <2>2, <2>3
<1> QED BY <1>4, <1>5 DEF PanelInv

LEMMA PanelPageStep ==
    ASSUME RoomOK, PanelInv,
           RoomFetches \/ Connect \/ Drop \/ CountdownOver \/ ClickReady \/ ClickMove
    PROVE  PanelInv'
<1> USE DEF PanelInv, BeforeTheRace, RaceIsTold
<1>1. CASE RoomRead
    <2>1. /\ fetched' = [at |-> "read", sent |-> fetched.sent, status |-> Status, list |-> ready]
          /\ UNCHANGED <<game, status, race, results, pre, joined, joining, down>>
        BY <1>1 DEF RoomRead, server, room, handler, raceView, socket
    <2>2. fetched'.status = Status
        BY <2>1
    <2>3. game = "none" => Status = "WAITING"
        BY DEF Status, RoomOK, ServerOK
    <2> QED BY <2>1, <2>2, <2>3
<1>2. CASE RoomLoaded
    <2>1. /\ fetched # Nothing /\ fetched.at = "read" /\ fetched' = Nothing /\ status' = fetched.status
          /\ UNCHANGED <<game, race, results, pre, joined, joining, down>>
        BY <1>2 DEF RoomLoaded, server, room, handler, raceView
    <2> QED BY <2>1
<1>3. ASSUME NEW o, RoomNotLoaded(o) PROVE PanelInv'
    <2>1. fetched' = Nothing /\ UNCHANGED <<game, status, race, results, pre, joined, joining, down>>
        BY <1>3 DEF RoomNotLoaded, server, room, handler, raceView, socket
    <2> QED BY <2>1
<1>4. CASE Drop
    <2>1. /\ down' = <<>> /\ joined' = FALSE /\ joining' = Nothing
          /\ UNCHANGED <<game, status, race, results, pre, fetched>>
        BY <1>4 DEF Drop, JoinGoesOn, room, roomView, raceView
    <2> QED BY <2>1, NothingSaid
<1>5. CASE ClickMove
    <2>1. race /\ UNCHANGED <<game, status, race, results, joined, joining, fetched, down>>
        BY <1>5 DEF ClickMove, ShowRace, server, room, handler, roomView
    <2> QED BY <2>1
<1>6. ASSUME NEW o, SocketToken(o) \/ Connect \/ CountdownOver \/ ClickReady
      PROVE  PanelInv'
    <2>1. UNCHANGED <<game, status, race, results, pre, joined, joining, fetched, down>>
        BY <1>6 DEF SocketToken, Connect, CountdownOver, ClickReady, server, room, handler,
           roomView, raceView, socket
    <2> QED BY <2>1, PanelKept
<1> QED BY <1>1, <1>2, <1>3, <1>4, <1>5, <1>6 DEF RoomFetches
-----------------------------------------------------------------------------
(* The list that is announced last is the last word, and the room's or not. *)
LEMMA ListIsSaid ==
    ASSUME RoomOK, NEW msgs \in Seq(Events), down' = ToRoom(msgs), NEW l, joined, ready' = ready,
           outdated' = (l # ready),
           LastSays(msgs, {Message("player_joined", l)}, Of("player_joined"))
    PROVE  RosterInv'
<1>1. LastSays(down', {Message("player_joined", l)}, Of("player_joined"))
    BY ToRoomSays DEF RoomOK
<1>2. ~outdated' => l = ready'
    OBVIOUS
<1> QED BY <1>1, <1>2 DEF RosterInv

LEMMA RosterStep ==
    ASSUME RoomOK, RosterInv, RoomStep
    PROVE  RosterInv'
<1> USE DEF RoomOK
<1>1. ASSUME NEW a \in announcing, Announce(a) PROVE RosterInv'
    <2> DEFINE starts == a.start /\ ~timer
    <2>1. starts \in BOOLEAN /\ a \in Announcements
        BY DEF ServerOK
    <2>2. /\ down' = ToRoom(Said(a, starts)) /\ outdated' = (a.list # ready)
          /\ UNCHANGED <<ready, joined>>
        BY <1>1 DEF Announce, Said, handler
    <2> HIDE DEF starts
    <2>3. /\ Said(a, starts) \in Seq(Events)
          /\ LastSays(Said(a, starts), {Message("player_joined", a.list)}, Of("player_joined"))
        BY <2>1, NewsOK, NewsSays
    <2> QED BY <2>2, <2>3, ListIsSaid DEF RosterInv
<1>2. CASE JoinAnnounces
    <2> DEFINE msg == <<Message("player_joined", joining.list)>>
    <2>1. joining.list \in SUBSET Member /\ joined
        BY <1>2 DEF JoinAnnounces, SocketOK, JoinHandler
    <2>2. /\ msg \in Seq(Events)
          /\ LastSays(msg, {Message("player_joined", joining.list)}, Of("player_joined"))
        BY <2>1, MessageOf, OneSays DEF Event
    <2>3. down' = ToRoom(msg) /\ outdated' = (joining.list # ready) /\ ready' = ready
        BY <1>2 DEF JoinAnnounces, server, room
    <2> HIDE DEF msg
    <2> QED BY <2>1, <2>2, <2>3, ListIsSaid
<1>3. ASSUME UNCHANGED <<joined, roster, ready, outdated>>, announcing \subseteq announcing',
             joining' = joining \/ (joining # Nothing /\ joining.at # "list"),
             NEW msgs \in Seq(Events), Unsaid(msgs, Of("player_joined")),
             down' = ToRoom(msgs) \/ down' = down
      PROVE  RosterInv'
    <2>1. \A C : LastSays(down, C, Of("player_joined"))
                    => LastSays(down', C, Of("player_joined")) \/ ~joined
        BY <1>3, ToRoomSays
    <2>2. Unsaid(down, Of("player_joined")) => Unsaid(down', Of("player_joined"))
        BY <1>3, ToRoomSays
    <2> QED BY <1>3, <2>1, <2>2 DEF RosterInv
<1>4. ASSUME NEW type \in Event \ {"player_joined"}
      PROVE  /\ <<Message(type, {})>> \in Seq(Events)
             /\ Unsaid(<<Message(type, {})>>, Of("player_joined"))
    <2>1. <<Message(type, {})>> \in Seq(Events) /\ Message(type, {}) \notin Of("player_joined")
        BY MessageOf
    <2> QED BY <2>1, OneSays
<1>5. CASE \/ CountdownExpires \/ RaceEnds \/ UpdateSent \/ MoveReceived \/ GhostNoticed
           \/ JoinReads \/ JoinResyncs \/ \E noticed \in BOOLEAN : OtherGoes(noticed)
    <2>1. UNCHANGED <<joined, roster, ready, outdated, announcing>>
        BY <1>5 DEF CountdownExpires, RaceEnds, UpdateSent, MoveReceived, GhostNoticed, OtherGoes,
           JoinReads, JoinResyncs, server, room, calls, handler, roomView, history
    <2>2. joining' = joining \/ (joining # Nothing /\ joining.at # "list")
        BY <1>5 DEF CountdownExpires, RaceEnds, UpdateSent, MoveReceived, GhostNoticed, OtherGoes,
           JoinReads, JoinResyncs, handler
    <2>3. \/ down' = down
          \/ \E type \in Event \ {"player_joined"} : down' = ToRoom(<<Message(type, {})>>)
        BY <1>5 DEF CountdownExpires, RaceEnds, UpdateSent, MoveReceived, GhostNoticed, OtherGoes,
           JoinReads, JoinResyncs, socket, Event
    <2>4. PICK type \in Event \ {"player_joined"} :
             down' = ToRoom(<<Message(type, {})>>) \/ down' = down
        BY <2>3 DEF Event
    <2> QED BY <1>3, <1>4, <2>1, <2>2, <2>4
<1>6. CASE JoinReceived
    <2>1. joining' \in JoinHandler /\ joining'.at = "list"
        BY <1>6 DEF JoinReceived, JoinHandler, ServerOK
    <2> QED BY <2>1, NothingAssumption DEF RosterInv
<1>7. ASSUME NEW r \in readying, ReadyWritten(r) PROVE RosterInv'
    <2> DEFINE new == News(ready', ready' = Member, FALSE)
    <2>1. new.list = ready' /\ new \in announcing'
        BY <1>7 DEF ReadyWritten, News
    <2> HIDE DEF new
    <2> QED BY <2>1 DEF RosterInv
<1>8. CASE RoomEvents
    <2>1. /\ down # <<>> /\ down' = Tail(down)
          /\ UNCHANGED <<joined, joining, ready, announcing, outdated>>
        BY <1>8 DEF RoomEvents, OnGameStart, OnStateUpdate, OnGameEnd, OnRejected, OnPlayerJoined,
           OnRaceCountdown, OnConnectionChange, Receive, server, room, calls, handler, history
    <2>2. /\ Unsaid(down, Of("player_joined"))
               <=> Head(down).type # "player_joined" /\ Unsaid(down', Of("player_joined"))
          /\ \A C : LastSays(down, C, Of("player_joined"))
                      <=> \/ LastSays(down', C, Of("player_joined"))
                          \/ Head(down) \in C /\ Unsaid(down', Of("player_joined"))
        BY <2>1, TailSays, HeadOf DEF SocketOK, Event
    <2>3. Head(down) = Message("player_joined", ready)
             => Head(down).type = "player_joined" /\ Head(down).list = ready
        BY DEF Message
    <2>4. \/ Head(down).type = "player_joined" /\ roster' = Head(down).list
          \/ Head(down).type # "player_joined" /\ roster' = roster
        BY <1>8 DEF RoomEvents, OnGameStart, OnStateUpdate, OnGameEnd, OnRejected, OnPlayerJoined,
           OnRaceCountdown, OnConnectionChange, Receive
    <2> QED BY <2>1, <2>2, <2>3, <2>4 DEF RosterInv
<1>9. CASE Drop \/ RoomLoaded
    <2>1. ~joined'
        BY <1>9 DEF Drop, JoinGoesOn, RoomLoaded, SocketOK, ViewOK, handler
    <2> QED BY <2>1 DEF RosterInv
<1>10. CASE \/ OtherReady \/ OtherReturns \/ ReadyReceived \/ RoomRead \/ Connect \/ CountdownOver
            \/ ClickReady \/ ClickMove \/ (\E o : RoomNotLoaded(o) \/ SocketToken(o))
    <2>1. UNCHANGED <<joined, joining, roster, down, ready, outdated>>
        BY <1>10 DEF OtherReady, OtherReturns, ReadyReceived, RoomRead, Connect, CountdownOver,
           ClickReady, ClickMove, RoomNotLoaded, SocketToken, server, room, handler, roomView,
           socket, history
    <2>2. announcing \subseteq announcing'
        BY <1>10 DEF OtherReady, OtherReturns, ReadyReceived, RoomRead, Connect, CountdownOver,
           ClickReady, ClickMove, RoomNotLoaded, SocketToken, server, calls
    <2> QED BY <2>1, <2>2 DEF RosterInv
<1> QED BY <1>1, <1>2, <1>5, <1>6, <1>7, <1>8, <1>9, <1>10
        DEF RoomStep, RoomServer, RoomOthers, RoomFetches
-----------------------------------------------------------------------------
(* What is told to the room of other things changes nobody's presence. *)
LEMMA ShownKept ==
    ASSUME RoomOK, OfflineInv, NEW msgs \in Seq(Events), down' = ToRoom(msgs),
           ~LastSays(msgs, Of("offline"), Of("online")), offline' = offline, drops = 0
    PROVE  ShownAsGone' => /\ ShownAsGone
                           /\ Unsaid(msgs, Of("online"))
<1>1. joined \/ ~offline
    BY DEF OfflineInv
<1> QED BY <1>1, ToRoomSays DEF RoomOK, ShownAsGone

LEMMA OfflineStep ==
    ASSUME RoomOK, OfflineInv, RoomStep
    PROVE  OfflineInv'
<1> USE DEF RoomOK
<1>1. ASSUME NEW a \in announcing, Announce(a) PROVE OfflineInv'
    <2> DEFINE starts == a.start /\ ~timer
    <2>1. starts \in BOOLEAN /\ a \in Announcements
        BY DEF ServerOK
    <2>2. /\ down' = ToRoom(Said(a, starts)) /\ announcing' = announcing \ {a}
          /\ UNCHANGED <<drops, other, joined, offline, haunted>>
        BY <1>1 DEF Announce, Said, people, handler, raceView, counts
    <2> HIDE DEF starts
    <2>3. drops = 0 => (ShownAsGone' => ShownAsGone /\ ~a.online)
        BY <2>1, <2>2, NewsOK, NewsSays, ShownKept
    <2> QED BY <2>2, <2>3 DEF OfflineInv
<1>2. CASE GhostNoticed \/ \E noticed \in BOOLEAN : OtherGoes(noticed)
    <2>1. /\ UNCHANGED <<drops, joined, offline>> /\ other' \in {"on", "off"}
          /\ haunted' \/ other' = "off"
        BY <1>2 DEF GhostNoticed, OtherGoes, handler, raceView, counts, history, OfflineInv
    <2> QED BY <2>1 DEF OfflineInv
<1>3. CASE OtherReturns
    <2> DEFINE new == News(ready, FALSE, TRUE)
    <2>1. /\ new.online /\ announcing' = announcing \cup {new} /\ other' = "on"
          /\ UNCHANGED <<drops, joined, offline>>
        BY <1>3 DEF OtherReturns, News, handler, raceView, counts
    <2> HIDE DEF new
    <2> QED BY <2>1 DEF OfflineInv
<1>4. ASSUME UNCHANGED <<drops, other, joined, offline, haunted, announcing>>,
             NEW msgs \in Seq(Events), ~LastSays(msgs, Of("offline"), Of("online")),
             down' = ToRoom(msgs)
      PROVE  OfflineInv'
    <2>1. drops = 0 => (ShownAsGone' => ShownAsGone)
        BY <1>4, ShownKept
    <2> QED BY <1>4, <2>1 DEF OfflineInv
<1>5. ASSUME NEW type \in Event \ {"offline"}, NEW l \in SUBSET Member
      PROVE  /\ <<Message(type, l)>> \in Seq(Events)
             /\ ~LastSays(<<Message(type, l)>>, Of("offline"), Of("online"))
    <2>1. <<Message(type, l)>> \in Seq(Events) /\ Message(type, l) \notin Of("offline")
        BY MessageOf
    <2> QED BY <2>1, OneSays
<1>6. CASE UpdateSent \/ RaceEnds \/ JoinAnnounces \/ JoinResyncs
    <2>1. UNCHANGED <<drops, other, joined, offline, haunted, announcing>>
        BY <1>6 DEF UpdateSent, RaceEnds, JoinAnnounces, JoinResyncs, server, calls, people, handler,
           raceView, counts, history
    <2>2. JoinAnnounces => joining.list \in SUBSET Member
        BY DEF JoinAnnounces, SocketOK, JoinHandler
    <2>3. \E type \in Event \ {"offline"}, l \in SUBSET Member : down' = ToRoom(<<Message(type, l)>>)
        BY <1>6, <2>2 DEF UpdateSent, RaceEnds, JoinAnnounces, JoinResyncs, Event
    <2>4. PICK type \in Event \ {"offline"}, l \in SUBSET Member :
             down' = ToRoom(<<Message(type, l)>>)
        BY <2>3
    <2> QED BY <1>4, <1>5, <2>1, <2>4
<1>11. CASE CountdownExpires \/ MoveReceived
    <2>1. UNCHANGED <<drops, other, joined, offline, haunted, announcing>>
        BY <1>11 DEF CountdownExpires, MoveReceived, server, calls, people, handler, raceView,
           counts, history
    <2>2. \/ down' = down
          \/ \E type \in Event \ {"offline"} : down' = ToRoom(<<Message(type, {})>>)
        BY <1>11 DEF CountdownExpires, MoveReceived, Event
    <2>3. CASE down' = down
        BY <2>1, <2>3 DEF OfflineInv, ShownAsGone
    <2>4. ASSUME NEW type \in Event \ {"offline"}, down' = ToRoom(<<Message(type, {})>>)
          PROVE  OfflineInv'
        BY <1>4, <1>5, <2>1, <2>4
    <2> QED BY <2>2, <2>3, <2>4
<1>7. CASE RoomEvents
    <2>1. /\ down # <<>> /\ down' = Tail(down)
          /\ UNCHANGED <<drops, other, joined, haunted, announcing>>
        BY <1>7 DEF RoomEvents, OnGameStart, OnStateUpdate, OnGameEnd, OnRejected, OnPlayerJoined, OnRaceCountdown,
           OnConnectionChange, Receive, server, calls, people, handler, history, counts
    <2>2. /\ LastSays(down, Of("offline"), Of("online"))
               <=> \/ LastSays(down', Of("offline"), Of("online"))
                   \/ Head(down).type = "offline" /\ Unsaid(down', Of("online"))
          /\ Unsaid(down, Of("online"))
               <=> Head(down).type # "online" /\ Unsaid(down', Of("online"))
        BY <2>1, TailSays, HeadOf DEF SocketOK, Event
    <2>3. \/ Head(down).type = "online" /\ ~offline'
          \/ Head(down).type = "offline"
          \/ Head(down).type \notin {"online", "offline"} /\ offline' = offline
        BY <1>7 DEF RoomEvents, OnGameStart, OnStateUpdate, OnGameEnd, OnRejected, OnPlayerJoined, OnRaceCountdown,
           OnConnectionChange, Receive, raceView
    <2>4. ShownAsGone' => ShownAsGone
        BY <2>2, <2>3 DEF ShownAsGone
    <2>5. joined
        BY <2>1 DEF SocketOK
    <2> QED BY <2>1, <2>4, <2>5 DEF OfflineInv
<1>8. CASE Drop
    <2>1. drops' = drops + 1 /\ other' = other
        BY <1>8 DEF Drop, people
    <2> QED BY <2>1 DEF OfflineInv
<1>9. ASSUME UNCHANGED <<drops, other, offline, haunted, down>>, announcing \subseteq announcing',
             joined => joined'
      PROVE  OfflineInv'
    BY <1>9 DEF OfflineInv, ShownAsGone
<1>10. CASE \/ OtherReady \/ ReadyReceived \/ JoinReceived \/ JoinReads \/ RoomFetches \/ Connect
            \/ CountdownOver \/ ClickReady \/ ClickMove \/ \E r \in readying : ReadyWritten(r)
    <2>1. UNCHANGED <<drops, other, offline, haunted, down>> /\ (joined => joined')
        <3>1. CASE RoomFetches
            BY <3>1 DEF RoomFetches, RoomRead, RoomLoaded, RoomNotLoaded, SocketToken, server, people,
               handler, raceView, socket, history, counts
        <3>2. CASE Connect \/ CountdownOver \/ ClickReady \/ ClickMove
            BY <3>2 DEF Connect, CountdownOver, ClickReady, ClickMove, server, people, handler,
               raceView, socket, history, counts
        <3>3. CASE OtherReady \/ ReadyReceived \/ JoinReceived \/ JoinReads
            BY <3>3 DEF OtherReady, ReadyReceived, JoinReceived, JoinReads, server, people, handler,
               raceView, socket, history, counts
        <3>4. CASE \E r \in readying : ReadyWritten(r)
            BY <3>4 DEF ReadyWritten, people, handler, raceView, socket, history, counts
        <3> QED BY <1>10, <3>1, <3>2, <3>3, <3>4
    <2>2. announcing \subseteq announcing'
        BY <1>10 DEF OtherReady, ReadyReceived, ReadyWritten, JoinReceived, JoinReads, RoomFetches,
           RoomRead, RoomLoaded, RoomNotLoaded, SocketToken, Connect, CountdownOver, ClickReady,
           ClickMove, server, calls
    <2> QED BY <1>9, <2>1, <2>2
<1> QED BY <1>1, <1>2, <1>3, <1>6, <1>7, <1>8, <1>10, <1>11 DEF RoomStep, RoomServer, RoomOthers
-----------------------------------------------------------------------------
(* The tab. *)
RoomInv == RoomOK /\ PanelInv /\ RosterInv /\ OfflineInv
LobbyInv == SelectedIsUnlocked /\ BusyEnds /\ LoadingEnds

LEMMA RoomMountStep ==
    ASSUME NEW p \in Page, Mounts(p), cookie' = cookie, cookie \in Cookie
    PROVE  RoomInv'
<1>1. RoomOK'
    BY RoomMountTypes
<1>2. /\ status' = "WAITING" /\ roster' = {} /\ race' = FALSE /\ results' = FALSE /\ pre' = FALSE
      /\ offline' = FALSE /\ down' = <<>> /\ joined' = FALSE /\ joining' = Nothing
      /\ other' = "on" /\ drops' = 0
      /\ fetched' = IF p = "room" THEN [at |-> "sent", sent |-> cookie] ELSE Nothing
    BY DEF Mounts, RoomMounts
<1>3. fetched' = Nothing \/ fetched'.at = "sent"
    BY <1>2
<1>4. PanelInv'
    BY <1>2, <1>3, NothingSaid DEF PanelInv, BeforeTheRace, RaceIsTold
<1>5. RosterInv'
    BY <1>2 DEF RosterInv
<1>6. OfflineInv'
    BY <1>2, NothingSaid DEF OfflineInv, ShownAsGone
<1> QED BY <1>1, <1>4, <1>5, <1>6 DEF RoomInv

LEMMA RoomInvStep ==
    ASSUME TabOK, RoomInv, [Next]_vars
    PROVE  RoomInv'
<1>1. CASE Arrive \/ FollowLink
    <2>1. /\ cookie' = cookie
          /\ (\E p \in Page : Mounts(p)) \/ UNCHANGED <<page, roomVars>>
        BY <1>1, Navigates DEF TabOK
    <2>2. CASE \E p \in Page : Mounts(p)
        BY <2>1, <2>2, RoomMountStep DEF TabOK, SessionOK
    <2>3. CASE UNCHANGED <<page, roomVars>>
        BY <2>3 DEF RoomInv, RoomOK, ViewOK, ServerOK, SocketOK, PanelInv, BeforeTheRace,
           RaceIsTold, RosterInv, OfflineInv, ShownAsGone, roomVars, server, room, calls, people,
           handler, roomView, raceView, socket, history, counts
    <2> QED BY <2>1, <2>2, <2>3
<1>2. CASE UNCHANGED <<page, roomVars>>
    BY <1>2 DEF RoomInv, RoomOK, ViewOK, ServerOK, SocketOK, PanelInv, BeforeTheRace,
       RaceIsTold, RosterInv, OfflineInv, ShownAsGone, roomVars, server, room, calls, people,
       handler, roomView, raceView, socket, history, counts
<1>3. CASE RoomStep /\ UNCHANGED <<page, cookie>>
    <2>1. RoomOK'
        BY <1>3, ViewTypes, ServerTypes, SocketTypes DEF RoomInv, RoomOK, TabOK, SessionOK
    <2>2. PanelInv'
        BY <1>3, PanelServerStep, PanelEventStep, PanelPageStep DEF RoomStep, RoomInv
    <2>3. RosterInv' /\ OfflineInv'
        BY <1>3, RosterStep, OfflineStep DEF RoomInv
    <2> QED BY <2>1, <2>2, <2>3 DEF RoomInv
<1> QED BY <1>1, <1>2, <1>3, Frames

LEMMA TabInvariant == Spec => [](TabOK /\ LobbyInv /\ RoomInv)
<1>1. Init => TabOK /\ LobbyInv /\ RoomInv
    <2> SUFFICES ASSUME Init PROVE LobbyInv /\ RoomInv
        BY TabInit
    <2>1. LobbyInv
        BY DEF Init, LobbyInv, SelectedIsUnlocked, BusyEnds, LoadingEnds
    <2>2. RoomOK
        BY EmptyOK DEF Init, RoomOK, ViewOK, ServerOK, SocketOK, Game
    <2>3. PanelInv
        BY NothingSaid DEF Init, PanelInv, BeforeTheRace, RaceIsTold
    <2>4. RosterInv /\ OfflineInv
        BY NothingSaid DEF Init, RosterInv, OfflineInv, ShownAsGone
    <2> QED BY <2>1, <2>2, <2>3, <2>4 DEF RoomInv
<1>2. TabOK /\ LobbyInv /\ RoomInv /\ [Next]_vars => (TabOK /\ LobbyInv /\ RoomInv)'
    BY TabTypes, SelectedStep, BusyStep, LoadingStep, RoomInvStep DEF LobbyInv
<1> QED BY <1>1, <1>2, PTL DEF Spec

(* Whatever answers come back to a page, however late, every variable of   *)
(* the tab keeps its type, and a page that was left keeps nothing.         *)
THEOREM TypeCorrect == Spec => []TypeOK
<1>1. TabOK /\ RoomOK /\ PanelInv => TypeOK
    <2> SUFFICES ASSUME TabOK, RoomOK, PanelInv PROVE TypeOK
        OBVIOUS
    <2>1. posts \subseteq [form : Form, own : BOOLEAN]
        BY DEF TabOK, SessionOK, PostCall
    <2> QED BY <2>1 DEF TabOK, SessionOK, LobbyOK, RoomOK, ViewOK, ServerOK, SocketOK, PanelInv,
           BeforeTheRace, TypeOK, Cookie
<1> QED BY <1>1, TabInvariant, PTL DEF RoomInv

(* Whichever car was stored, and whenever the catalog comes: the lobby     *)
(* selects and asks for unlocked cars only (loadCatalog, requireCarId).    *)
THEOREM LockedIsNeverUsed == Spec => []SelectedIsUnlocked
BY TabInvariant, PTL DEF LobbyInv

(* No button stays blocked by a request that was answered, lost or left    *)
(* behind (the finally blocks of the lobby's and the forms' handlers).     *)
THEOREM NothingStaysBusy == Spec => []BusyEnds
BY TabInvariant, PTL DEF LobbyInv

(* A lobby that waits has a request under way or says what went wrong,     *)
(* unless the request rejected (loadCatalog).                              *)
THEOREM NoEmptyWait == Spec => []LoadingEnds
BY TabInvariant, PTL DEF LobbyInv

(* A page that has nothing under way shows the panel of its room, however  *)
(* often its socket broke while the room went on (onJoinRoom,              *)
(* tryResyncAfterJoin, useGameSocket).                                     *)
THEOREM PanelIsRight == Spec => []PanelFitsTheRoom
<1>1. PanelInv => PanelFitsTheRoom
    BY NothingSaid DEF PanelInv, BeforeTheRace, RaceIsTold, PanelFitsTheRoom, Quiet, ShowPreRace,
       ShowRace, ShowPost
<1> QED BY <1>1, TabInvariant, PTL DEF RoomInv

(* ... and who is ready by its snapshot, unless the list announced last    *)
(* had been read before a later one was written.                           *)
THEOREM RosterIsRight == Spec => []RosterIsCurrent
<1>1. RosterInv => RosterIsCurrent
    <2> SUFFICES ASSUME RosterInv, Quiet, ~outdated, NEW m \in Member
                 PROVE  PlayerList[m] = "ready" <=> m \in ready
        BY DEF RosterIsCurrent
    <2>1. roster = ready
        BY NothingSaid DEF Quiet, RosterInv
    <2> QED BY <2>1 DEF PlayerList
<1> QED BY <1>1, TabInvariant, PTL DEF RoomInv

(* ... and nobody as gone who is there (handleDisconnect, onJoinRoom). *)
THEOREM GoneIsGone == Spec => []OfflineIsTrue
<1>1. OfflineInv => OfflineIsTrue
    BY NothingSaid DEF OfflineInv, ShownAsGone, OfflineIsTrue, Quiet, OfflineNames
<1> QED BY <1>1, TabInvariant, PTL DEF RoomInv
=============================================================================
