------------------------------- MODULE Lobby --------------------------------
(***************************************************************************)
(* LobbyClient (apps/web/src/app/lobby/lobby-client.tsx).  Whatever page   *)
(* is on show, an answer finds its handler: the state of a lobby that was  *)
(* left is not there any more, its navigation and its storage are.         *)
(*                                                                         *)
(* The tracks are left out: the first one is picked, and there is one.     *)
(***************************************************************************)
EXTENDS Session

CONSTANTS
    Car, Unlocked,  \* the catalog, and the cars of it that can be chosen
    NoCar,
    MaxChanges,     \* bound: changes of the public list
    MaxPolls,       \* bound: polls under way
    MaxFailures     \* bound: answers to polls that bring no list

ASSUME CarAssumption == Unlocked \subseteq Car /\ NoCar \notin Car
ASSUME LobbyBounds == MaxChanges \in Nat /\ MaxPolls \in Nat /\ MaxFailures \in Nat

VARIABLES
    catalog,    \* cars and tracks are there
    selected,   \* selectedCarId
    stored,     \* localStorage vr_lobby_car_id, which other tabs set, too
    dialog,     \* createOpen
    busy, error,
    list,       \* publicRooms, as the number of its last change
    rooms,      \* the public list at the server, since the page was opened
    loads,      \* loadCatalog under way: the cookie sent, and whose it is
    asks,       \* POST /api/rooms or /api/rooms/join under way
    polls,      \* GET /api/rooms/public under way: on the way there, and lists
    failures,
    rejected    \* history: a loadCatalog of this page ended in an exception

lobby == <<catalog, selected, dialog, busy, error, list, rejected>>
lobbyCalls == <<loads, asks, polls, failures>>

NoPoll == -1    \* a poll that has not been answered; no list yet

-----------------------------------------------------------------------------
(* The page as it mounts: the catalog and the list are asked for. *)
LobbyMounts ==
    /\ catalog' = FALSE /\ selected' = NoCar /\ dialog' = FALSE
    /\ busy' = FALSE /\ error' = FALSE /\ list' = NoPoll /\ rejected' = FALSE

Disowned(calls) == {[c EXCEPT !.own = FALSE] : c \in calls}

LobbyAsks(p) ==
    /\ loads' = Disowned(loads)
                  \cup (IF p = "lobby" THEN {[sent |-> cookie, own |-> TRUE]} ELSE {})
    /\ polls' = IF p = "lobby" THEN {NoPoll} ELSE {}
    /\ asks' = Disowned(asks)
    /\ stored' \in IF p = "lobby" THEN Car \cup {NoCar} ELSE {NoCar}
    /\ rooms' = 0 /\ failures' = 0

(* Variant: the stored car is taken as it is. *)
PickStored == IF stored # NoCar THEN {stored} ELSE Unlocked

(* The stored car if it can be chosen, or else the first that can. *)
Pick == IF stored \in Unlocked THEN {stored} ELSE IF Unlocked = {} THEN {NoCar} ELSE Unlocked

(* loadCatalog, when both answers are there. *)
LoadOk(c) ==
    \E car \in Pick :
        /\ stored' = IF car = NoCar \/ page # "lobby" THEN stored ELSE car
        /\ IF c.own THEN catalog' = TRUE /\ selected' = car ELSE UNCHANGED <<catalog, selected>>
        /\ UNCHANGED <<leaving, error, rejected>>

(* Variant: no error for an answer that is neither. *)
LoadAnsweredQuietly(c, outcome) ==
    /\ c \in loads
    /\ loads' = loads \ {c}
    /\ \/ outcome = "ok" /\ LoadOk(c)
       \/ /\ outcome # "ok"
          /\ leaving' = (IF outcome = "unauthorized" THEN "login" ELSE leaving)
          /\ rejected' = (rejected \/ (outcome = "lost" /\ c.own))
          /\ UNCHANGED <<catalog, selected, stored, error>>
    /\ UNCHANGED <<cookie, page, forms, dialog, busy, list, rooms, asks, polls, failures>>

LoadAnswered(c, outcome) ==
    /\ c \in loads
    /\ loads' = loads \ {c}
    /\ \/ outcome = "ok" /\ LoadOk(c)
       \/ /\ outcome = "unauthorized" /\ leaving' = "login"
          /\ UNCHANGED <<catalog, selected, stored, error, rejected>>
       \/ /\ outcome = "failed" /\ error' = (error \/ c.own)
          /\ UNCHANGED <<catalog, selected, stored, leaving, rejected>>
       \/ /\ outcome = "lost" /\ rejected' = (rejected \/ c.own)
          /\ UNCHANGED <<catalog, selected, stored, leaving, error>>
    /\ UNCHANGED <<cookie, page, forms, dialog, busy, list, rooms, asks, polls, failures>>

(* "Loading lobby", with a button once there is an error. *)
LoadingView == page = "lobby" /\ ~catalog

Retry ==
    /\ LoadingView /\ error
    /\ error' = FALSE
    /\ loads' = loads \cup {[sent |-> cookie, own |-> TRUE]}
    /\ UNCHANGED <<cookie, route, forms, catalog, selected, stored, dialog, busy, list,
                   rooms, asks, polls, failures, rejected>>

-----------------------------------------------------------------------------
(* The public list. *)

RoomsChange ==
    /\ page = "lobby" /\ rooms < MaxChanges
    /\ rooms' = rooms + 1
    /\ UNCHANGED <<cookie, route, forms, lobby, stored, lobbyCalls>>

(* Variant: the list is asked for once. *)
PollOnce == FALSE /\ UNCHANGED <<cookie, route, forms, lobby, stored, rooms, lobbyCalls>>

(* The interval, every PUBLIC_REFRESH_MS. *)
Poll ==
    /\ page = "lobby" /\ Cardinality(polls) < MaxPolls
    /\ polls' = polls \cup {NoPoll}
    /\ UNCHANGED <<cookie, route, forms, lobby, stored, rooms, loads, asks, failures>>

(* The server reads the list: polls overtake one another afterwards. *)
PollRead ==
    /\ NoPoll \in polls
    /\ polls' = (polls \ {NoPoll}) \cup {rooms}
    /\ UNCHANGED <<cookie, route, forms, lobby, stored, rooms, loads, asks, failures>>

PollAnswered(n) ==
    /\ n \in polls \ {NoPoll}
    /\ polls' = polls \ {n}
    /\ list' = n
    /\ UNCHANGED <<cookie, route, forms, catalog, selected, stored, dialog, busy, error,
                   rejected, rooms, loads, asks, failures>>

(* Any other answer is passed over. *)
PollFails ==
    /\ NoPoll \in polls /\ failures < MaxFailures
    /\ polls' = polls \ {NoPoll}
    /\ failures' = failures + 1
    /\ UNCHANGED <<cookie, route, forms, lobby, stored, rooms, loads, asks>>

-----------------------------------------------------------------------------
(* What the user does in a lobby that has loaded: its cars, its form, its  *)
(* list and its dialog.                                                    *)

Shown == page = "lobby" /\ catalog
CarGrid == IF Shown THEN Unlocked ELSE {}
JoinForm == Shown /\ ~busy
PublicList == Shown /\ ~busy /\ list # NoPoll
CreateDialog == Shown /\ dialog

SelectCar(car) ==
    /\ car \in CarGrid
    /\ selected' = car /\ stored' = car
    /\ UNCHANGED <<cookie, route, forms, catalog, dialog, busy, error, list, rejected,
                   rooms, lobbyCalls>>

OpenDialog ==
    /\ Shown /\ ~busy
    /\ dialog' = TRUE
    /\ UNCHANGED <<cookie, route, forms, catalog, selected, stored, busy, error, list,
                   rejected, rooms, lobbyCalls>>

(* By Escape or a click beside it at any time. *)
CloseDialog ==
    /\ CreateDialog
    /\ dialog' = FALSE
    /\ UNCHANGED <<cookie, route, forms, catalog, selected, stored, busy, error, list,
                   rejected, rooms, lobbyCalls>>

RequireCarId == selected \in Unlocked

(* The three handlers up to their fetch. *)
Ask(create) ==
    /\ IF RequireCarId
       THEN /\ busy' = TRUE /\ error' = FALSE
            /\ asks' = asks \cup {[sent |-> cookie, create |-> create, car |-> selected,
                                   own |-> TRUE]}
       ELSE error' = TRUE /\ UNCHANGED <<busy, asks>>
    /\ UNCHANGED <<cookie, route, forms, catalog, selected, stored, dialog, list, rejected,
                   rooms, loads, polls, failures>>

HandleCreateRoom == CreateDialog /\ ~busy /\ Ask(TRUE)
HandleJoinRoom == PublicList /\ Ask(FALSE)

(* A code of another length than 6 is refused at once. *)
BadCode ==
    /\ error' = TRUE
    /\ UNCHANGED <<cookie, route, forms, catalog, selected, stored, dialog, busy, list,
                   rejected, rooms, lobbyCalls>>

HandleJoinByCode == JoinForm /\ (Ask(FALSE) \/ BadCode)

Asked(q) == IF q.create THEN CreateRoom(q.sent) ELSE JoinRoom(q.sent)

(* Variant: the exception of a fetch that is lost skips setBusy(false). *)
AskAnsweredStaysBusy(q, outcome) ==
    /\ q \in asks
    /\ asks' = asks \ {q}
    /\ busy' = (busy /\ (~q.own \/ outcome = "lost"))
    /\ leaving' = CASE outcome = "ok" -> "room" [] outcome = "unauthorized" -> "login"
                    [] OTHER -> leaving
    /\ error' = (error \/ (outcome = "failed" /\ q.own))
    /\ dialog' = (dialog /\ ~(outcome = "ok" /\ q.create /\ q.own))
    /\ UNCHANGED <<cookie, page, forms, catalog, selected, stored, list, rejected, rooms,
                   loads, polls, failures>>

(* The rest of them.  The buttons work again at once, also while the       *)
(* browser is on its way.                                                  *)
AskAnswered(q, outcome) ==
    /\ q \in asks
    /\ asks' = asks \ {q}
    /\ busy' = (busy /\ ~q.own)
    /\ leaving' = CASE outcome = "ok" -> "room" [] outcome = "unauthorized" -> "login"
                    [] OTHER -> leaving
    /\ error' = (error \/ (outcome = "failed" /\ q.own))
    /\ dialog' = (dialog /\ ~(outcome = "ok" /\ q.create /\ q.own))
    /\ UNCHANGED <<cookie, page, forms, catalog, selected, stored, list, rejected, rooms,
                   loads, polls, failures>>

LobbyAnswers ==
    \/ \E c \in loads : \E o \in Both(Cars(c.sent), Tracks(c.sent)) : LoadAnswered(c, o)
    \/ \E q \in asks : \E o \in Asked(q) : AskAnswered(q, o)

PollStep == PollRead \/ PollFails \/ \E n \in polls : PollAnswered(n)

LobbyUser ==
    \/ Retry \/ OpenDialog \/ CloseDialog
    \/ \E car \in Car : SelectCar(car)
    \/ HandleCreateRoom \/ HandleJoinByCode \/ HandleJoinRoom

LobbyStep == LobbyAnswers \/ PollStep \/ Poll \/ RoomsChange \/ LobbyUser
=============================================================================
