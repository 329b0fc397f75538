------------------------------ MODULE RoomPage ------------------------------
(***************************************************************************)
(* RoomClient (apps/web/src/app/room/[id]/room-client.tsx) with the parts  *)
(* of useGameSocket (lib/game-client.ts) that GameClient leaves out: what  *)
(* the page of one of two members shows of a room, from what it fetched    *)
(* once and the events that follow (game.gateway.ts).                      *)
(*                                                                         *)
(* The room goes on only while the page is on show: a page may open at any *)
(* point of it.  The moves' numbers, and the token, are in GameClient.     *)
(***************************************************************************)
EXTENDS Session, Sequences

CONSTANTS
    Nothing,        \* no request, no message
    MaxTroubles,    \* bound: connections of this page lost, and times the other goes
    MaxCalls,       \* bound: handlers under way at the server when another starts
    MaxUnread       \* bound: messages under way when another is sent

Member == {"me", "other"}

(* Where onJoinRoom of this page stands. *)
JoinHandler == [at : {"list"}, list : SUBSET Member] \cup [at : {"resync", "send"}]

ASSUME NothingAssumption == Nothing \notin JoinHandler
ASSUME RoomBounds == MaxTroubles \in Nat /\ MaxCalls \in Nat /\ MaxUnread \in Nat

VARIABLES
    game,           \* game:{roomId}: not there yet, there, or deleted
    open, ready,    \* the room's snapshot: its status is WAITING; who is ready
    timer,          \* a raceStartTimer runs
    readying,       \* markPlayerReady under way: whose, and the list it has read
    announcing,     \* handlers on their way to their player_joined
    other, ghost,   \* the other member's socket; one of theirs that broke unnoticed
    joining,        \* onJoinRoom for this page's socket
    joined,         \* this socket is in the room
    view, fetched,  \* the page: "none", "loading", "failed", "loaded"; its fetches
    status, roster, \* room.status and the list of players, by who is ready
    race, results,  \* gameState and raceResults are there
    pre,            \* preOptimisticRef is: the other is at turn in what is shown
    countdown,      \* raceCountdownUntil is in the future
    offline,        \* the other member is in offlineUserIds
    link,           \* the socket: "none", "token", "down", "up", "error"
    up, down,       \* messages of this page, and to it
    outdated,       \* history: the list announced last was not the room's any more
    haunted,        \* history: a ghost was noticed after its user had come back
    drops, absences

room == <<game, open, ready, timer>>
calls == <<readying, announcing>>
people == <<other, ghost>>
server == <<room, calls, people>>
handler == <<joining, joined>>
roomView == <<view, fetched, status, roster>>
raceView == <<race, results, pre, countdown, offline>>
socket == <<link, up, down>>
history == <<outdated, haunted>>
counts == <<drops, absences>>
roomVars == <<server, handler, roomView, raceView, socket, history, counts>>

Game == {"none", "on", "over"}

Message(type, list) == [type |-> type, list |-> list]

(* What is emitted to the room reaches this page if it is in it. *)
ToRoom(msgs) == IF joined THEN down \o msgs ELSE down

(* The status in the snapshot. *)
Status == IF open THEN "WAITING" ELSE IF game = "on" THEN "RACING" ELSE "FINISHED"

(* A handler on its way to announce a list; a list that nobody waits for.  *)
News(list, start, online) == [list |-> list, start |-> start, online |-> online]
Tidings(list) == News(list, FALSE, FALSE)

-----------------------------------------------------------------------------
(* The page mounts and fetches, or is gone with its socket.                *)
RoomMounts(p) ==
    /\ IF p # "room" THEN game' = "none" /\ ready' = {} /\ timer' = FALSE
       ELSE /\ game' \in Game /\ ready' \in SUBSET Member /\ timer' \in BOOLEAN
            /\ timer' => game' = "none"
            /\ (ready' = Member) <=> (timer' \/ game' # "none")
    /\ open' = (game' = "none")
    /\ view' = (IF p = "room" THEN "loading" ELSE "none")
    /\ fetched' = (IF p = "room" THEN [at |-> "sent", sent |-> cookie] ELSE Nothing)
    /\ status' = "WAITING" /\ roster' = {}
    /\ race' = FALSE /\ results' = FALSE /\ pre' = FALSE
    /\ countdown' = FALSE /\ offline' = FALSE
    /\ link' = "none" /\ up' = <<>> /\ down' = <<>>
    /\ joined' = FALSE /\ joining' = Nothing
    /\ readying' = {} /\ announcing' = {} /\ other' = "on" /\ ghost' = FALSE
    /\ outdated' = FALSE /\ haunted' = FALSE
    /\ drops' = 0 /\ absences' = 0

(* me, the room and the cars are asked for together; that the cars may not *)
(* come does not matter, unless the fetch rejects.                         *)
Fetched(sent) == Both(Both(Me(sent), OneRoom(sent)), {"ok"} \cup (Cars(sent) \cap {"lost"}))

(* GET /api/rooms/:id reads the room. *)
RoomRead ==
    /\ fetched # Nothing /\ fetched.at = "sent"
    /\ "ok" \in Fetched(fetched.sent)
    /\ fetched' = [at |-> "read", sent |-> fetched.sent, status |-> Status, list |-> ready]
    /\ UNCHANGED <<cookie, route, forms, server, handler, view, status, roster, raceView,
                   socket, history, counts>>

(* All have been answered.  An exception leaves the page loading.          *)
RoomLoaded ==
    /\ fetched # Nothing /\ fetched.at = "read"
    /\ fetched' = Nothing
    /\ view' = "loaded" /\ status' = fetched.status /\ roster' = fetched.list
    /\ link' = "token"
    /\ UNCHANGED <<cookie, route, forms, server, handler, raceView, up, down, history, counts>>

RoomNotLoaded(outcome) ==
    /\ fetched # Nothing /\ outcome \in Fetched(fetched.sent) \ {"ok"}
    /\ fetched' = Nothing
    /\ view' = (IF outcome = "failed" THEN "failed" ELSE view)
    /\ leaving' = (IF outcome = "unauthorized" THEN "login" ELSE leaving)
    /\ UNCHANGED <<cookie, page, forms, server, handler, status, roster, raceView, socket,
                   history, counts>>

-----------------------------------------------------------------------------
(* The room, as far as its members see it. *)

MayStart ==
    Cardinality(readying \cup announcing) + (IF joining = Nothing THEN 0 ELSE 1) < MaxCalls

(* markPlayerReady of a member, first or again: the snapshot is read ...   *)
ReadyRead(m) == readying' = readying \cup {[who |-> m, list |-> ready]}

OtherReady ==
    /\ view # "none" /\ other = "on" /\ game = "none" /\ "other" \notin ready /\ MayStart
    /\ ReadyRead("other")
    /\ UNCHANGED <<cookie, route, forms, room, announcing, people, handler, roomView,
                   raceView, socket, history, counts>>

(* ... and written back with the change, over whatever it is by then. *)
ReadyWritten(r) ==
    /\ r \in readying
    /\ readying' = readying \ {r}
    /\ ready' = r.list \cup {r.who} /\ open' = TRUE
    /\ announcing' = announcing \cup {News(ready', ready' = Member, FALSE)}
    /\ UNCHANGED <<cookie, route, forms, game, timer, people, handler, roomView,
                   raceView, socket, history, counts>>

(* The rest of onPlayerReady, with the countdown if all were ready and     *)
(* none is running, or of an onJoinRoom, with the news of the other.       *)
Announce(a) ==
    LET starts == a.start /\ ~timer
    IN
    /\ a \in announcing
    /\ announcing' = announcing \ {a}
    /\ outdated' = (a.list # ready)
    /\ down' = ToRoom(<<Message("player_joined", a.list)>>
                        \o (IF a.online THEN <<Message("online", {})>> ELSE <<>>)
                        \o (IF starts THEN <<Message("race_countdown", {})>> ELSE <<>>))
    /\ timer' = (timer \/ starts)
    /\ UNCHANGED <<cookie, route, forms, game, open, ready, readying, people, handler,
                   roomView, raceView, link, up, haunted, counts>>

(* finalizeRaceAfterCountdown, if the room is as it must be. *)
CountdownExpires ==
    /\ timer
    /\ timer' = FALSE
    /\ IF open /\ ready = Member
       THEN game' = "on" /\ open' = FALSE /\ down' = ToRoom(<<Message("game_start", {})>>)
       ELSE UNCHANGED <<game, open, down>>
    /\ UNCHANGED <<cookie, route, forms, ready, calls, people, handler, roomView, raceView,
                   link, up, history, counts>>

RaceEnds ==
    /\ game = "on"
    /\ game' = "over" /\ open' = FALSE
    /\ down' = ToRoom(<<Message("game_end", {})>>)
    /\ UNCHANGED <<cookie, route, forms, ready, timer, calls, people, handler, roomView, raceView,
                   link, up, history, counts>>

(* After a move, of the other member, of the deadline or of this page:     *)
(* also one that is on its way when the race ends.                         *)
UpdateSent ==
    /\ game # "none"
    /\ down' = ToRoom(<<Message("state_update", {})>>)
    /\ UNCHANGED <<cookie, route, forms, server, handler, roomView, raceView, link, up,
                   history, counts>>

(* handleDisconnect of the other member, at once or when the server misses *)
(* their pings.                                                            *)
OtherGoes(noticed) ==
    /\ view # "none" /\ other = "on" /\ drops + absences < MaxTroubles
    /\ absences' = absences + 1
    /\ other' = "off"
    /\ ghost' = (ghost \/ ~noticed)
    /\ down' = IF noticed THEN ToRoom(<<Message("offline", {})>>) ELSE down
    /\ UNCHANGED <<cookie, route, forms, room, calls, handler, roomView,
                   raceView, link, up, history, drops>>

GhostNoticed ==
    /\ ghost
    /\ ghost' = FALSE
    /\ haunted' = (haunted \/ other = "on")
    /\ down' = ToRoom(<<Message("offline", {})>>)
    /\ UNCHANGED <<cookie, route, forms, room, calls, other, handler, roomView,
                   raceView, link, up, outdated, counts>>

(* onJoinRoom of the other member. *)
OtherReturns ==
    /\ other = "off" /\ MayStart
    /\ other' = "on"
    /\ announcing' = announcing \cup {News(ready, FALSE, TRUE)}
    /\ UNCHANGED <<cookie, route, forms, room, readying, ghost, handler, roomView, raceView,
                   socket, history, counts>>

-----------------------------------------------------------------------------
(* onJoinRoom of this page. *)

JoinReceived ==
    /\ up # <<>> /\ Head(up) = "join" /\ MayStart
    /\ up' = Tail(up)
    /\ joined' = TRUE
    /\ joining' = [at |-> "list", list |-> ready]
    /\ UNCHANGED <<cookie, route, forms, server, roomView, raceView, link, down, history, counts>>

(* Variant: the others are told, who joins is not. *)
JoinAnnouncesToOthers ==
    /\ joining # Nothing /\ joining.at = "list"
    /\ joining' = [at |-> "resync"]
    /\ outdated' = (joining.list # ready)
    /\ UNCHANGED <<cookie, route, forms, server, joined, roomView, raceView, socket, haunted, counts>>

JoinAnnounces ==
    /\ joining # Nothing /\ joining.at = "list"
    /\ joining' = [at |-> "resync"]
    /\ outdated' = (joining.list # ready)
    /\ down' = ToRoom(<<Message("player_joined", joining.list)>>)
    /\ UNCHANGED <<cookie, route, forms, server, joined, roomView, raceView, link, up, haunted, counts>>

(* Variant: who comes late waits for the next move. *)
JoinReadsNothing ==
    /\ joining # Nothing /\ joining.at = "resync"
    /\ joining' = Nothing
    /\ UNCHANGED <<cookie, route, forms, server, joined, roomView, raceView, socket, history, counts>>

JoinReads ==
    /\ joining # Nothing /\ joining.at = "resync"
    /\ joining' = IF game = "on" THEN [at |-> "send"] ELSE Nothing
    /\ UNCHANGED <<cookie, route, forms, server, joined, roomView, raceView, socket, history, counts>>

JoinResyncs ==
    /\ joining # Nothing /\ joining.at = "send"
    /\ joining' = Nothing
    /\ down' = ToRoom(<<Message("game_start", {})>>)
    /\ UNCHANGED <<cookie, route, forms, server, joined, roomView, raceView, link, up, history, counts>>

(* player_ready: refused before join_room, and unless the room is WAITING. *)
ReadyReceived ==
    /\ up # <<>> /\ Head(up) = "ready" /\ MayStart
    /\ up' = Tail(up)
    /\ IF joined /\ open THEN ReadyRead("me") ELSE UNCHANGED readying
    /\ UNCHANGED <<cookie, route, forms, room, announcing, people, handler, roomView,
                   raceView, link, down, history, counts>>

(* submit_move: refused before join_room, too, but with no code that takes *)
(* a move back.                                                            *)
MoveReceived ==
    /\ up # <<>> /\ Head(up) = "move"
    /\ up' = Tail(up)
    /\ \/ game = "on" /\ UNCHANGED down
       \/ down' = ToRoom(<<Message("rejected", {})>>)
    /\ UNCHANGED <<cookie, route, forms, server, handler, roomView, raceView, link, history, counts>>

-----------------------------------------------------------------------------
(* useGameSocket *)

(* fetchSocketAccessToken: any refusal is an error that nobody retries. *)
SocketToken(outcome) ==
    /\ link = "token"
    /\ (outcome = "ok") <=> (cookie # "none" /\ outcome # "lost")
    /\ link' = (IF outcome = "ok" THEN "down" ELSE "error")
    /\ UNCHANGED <<cookie, route, forms, server, handler, roomView, raceView, up, down, history, counts>>

(* What was emitted meanwhile goes first, then onConnect joins the room. *)
Connect ==
    /\ link = "down"
    /\ link' = "up" /\ up' = Append(up, "join")
    /\ UNCHANGED <<cookie, route, forms, server, handler, roomView, raceView, down, history, counts>>

(* The handler of a socket that is gone goes on, up to its answers to it. *)
JoinGoesOn ==
    /\ joined' = FALSE /\ joining' = Nothing
    /\ announcing' = announcing
         \cup (IF joining # Nothing /\ joining.at = "list" THEN {Tidings(joining.list)} ELSE {})

(* Variant: what was under way is still delivered. *)
DropDelivers ==
    /\ link = "up" /\ drops + absences < MaxTroubles
    /\ drops' = drops + 1
    /\ link' = "down" /\ up' = <<>>
    /\ JoinGoesOn
    /\ UNCHANGED <<cookie, route, forms, room, readying, people, roomView, raceView,
                   down, history, absences>>

Drop ==
    /\ link = "up" /\ drops + absences < MaxTroubles
    /\ drops' = drops + 1
    /\ link' = "down" /\ up' = <<>> /\ down' = <<>>
    /\ JoinGoesOn
    /\ UNCHANGED <<cookie, route, forms, room, readying, people, roomView, raceView,
                   history, absences>>

Receive(type) ==
    /\ link = "up" /\ down # <<>> /\ Head(down).type = type
    /\ down' = Tail(down)
    /\ UNCHANGED <<cookie, route, forms, server, handler, view, fetched, status, link, up,
                   history, counts>>

OnGameStart ==
    /\ Receive("game_start")
    /\ race' = TRUE /\ results' = FALSE /\ pre' = FALSE /\ countdown' = FALSE
    /\ UNCHANGED <<roster, offline>>

(* A state is passed over only if it is not newer than one that is shown.  *)
OnStateUpdate ==
    /\ Receive("state_update")
    /\ \/ race /\ UNCHANGED <<race, pre>>
       \/ race' = TRUE /\ pre' = FALSE
    /\ UNCHANGED <<roster, results, countdown, offline>>

OnGameEnd ==
    /\ Receive("game_end")
    /\ race' = FALSE /\ results' = TRUE /\ countdown' = FALSE
    /\ UNCHANGED <<roster, pre, offline>>

(* onError, with a code that takes the move back. *)
OnRejected ==
    /\ Receive("rejected")
    /\ race' = (race \/ pre) /\ pre' = FALSE
    /\ UNCHANGED <<roster, results, countdown, offline>>

OnPlayerJoined ==
    /\ Receive("player_joined")
    /\ roster' = Head(down).list
    /\ UNCHANGED raceView

OnRaceCountdown ==
    /\ Receive("race_countdown")
    /\ countdown' = TRUE
    /\ UNCHANGED <<roster, race, results, pre, offline>>

CountdownOver ==
    /\ countdown
    /\ countdown' = FALSE
    /\ UNCHANGED <<cookie, route, forms, server, handler, roomView, race, results, pre, offline,
                   socket, history, counts>>

(* Variant: only who leaves is remembered. *)
OnConnectionChangeGrows(online) ==
    /\ Receive(IF online THEN "online" ELSE "offline")
    /\ offline' = (offline \/ ~online)
    /\ UNCHANGED <<roster, race, results, pre, countdown>>

OnConnectionChange(online) ==
    /\ Receive(IF online THEN "online" ELSE "offline")
    /\ offline' = ~online
    /\ UNCHANGED <<roster, race, results, pre, countdown>>

-----------------------------------------------------------------------------
(* What the page shows. *)

ShowPreRace == status = "WAITING" /\ ~race /\ ~results
ShowRace == race
ShowPost == results

PlayerList == [m \in Member |-> IF m \in roster THEN "ready" ELSE "waiting"]
ReadyButton == ShowPreRace /\ PlayerList["me"] = "waiting" /\ ~countdown

(* Who is said to have no socket: the others. *)
OfflineNames == IF offline THEN {"other"} ELSE {}

(* sendPlayerReady, by hand. *)
ClickReady ==
    /\ view = "loaded" /\ ReadyButton
    /\ link \in {"down", "up"} /\ Len(up) < MaxUnread
    /\ up' = Append(up, "ready")
    /\ UNCHANGED <<cookie, route, forms, server, handler, roomView, raceView, link, down,
                   history, counts>>

(* submitMove, at turn: after a move of one's own the other is. *)
ClickMove ==
    /\ view = "loaded" /\ ShowRace /\ ~pre
    /\ link \in {"down", "up"} /\ Len(up) < MaxUnread
    /\ pre' = TRUE
    /\ up' = Append(up, "move")
    /\ UNCHANGED <<cookie, route, forms, server, handler, roomView, race, results, countdown,
                   offline, link, down, history, counts>>

RoomServer ==
    \/ \E a \in announcing : Announce(a)
    \/ \E r \in readying : ReadyWritten(r)
    \/ JoinReceived \/ JoinAnnounces \/ JoinReads \/ JoinResyncs
    \/ ReadyReceived \/ MoveReceived \/ UpdateSent

RoomOthers ==
    \/ OtherReady \/ CountdownExpires \/ RaceEnds \/ OtherReturns \/ GhostNoticed
    \/ \E noticed \in BOOLEAN : OtherGoes(noticed)

RoomEvents ==
    \/ OnGameStart \/ OnStateUpdate \/ OnGameEnd \/ OnRejected
    \/ OnPlayerJoined \/ OnRaceCountdown
    \/ \E online \in BOOLEAN : OnConnectionChange(online)

RoomFetches ==
    \/ RoomRead \/ RoomLoaded
    \/ \E o \in {"unauthorized", "failed", "lost"} : RoomNotLoaded(o)
    \/ \E o \in {"ok", "unauthorized", "lost"} : SocketToken(o)

RoomStep ==
    \/ Len(down) < MaxUnread /\ (RoomServer \/ RoomOthers)
    \/ RoomEvents \/ RoomFetches
    \/ Connect \/ Drop \/ CountdownOver \/ ClickReady \/ ClickMove
=============================================================================
