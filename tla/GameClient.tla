----------------------------- MODULE GameClient -----------------------------
(***************************************************************************)
(* useGameSocket (apps/web/src/lib/game-client.ts): what the page of one   *)
(* player shows of a race, over a connection that drops and with an access *)
(* token that changes.                                                     *)
(*                                                                         *)
(* The server takes moves one at a time here (RaceGame has the rest).  A   *)
(* game state is the sequence of the moves that led to it, so that states  *)
(* that differ in a move differ, and moveSeq is its length.  Lobby, banner *)
(* and results table are left out.                                         *)
(***************************************************************************)
EXTENDS Integers, Sequences

CONSTANTS
    N,              \* players of the race
    MyIndex,        \* position of this page's user in playerOrder
    RaceLength,     \* the move that finishes the race
    Click,          \* slots: moves of this page that wait for the token
    NoRace,         \* no state
    Nothing,        \* no message
    MaxDrops,       \* bound: connections lost
    MaxFaults,      \* bound: moves that the server fails to store
    TokenLife       \* whether the token expires and is renewed while the page is open

ASSUME RaceAssumption ==
    /\ N \in Nat \ {0} /\ MyIndex \in 0..(N - 1) /\ RaceLength \in Nat \ {0}
ASSUME BoundAssumption ==
    MaxDrops \in Nat /\ MaxFaults \in Nat /\ TokenLife \in BOOLEAN

Move == {"mine", "zero", "other"}   \* "zero": the deadline moved for this user

VARIABLES
    stage, moves,   \* the race at the server
    outgoing,       \* what the move that was stored last has still to emit
    joined,         \* the server has this socket in the room
    resync,         \* onJoinRoom after the join: [pc, the state it has read]
    link,           \* the shared socket: "down", "up", "refused", "replaced"
    up, down,       \* under way on the connection: clientMoveSeqs and joins; messages
    buffer,         \* emitted while the connection was down
    shown, ack, pre, results,   \* gameState, lastAckMoveSeqRef, preOptimisticRef, raceResults
    drawn,          \* gameStateRef: gameState as it was last rendered
    click,          \* slot -> clientMoveSeq, or Idle
    authExpired,    \* the token the shared socket was made with has expired
    cookieNew,      \* the cookie holds another token than the shared socket
    overtaken,      \* history: a state was emitted before an older resync
    blind,          \* history: a click went by a state that was not the last one
    drops, faults

server == <<stage, moves, outgoing>>
handler == <<joined, resync>>
wire == <<link, up, down, buffer>>
page == <<shown, ack, pre, results>>
view == <<page, drawn, blind>>
token == <<authExpired, cookieNew>>
bounds == <<overtaken, drops, faults>>
vars == <<server, handler, wire, view, click, token, bounds>>

-----------------------------------------------------------------------------
JoinRoom == -1      \* a join_room message, among clientMoveSeqs
Idle == -1          \* no move waits in a slot

Message(type, state) == [type |-> type, state |-> state]
AtRest == [pc |-> "none", state |-> NoRace]

(* Variant: the page does not look whose turn it is. *)
MyTurnAlways(state) == TRUE

(* currentPlayerId = userId *)
MyTurn(state) == Len(state) % N = MyIndex

(* The state with this user's move on top (applyOptimisticMove). *)
Optimistic(state) == Append(state, "mine")

(* What is emitted to a socket that is gone is lost. *)
Sent(msg) == IF link = "up" THEN Append(down, msg) ELSE down

Init ==
    /\ stage = "lobby" /\ moves = <<>> /\ outgoing = Nothing
    /\ joined = FALSE /\ resync = AtRest
    /\ link = "down" /\ up = <<>> /\ down = <<>> /\ buffer = <<>>
    /\ shown = NoRace /\ ack = 0 /\ pre = NoRace /\ results = FALSE
    /\ drawn = NoRace /\ blind = FALSE
    /\ click = [c \in Click |-> Idle]
    /\ authExpired = FALSE /\ cookieNew = FALSE
    /\ overtaken = FALSE /\ drops = 0 /\ faults = 0

-----------------------------------------------------------------------------
(* The server. *)

StartRace ==
    /\ stage = "lobby"
    /\ stage' = "racing"
    /\ outgoing' = Message("game_start", <<>>)
    /\ UNCHANGED <<moves, handler, wire, view, click, token, bounds>>

(* Variant: the end of the race goes unnoticed. *)
StoreEndless(m) ==
    /\ stage = "racing" /\ outgoing = Nothing
    /\ moves' = Append(moves, m)
    /\ stage' = stage /\ outgoing' = Message("state_update", moves')

(* A move is stored; its state_update, or game_end, is emitted next. *)
Store(m) ==
    /\ stage = "racing"
    /\ outgoing = Nothing
    /\ moves' = Append(moves, m)
    /\ IF Len(moves') < RaceLength
       THEN stage' = stage /\ outgoing' = Message("state_update", moves')
       ELSE stage' = "over" /\ outgoing' = Message("game_end", <<>>)

(* Somebody else moves, or the deadline does it for this user. *)
ServerMove ==
    /\ Store(IF Len(moves) % N = MyIndex THEN "zero" ELSE "other")
    /\ UNCHANGED <<handler, wire, view, click, token, bounds>>

(* To all sockets in the room. *)
Emit ==
    /\ outgoing # Nothing
    /\ down' = IF joined THEN Sent(outgoing) ELSE down
    /\ outgoing' = Nothing
    /\ overtaken' = (overtaken \/ resync.pc = "send")
    /\ UNCHANGED <<stage, moves, handler, link, up, buffer, view, click, token,
                   drops, faults>>

(* join_room: the socket is in the room from now on; the race is read ... *)
ReceiveJoin ==
    /\ up # <<>> /\ Head(up) = JoinRoom
    /\ up' = Tail(up)
    /\ joined' = TRUE
    /\ resync' = [pc |-> "load", state |-> NoRace]
    /\ UNCHANGED <<server, link, down, buffer, view, click, token, bounds>>

ResyncLoad ==
    /\ resync.pc = "load"
    /\ resync' = IF stage = "racing" THEN [pc |-> "send", state |-> moves] ELSE AtRest
    /\ UNCHANGED <<server, joined, wire, view, click, token, bounds>>

(* Variant: nothing is sent to who comes late. *)
ResyncSendNothing ==
    /\ resync.pc = "send"
    /\ resync' = AtRest
    /\ UNCHANGED <<server, joined, wire, view, click, token, bounds>>

(* ... and sent to this socket, as it was read. *)
ResyncSend ==
    /\ resync.pc = "send"
    /\ down' = Sent(Message("game_start", resync.state))
    /\ resync' = AtRest
    /\ UNCHANGED <<server, joined, link, up, buffer, view, click, token, bounds>>

Acceptable(seq) ==
    joined /\ stage = "racing" /\ Len(moves) % N = MyIndex /\ seq = Len(moves)

AcceptMove ==
    /\ up # <<>> /\ Head(up) # JoinRoom /\ Acceptable(Head(up))
    /\ Store("mine")
    /\ up' = Tail(up)
    /\ UNCHANGED <<handler, link, down, buffer, view, click, token, bounds>>

(* GAME_NOT_ACTIVE, NOT_YOUR_TURN and STALE_MOVE_SEQ make the page take    *)
(* its move back, NOT_IN_ROOM does not.                                    *)
RejectMove ==
    /\ up # <<>> /\ Head(up) # JoinRoom /\ ~Acceptable(Head(up))
    /\ up' = Tail(up)
    /\ down' = Sent(Message(IF joined THEN "rejected" ELSE "error", <<>>))
    /\ UNCHANGED <<server, handler, link, buffer, view, click, token, bounds>>

(* A store fails: an "ERROR" that the page takes no move back for. *)
FailMove ==
    /\ up # <<>> /\ Head(up) # JoinRoom /\ Acceptable(Head(up))
    /\ faults < MaxFaults
    /\ faults' = faults + 1
    /\ up' = Tail(up)
    /\ down' = Sent(Message("error", <<>>))
    /\ UNCHANGED <<server, handler, link, buffer, view, click, token, overtaken, drops>>

-----------------------------------------------------------------------------
(* The connection.  On every connect socket.io first sends what was        *)
(* emitted meanwhile, then tells the view, which joins the room.  A        *)
(* handshake with an expired token is answered by a disconnect, after      *)
(* which socket.io does not try again (handleConnection).                  *)
Connect ==
    /\ link = "down"
    /\ IF authExpired THEN link' = "refused" /\ UNCHANGED <<up, buffer>>
       ELSE link' = "up" /\ up' = Append(buffer, JoinRoom) /\ buffer' = <<>>
    /\ UNCHANGED <<server, handler, down, view, click, token, bounds>>

Drop ==
    /\ link = "up"
    /\ drops < MaxDrops
    /\ drops' = drops + 1
    /\ link' = "down" /\ up' = <<>> /\ down' = <<>>
    /\ joined' = FALSE /\ resync' = AtRest
    /\ UNCHANGED <<server, buffer, view, click, token, overtaken, faults>>

TokenExpires ==
    /\ TokenLife /\ ~authExpired
    /\ authExpired' = TRUE
    /\ UNCHANGED <<server, handler, wire, view, click, cookieNew, bounds>>

(* Another page or tab has refreshed the session. *)
TokenRenewed ==
    /\ TokenLife /\ ~cookieNew
    /\ cookieNew' = TRUE
    /\ UNCHANGED <<server, handler, wire, view, click, authExpired, bounds>>

(* getGameSocket finds another token than the shared socket's: the socket  *)
(* and its listeners go; the new one has no listeners and joins no room.   *)
Replace ==
    /\ link' = "replaced" /\ up' = <<>> /\ down' = <<>> /\ buffer' = <<>>
    /\ joined' = FALSE /\ resync' = AtRest
    /\ authExpired' = FALSE /\ cookieNew' = FALSE

-----------------------------------------------------------------------------
(* The page. *)

Receive(type) ==
    /\ link = "up" /\ down # <<>> /\ Head(down).type = type
    /\ down' = Tail(down)
    /\ UNCHANGED <<server, handler, link, up, buffer, drawn, click, token, bounds>>

OnGameStart ==
    /\ Receive("game_start")
    /\ shown' = Head(down).state /\ ack' = Len(Head(down).state)
    /\ pre' = NoRace /\ results' = FALSE /\ blind' = FALSE

(* Variant: the state to go back to stays. *)
OnStateUpdateKeepsPre ==
    /\ Receive("state_update")
    /\ IF Len(Head(down).state) <= ack THEN UNCHANGED <<shown, ack, blind>>
       ELSE shown' = Head(down).state /\ ack' = Len(Head(down).state) /\ blind' = FALSE
    /\ UNCHANGED <<pre, results>>

OnStateUpdate ==
    /\ Receive("state_update")
    /\ IF Len(Head(down).state) <= ack THEN UNCHANGED <<page, blind>>
       ELSE /\ shown' = Head(down).state /\ ack' = Len(Head(down).state)
            /\ pre' = NoRace /\ blind' = FALSE
            /\ UNCHANGED results

OnGameEnd ==
    /\ Receive("game_end")
    /\ shown' = NoRace /\ ack' = 0 /\ results' = TRUE /\ blind' = FALSE
    /\ UNCHANGED pre

(* The codes that undo an optimistic move. *)
OnRejected ==
    /\ Receive("rejected")
    /\ shown' = IF pre # NoRace THEN pre ELSE shown
    /\ pre' = NoRace
    /\ UNCHANGED <<ack, results, blind>>

OnError == Receive("error") /\ UNCHANGED <<page, blind>>

(* React renders what a handler has set, some time after the handler.      *)
Render ==
    /\ drawn # shown
    /\ drawn' = shown
    /\ UNCHANGED <<server, handler, wire, page, blind, click, token, bounds>>

(* submitMove takes the state from the last render, newer or not, and puts *)
(* the move on top of that; the message waits for the token.  A second     *)
(* click takes a press and a release of the pointer, and React renders     *)
(* what the first has set before that; what a listener has set may wait.   *)
SubmitMove(c) ==
    /\ click[c] = Idle
    /\ drawn # NoRace /\ MyTurn(drawn)
    /\ pre' = drawn
    /\ shown' = Optimistic(drawn) /\ drawn' = shown'
    /\ click' = [click EXCEPT ![c] = Len(drawn)]
    /\ blind' = (blind \/ drawn # shown)
    /\ UNCHANGED <<server, handler, wire, ack, results, token, bounds>>

(* The token is there.  A socket that is down keeps the message. *)
EmitMove(c) ==
    /\ click[c] # Idle
    /\ click' = [click EXCEPT ![c] = Idle]
    /\ IF cookieNew THEN Replace
       ELSE /\ up' = IF link = "up" THEN Append(up, click[c]) ELSE up
            /\ buffer' = IF link = "down" THEN Append(buffer, click[c]) ELSE buffer
            /\ UNCHANGED <<link, down, handler, token>>
    /\ UNCHANGED <<server, view, bounds>>

(* sendPlayerReady asks for the token too. *)
EmitReady ==
    /\ stage = "lobby" /\ cookieNew
    /\ Replace
    /\ UNCHANGED <<server, view, click, bounds>>

ServerWork == Emit \/ ReceiveJoin \/ ResyncLoad \/ ResyncSend \/ AcceptMove \/ RejectMove
PageWork == OnGameStart \/ OnStateUpdate \/ OnGameEnd \/ OnRejected \/ OnError

Next ==
    \/ StartRace \/ ServerMove \/ ServerWork \/ FailMove
    \/ Connect \/ Drop \/ TokenExpires \/ TokenRenewed
    \/ PageWork \/ Render \/ EmitReady
    \/ \E c \in Click : SubmitMove(c) \/ EmitMove(c)

Spec == Init /\ [][Next]_vars

(* Promises settle, messages on a connection that is up arrive, and        *)
(* socket.io tries to connect for as long as it takes.  Nobody has to move *)
(* and no race has to start.                                               *)
ClientFairness ==
    /\ WF_vars(Emit) /\ WF_vars(ResyncLoad \/ ResyncSend)
    /\ WF_vars(ReceiveJoin \/ AcceptMove \/ RejectMove \/ FailMove)
    /\ WF_vars(PageWork) /\ WF_vars(Connect)

FairSpec == Spec /\ ClientFairness

-----------------------------------------------------------------------------
State == UNION {[1..n -> Move] : n \in 0..RaceLength}
Seqs == -1..(RaceLength - 1)

(* Every variable holds what the code can put there. *)
TypeOK ==
    /\ stage \in {"lobby", "racing", "over"} /\ moves \in State
    /\ outgoing = Nothing \/ (outgoing.state \in State /\
          outgoing.type \in {"game_start", "state_update", "game_end"})
    /\ joined \in BOOLEAN /\ resync.pc \in {"none", "load", "send"}
    /\ resync.state \in State \cup {NoRace}
    /\ link \in {"down", "up", "refused", "replaced"}
    /\ up \in Seq(Seqs) /\ buffer \in Seq(Seqs)
    /\ \A k \in DOMAIN down : down[k].state \in State
    /\ {shown, pre, drawn} \subseteq State \cup {NoRace} /\ blind \in BOOLEAN
    /\ ack \in 0..RaceLength /\ results \in BOOLEAN
    /\ click \in [Click -> Seqs]
    /\ authExpired \in BOOLEAN /\ cookieNew \in BOOLEAN /\ overtaken \in BOOLEAN
    /\ drops \in 0..MaxDrops /\ faults \in 0..MaxFaults

(* The race as it stood after its first k moves. *)
After(k) == SubSeq(moves, 1, k)
Stood(state) == Len(state) <= Len(moves) /\ state = After(Len(state))

(* Whatever is lost, refused, taken back or sent twice, the page shows the *)
(* race as it stood at some time, or that with one move of its own on top  *)
(* (applyOptimisticMove, onError), provided that somebody else moves next. *)
ShowsTheRace ==
    N > 1 => \A state \in {shown, drawn} \ {NoRace} :
        \/ Stood(state)
        \/ \E k \in 0..Len(moves) :
              k % N = MyIndex /\ state = Optimistic(After(k))

(* What the server has told is not taken back by a late refusal: the state *)
(* set last, and the one to go back to, are at least as far; unless a      *)
(* click came between a handler and its render, and nothing new since.     *)
NothingTakenBack ==
    ~blind => /\ shown # NoRace => Len(shown) >= ack
              /\ pre # NoRace => Len(pre) >= ack

(* The page has caught up with a race that stands at its k-th move. *)
CaughtUp(k) == shown # NoRace /\ ack = k

Deaf == link \in {"refused", "replaced"}

(* However messages are lost, a race that stands is shown as it stands:    *)
(* by the broadcast, or by the game_start that follows every join_room.    *)
(* Left out are a resync that was overtaken by a newer state, and the      *)
(* sockets that a new or an expired token has left deaf.                   *)
SeesEveryTurn ==
    \A k \in 0..(RaceLength - 1) :
        stage = "racing" /\ Len(moves) = k
            ~> (stage = "over" \/ Len(moves) # k \/ CaughtUp(k) \/ overtaken \/ Deaf)

(* "keeps state in sync with optimistic moves + reconciliation"            *)
(* (game-client.ts): the same, whenever the session gets a new token.      *)
StaysInSync ==
    \A k \in 0..(RaceLength - 1) :
        stage = "racing" /\ Len(moves) = k
            ~> (stage = "over" \/ Len(moves) # k \/ CaughtUp(k) \/ overtaken
                \/ link = "refused")
=============================================================================
