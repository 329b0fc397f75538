------------------------------ MODULE RaceGame ------------------------------
(***************************************************************************)
(* GameService (apps/api/src/game/game.service.ts): the race of one room.  *)
(*                                                                         *)
(* The race is a JSON value under the Redis key game:{roomId}, its log a   *)
(* Replay row in Postgres, its life cycle the status of the room's         *)
(* snapshot.  A handler runs without interruption up to an await and any   *)
(* number of handlers, of one process or of several, interleave at the     *)
(* awaits: each action below is the code from one await to the next.       *)
(*                                                                         *)
(* The room's members are fixed here: a race starts when all of them are   *)
(* ready, and nobody joins a room that is not WAITING (RoomStore has the   *)
(* membership).  A move is its effect on the mover's lap count: a physics  *)
(* step (applyMove) finishes no lap or one.                                *)
(***************************************************************************)
EXTENDS Integers, Sequences, FiniteSets, Functions

CONSTANTS
    Player,         \* user ids of the room's members
    PlayerOrder,    \* the members sorted by position
    LapCount,       \* lapCount of the room's track
    Call,           \* slots for submit_move messages and expired turn deadlines
    Starter,        \* the expiries of the start countdown, at any process
    MaxOverlap,     \* calls that may be between their read and their write at once
    MaxFaults,      \* bound: handlers that die at an await
    MaxMoveSeq,     \* bound: moves accepted on top of one another
    MaxReplay,      \* bound: entries of one replay when a move is accepted
    NoGame          \* the Redis key does not exist

N == Len(PlayerOrder)

Car == [moves : Nat, laps : Nat]
Game == [replayId : Nat, turnIndex : 0..(N - 1), moveSeq : Nat,
         cars : [Player -> Car]]
ReplayMoveEntry == [moveSeq : Nat, userId : Player]

ASSUME PlayerOrderAssumption ==
    /\ PlayerOrder \in Seq(Player)
    /\ N > 0
    /\ \A i, j \in 1..N : PlayerOrder[i] = PlayerOrder[j] => i = j
    /\ Player = {PlayerOrder[i] : i \in 1..N}
ASSUME BoundAssumption ==
    /\ LapCount \in Nat
    /\ MaxOverlap \in Nat /\ MaxFaults \in Nat
    /\ MaxMoveSeq \in Nat /\ MaxReplay \in Nat
ASSUME NoGameAssumption == NoGame \notin Game
ASSUME SlotAssumption == Call \cap Starter = {}

VARIABLES
    game,       \* Redis game:{roomId}
    replays,    \* Postgres Replay.movesJson of the room's races; the id is the index
    status,     \* status of the Redis room snapshot
    call,       \* applySubmitMove in progress
    starter,    \* finalizeScheduledRaceStart in progress
    faults,     \* handlers that have died
    \* Histories, which the code does not have and no guard reads:
    late,       \* calls and starts that began before another changed the race
    revived     \* the race in Redis comes from one of these

history == <<late, revived>>

vars == <<game, replays, status, call, starter, faults, late, revived>>

-----------------------------------------------------------------------------
(* A clientMoveSeq that the sender left out. *)
Unchecked == -1

(* A call that is not in use.  user and seq are the arguments; next is the *)
(* race as it will be after the move, computed from the copy that was      *)
(* read; list is the replay's movesJson as it was read.                    *)
IdleCall == [pc |-> "idle", user |-> PlayerOrder[1], seq |-> 0,
             next |-> NoGame, list |-> <<>>]

(* A call as it arrives. *)
SentCall(u, seq) == [pc |-> "sent", user |-> u, seq |-> seq,
                     next |-> NoGame, list |-> <<>>]

NewGame(id) ==
    [replayId |-> id, turnIndex |-> 0, moveSeq |-> 0,
     cars |-> [p \in Player |-> [moves |-> 0, laps |-> 0]]]

(* playerOrder[((turnIndex % n) + n) % n], counted from 1. *)
CurrentPlayer(g) == PlayerOrder[(((g.turnIndex % N) + N) % N) + 1]

(* Variant: the turn index is not wrapped. *)
AfterMoveNoWrap(g, u, lap) ==
    [replayId |-> g.replayId,
     turnIndex |-> g.turnIndex + 1,
     moveSeq |-> g.moveSeq + 1,
     cars |-> [g.cars EXCEPT ![u] = [moves |-> @.moves + 1, laps |-> @.laps + lap]]]

(* The race after a move of player u. *)
AfterMove(g, u, lap) ==
    [replayId |-> g.replayId,
     turnIndex |-> (g.turnIndex + 1) % N,
     moveSeq |-> g.moveSeq + 1,
     cars |-> [g.cars EXCEPT ![u] = [moves |-> @.moves + 1, laps |-> @.laps + lap]]]

(* Variant: the first player to finish ends the race. *)
AllDoneFirst(g) == \E p \in Player : g.cars[p].laps >= LapCount

AllDone(g) == \A p \in Player : g.cars[p].laps >= LapCount

(* Calls that have read the race and not finished with it. *)
InService == {h \in Call : call[h].pc \notin {"idle", "sent"}}

-----------------------------------------------------------------------------
Init ==
    /\ game = NoGame
    /\ replays = <<>>
    /\ status = "WAITING"
    /\ call = [h \in Call |-> IdleCall]
    /\ starter = [s \in Starter |-> [pc |-> "counting", replayId |-> 0]]
    /\ faults = 0
    /\ late = {} /\ revived = FALSE

(* History of a call or start k that sets or deletes the race: every other *)
(* one that stands on the race it had read, or on a room without a race,   *)
(* is late from then on.                                                   *)
Overtakes(k) ==
    late' = (late \cup InService
             \cup {s \in Starter : starter[s].pc \in {"counting", "checked", "created"}})
            \ {k}

(* History: a start that finds the room moved on knows of the race.        *)
Noticed(s) == late' = IF status = "WAITING" THEN late ELSE late \ {s}

(* Variant: the status is not looked at. *)
CheckLobbyAnytime(s) ==
    /\ starter[s].pc = "counting"
    /\ starter' = [starter EXCEPT ![s].pc = "checked"]
    /\ Noticed(s)
    /\ UNCHANGED <<game, replays, status, call, faults, revived>>

(* The countdown has run out: read the snapshot, give up unless WAITING.  *)
(* Every member is ready: the countdown is started by the last of them.   *)
CheckLobby(s) ==
    /\ starter[s].pc = "counting"
    /\ starter' = [starter EXCEPT ![s].pc =
                      IF status = "WAITING" THEN "checked" ELSE "done"]
    /\ Noticed(s)
    /\ UNCHANGED <<game, replays, status, call, faults, revived>>

(* startRace, after the track and the cars were read: a new, empty replay. *)
CreateReplay(s) ==
    /\ starter[s].pc = "checked"
    /\ replays' = Append(replays, <<>>)
    /\ starter' = [starter EXCEPT ![s] =
                      [pc |-> "created", replayId |-> Len(replays) + 1]]
    /\ UNCHANGED <<game, status, call, faults, history>>

StoreNewGame(s) ==
    /\ starter[s].pc = "created"
    /\ game' = NewGame(starter[s].replayId)
    /\ starter' = [starter EXCEPT ![s].pc = "stored"]
    /\ revived' = (revived \/ s \in late)
    /\ Overtakes(s)
    /\ UNCHANGED <<replays, status, call, faults>>

MarkRacing(s) ==
    /\ starter[s].pc = "stored"
    /\ status' = "RACING"
    /\ starter' = [starter EXCEPT ![s].pc = "done"]
    /\ UNCHANGED <<game, replays, call, faults, history>>

-----------------------------------------------------------------------------
(* A page that shows the race lets its user move when it is his turn, and  *)
(* sends the moveSeq it shows; a caller may leave clientMoveSeq out.  Two  *)
(* calls may carry the same move: a double click, a repeated message.      *)
SendMove(h) ==
    /\ call[h].pc = "idle"
    /\ game # NoGame
    /\ \E seq \in {game.moveSeq, Unchecked} :
          call' = [call EXCEPT ![h] = SentCall(CurrentPlayer(game), seq)]
    /\ UNCHANGED <<game, replays, status, starter, faults, history>>

(* A turn deadline expires: applyTurnDeadline reads the race to learn whom *)
(* to move for, and at which moveSeq, and submits a move of zero thrust.   *)
DeadlineLoad(h) ==
    /\ call[h].pc = "idle"
    /\ game # NoGame
    /\ call' = [call EXCEPT ![h] = SentCall(CurrentPlayer(game), game.moveSeq)]
    /\ UNCHANGED <<game, replays, status, starter, faults, history>>

(* Variant: the turn is not checked. *)
MayMoveOutOfTurn(c) ==
    /\ game # NoGame
    /\ c.seq # Unchecked => c.seq = game.moveSeq

(* The checks of applySubmitMove, on the race as it is now. *)
MayMove(c) ==
    /\ game # NoGame
    /\ c.user = CurrentPlayer(game)
    /\ c.seq # Unchecked => c.seq = game.moveSeq

(* GAME_NOT_ACTIVE, NOT_YOUR_TURN, STALE_MOVE_SEQ. *)
RejectMove(h) ==
    /\ call[h].pc = "sent"
    /\ ~MayMove(call[h])
    /\ call' = [call EXCEPT ![h] = IdleCall]
    /\ UNCHANGED <<game, replays, status, starter, faults, history>>

(* GET the race and compute the next one from the copy. *)
ReadGame(h, lap) ==
    /\ call[h].pc = "sent"
    /\ MayMove(call[h])
    /\ Cardinality(InService) < MaxOverlap
    /\ game.moveSeq < MaxMoveSeq
    /\ Len(replays[game.replayId]) < MaxReplay
    /\ call' = [call EXCEPT ![h] = [@ EXCEPT
                    !.pc = "readReplay", !.next = AfterMove(game, call[h].user, lap)]]
    /\ late' = late \ {h}
    /\ UNCHANGED <<game, replays, status, starter, faults, revived>>

(* Variant: the list is not read, the move starts a new one. *)
ReadReplayLost(h) ==
    /\ call[h].pc = "readReplay"
    /\ call' = [call EXCEPT ![h] = [@ EXCEPT !.pc = "writeReplay", !.list = <<>>]]
    /\ UNCHANGED <<game, replays, status, starter, faults, history>>

(* appendReplayMove reads the whole list ... *)
ReadReplay(h) ==
    /\ call[h].pc = "readReplay"
    /\ call' = [call EXCEPT ![h] = [@ EXCEPT
                    !.pc = "writeReplay", !.list = replays[call[h].next.replayId]]]
    /\ UNCHANGED <<game, replays, status, starter, faults, history>>

(* Variant: the entry carries the moveSeq the move was made at. *)
MoveEntryBefore(c) == [moveSeq |-> c.next.moveSeq - 1, userId |-> c.user]

(* The replay entry of a move carries the moveSeq the move leads to. *)
MoveEntry(c) == [moveSeq |-> c.next.moveSeq, userId |-> c.user]

(* ... and writes it back with the move added. *)
WriteReplay(h) ==
    LET c == call[h] IN
    /\ c.pc = "writeReplay"
    /\ replays' = [replays EXCEPT
                      ![c.next.replayId] = Append(c.list, MoveEntry(c))]
    /\ call' = [call EXCEPT ![h] = [@ EXCEPT !.pc = "store", !.list = <<>>]]
    /\ UNCHANGED <<game, status, starter, faults, history>>

(* SET the next race, whatever the key holds by now. *)
StoreGame(h) ==
    /\ call[h].pc = "store"
    /\ ~AllDone(call[h].next)
    /\ game' = call[h].next
    /\ call' = [call EXCEPT ![h] = IdleCall]
    /\ revived' = (revived \/ h \in late)
    /\ Overtakes(h)
    /\ UNCHANGED <<replays, status, starter, faults>>

(* Variant: the key is left in Redis. *)
DeleteGameForgotten(h) ==
    /\ call[h].pc = "store"
    /\ AllDone(call[h].next)
    /\ call' = [call EXCEPT ![h] = [IdleCall EXCEPT !.pc = "finish"]]
    /\ UNCHANGED <<game, replays, status, starter, faults, history>>

(* The race is over: DEL the key, then set the room's status. *)
DeleteGame(h) ==
    /\ call[h].pc = "store"
    /\ AllDone(call[h].next)
    /\ game' = NoGame
    /\ call' = [call EXCEPT ![h] = [IdleCall EXCEPT !.pc = "finish"]]
    /\ revived' = FALSE
    /\ Overtakes(h)
    /\ UNCHANGED <<replays, status, starter, faults>>

MarkFinished(h) ==
    /\ call[h].pc = "finish"
    /\ status' = "FINISHED"
    /\ call' = [call EXCEPT ![h] = IdleCall]
    /\ UNCHANGED <<game, replays, starter, faults, history>>

-----------------------------------------------------------------------------
(* A handler dies at an await: the store or the database fails the         *)
(* request, or the process is gone.  What it has written stays.            *)
CallDies(h) ==
    /\ call[h].pc # "idle"
    /\ faults < MaxFaults
    /\ faults' = faults + 1
    /\ call' = [call EXCEPT ![h] = IdleCall]
    /\ UNCHANGED <<game, replays, status, starter, history>>

StarterDies(s) ==
    /\ starter[s].pc # "done"
    /\ faults < MaxFaults
    /\ faults' = faults + 1
    /\ starter' = [starter EXCEPT ![s].pc = "done"]
    /\ UNCHANGED <<game, replays, status, call, history>>

Next ==
    \/ \E s \in Starter : \/ CheckLobby(s) \/ CreateReplay(s)
                          \/ StoreNewGame(s) \/ MarkRacing(s)
                          \/ StarterDies(s)
    \/ \E h \in Call : \/ SendMove(h) \/ DeadlineLoad(h) \/ RejectMove(h)
                       \/ \E lap \in 0..1 : ReadGame(h, lap)
                       \/ ReadReplay(h) \/ WriteReplay(h)
                       \/ StoreGame(h) \/ DeleteGame(h) \/ MarkFinished(h)
                       \/ CallDies(h)

Spec == Init /\ [][Next]_vars

-----------------------------------------------------------------------------
CallState == {"idle", "sent", "readReplay", "writeReplay", "store", "finish"}
StarterState == {"counting", "checked", "created", "stored", "done"}
CallRecord == [pc : CallState, user : Player, seq : Nat \cup {Unchecked},
               next : Game \cup {NoGame}, list : Seq(ReplayMoveEntry)]
StarterRecord == [pc : StarterState, replayId : Nat]

(* Every variable holds what the code can put there; a call past its read  *)
(* works on a race whose replay row exists, so that the branches for a     *)
(* missing row, a race without players and a missing car are dead code.    *)
TypeOK ==
    /\ game \in Game \cup {NoGame}
    /\ replays \in Seq(Seq(ReplayMoveEntry))
    /\ status \in {"WAITING", "RACING", "FINISHED"}
    /\ call \in [Call -> CallRecord]
    /\ starter \in [Starter -> StarterRecord]
    /\ faults \in 0..MaxFaults
    /\ late \subseteq Call \cup Starter /\ revived \in BOOLEAN
    /\ game # NoGame => game.replayId \in DOMAIN replays
    /\ \A h \in Call : call[h].pc \in {"readReplay", "writeReplay", "store"} =>
          /\ call[h].next # NoGame
          /\ call[h].next.replayId \in DOMAIN replays
    /\ \A s \in Starter : starter[s].pc = "created" =>
          starter[s].replayId \in DOMAIN replays

(* The turn rule, on one copy of the race: the players in front of the     *)
(* turn have made one move more than the others, and moveSeq counts them.  *)
Lockstep(g) ==
    LET rounds == g.cars[PlayerOrder[N]].moves IN
    /\ g.moveSeq = rounds * N + g.turnIndex
    /\ \A i \in 1..N : g.cars[PlayerOrder[i]].moves =
                          rounds + (IF i <= g.turnIndex THEN 1 ELSE 0)

(* However handlers overlap, die, rewind the race or bring back one that   *)
(* is over (applySubmitMove writes the copy it read), no copy of the race  *)
(* ever gives a player two moves of one round or skips somebody's.         *)
TurnLockstep ==
    /\ game # NoGame => Lockstep(game)
    /\ \A h \in Call : call[h].next # NoGame => Lockstep(call[h].next)

(* Every entry of every replay names the player whose turn its moveSeq is, *)
(* so a replay can be re-run in moveSeq order even where appends were lost *)
(* or written twice (appendReplayMove).                                    *)
ReplayTurnOrder ==
    \A r \in DOMAIN replays : \A k \in DOMAIN replays[r] :
        LET e == replays[r][k] IN
        e.moveSeq > 0 /\ e.userId = PlayerOrder[((e.moveSeq - 1) % N) + 1]

(* The race in Redis goes on by the moves of the players whose turn it is, *)
(* from the first start to the DEL, each on top of the last: only a late   *)
(* call or start, which writes over a race it has not read, takes moves    *)
(* back or starts the race again (applySubmitMove, startRace).             *)
MovesAreKept ==
    [][\/ game' = game
       \/ game = NoGame /\ \E s \in Starter \ late : StoreNewGame(s)
       \/ /\ game # NoGame
          /\ \E lap \in 0..1 :
                LET next == AfterMove(game, CurrentPlayer(game), lap) IN
                game' = IF AllDone(next) THEN NoGame ELSE next
       \/ \E h \in late \cap Call : StoreGame(h) \/ DeleteGame(h)
       \/ \E s \in late \cap Starter : StoreNewGame(s)]_vars

(* A room that is FINISHED has no race in Redis, so that a late            *)
(* submit_move is answered GAME_NOT_ACTIVE: only a call that had read the  *)
(* race, or a start that was not through, when the key went brings one     *)
(* back (the DEL comes before the status).                                 *)
FinishedRoomHasNoRace == status = "FINISHED" /\ ~revived => game = NoGame

-----------------------------------------------------------------------------
(* What holds while calls do not overlap (MaxOverlap = 1).                 *)

(* The replay of the race in Redis holds every move of the race, although  *)
(* the row is written before the race and either write may fail alone      *)
(* (appendReplayMove, then redis.set); it is at most one move ahead.       *)
ReplayLogsEveryMove ==
    game # NoGame =>
        LET logged == {e.moveSeq : e \in Range(replays[game.replayId])} IN
        1..game.moveSeq \subseteq logged /\ logged \subseteq 1..(game.moveSeq + 1)

(* The race in Redis behaves as the turn race: each stored race is one     *)
(* accepted move further than the one it replaces, and it goes away with   *)
(* the move that completes the last lap of the last player.                *)
Abstract == INSTANCE TurnRace WITH
    racing <- game # NoGame,
    moveSeq <- IF game = NoGame THEN 0 ELSE game.moveSeq,
    laps <- [p \in Player |-> IF game = NoGame THEN 0 ELSE game.cars[p].laps]

ImplementsTurnRace == Abstract!Spec
=============================================================================
