------------------------------ MODULE Gateway -------------------------------
(***************************************************************************)
(* GameGateway (apps/api/src/game/game.gateway.ts): who makes a room's     *)
(* race start, and who makes it go on.                                     *)
(*                                                                         *)
(* Each API process keeps two timers for a room in its memory: the start   *)
(* countdown and the turn deadline.  Messages and expired timers run as    *)
(* handlers that are cut at their awaits; several handlers, of one process *)
(* or of several (RedisIoAdapter), are under way at once.  Of the race only *)
(* its moveSeq is kept: whose turn it is and what a move does to the cars  *)
(* is RaceGame's matter, what members and readiness are made of is         *)
(* RoomStore's.                                                            *)
(***************************************************************************)
EXTENDS Integers

CONSTANTS
    User,
    Proc,           \* API processes
    Handler,        \* slots: as many handlers are under way at once
    Nowhere,        \* where a user is who has no socket in the room
    RaceLength,     \* the move that finishes the last lap of the last player
    MaxLosses       \* bound: handlers that fail at an await and processes that end

ASSUME NowhereAssumption == Nowhere \notin Proc
ASSUME BoundAssumption == RaceLength \in Nat \ {0} /\ MaxLosses \in Nat

None == -1          \* no race in Redis
MoveSeq == 0..(RaceLength - 1)

VARIABLES
    status, members, ready,  \* the room's snapshot
    race,           \* moveSeq of game:{roomId}, or None
    at,             \* user -> process where a socket of his joined the room
    startTimers,    \* processes with a raceStartTimer
    deadline,       \* processes with a turnDeadlineTimer
    handler,        \* slot -> handler
    faults, crashes,
    startCut        \* history: a start ended between storing its race and RACING

room == <<status, members, ready>>
vars == <<status, members, ready, race, at, startTimers, deadline, handler,
          faults, crashes, startCut>>

-----------------------------------------------------------------------------
(* A handler: where it stands, its process, what started it, the moveSeq   *)
(* it works with; whether it was under way when the countdown of its       *)
(* process was set.                                                        *)
Free == [pc |-> "free", proc |-> Nowhere, by |-> "none", seq |-> None, old |-> FALSE]

Enter(h, pc, p, by, seq) ==
    /\ handler[h].pc = "free"
    /\ handler' = [handler EXCEPT ![h] =
          [pc |-> pc, proc |-> p, by |-> by, seq |-> seq, old |-> FALSE]]

Goto(h, pc) == handler' = [handler EXCEPT ![h] = [@ EXCEPT !.pc = pc]]
GotoAt(h, pc, seq) == handler' = [handler EXCEPT ![h] = [@ EXCEPT !.pc = pc, !.seq = seq]]
Leave(h) == handler' = [handler EXCEPT ![h] = Free]

AllReady == members # {} /\ ready = members

Init ==
    /\ status = "WAITING" /\ members = {} /\ ready = {}
    /\ race = None
    /\ at = [u \in User |-> Nowhere]
    /\ startTimers = {}
    /\ deadline = {}
    /\ handler = [h \in Handler |-> Free]
    /\ faults = 0 /\ crashes = 0 /\ startCut = FALSE

-----------------------------------------------------------------------------
(* Sockets. *)

(* POST /rooms or /rooms/join: a user becomes a member, not yet ready. *)
EnterRoom(u) ==
    /\ status = "WAITING"
    /\ u \notin members
    /\ members' = members \cup {u}
    /\ UNCHANGED <<status, ready, race, at, startTimers, deadline, handler, faults, crashes, startCut>>

(* join_room of a member; the client sends it whenever it is connected.    *)
JoinRoom(h, u, p) ==
    /\ u \in members
    /\ at[u] = Nowhere
    /\ at' = [at EXCEPT ![u] = p]
    /\ Enter(h, "resync", p, "join", None)
    /\ UNCHANGED <<room, race, startTimers, deadline, faults, crashes, startCut>>

(* tryResyncAfterJoin reads the race ... *)
ResyncLoad(h) ==
    /\ handler[h].pc = "resync"
    /\ IF race = None THEN Leave(h) ELSE GotoAt(h, "resynced", race)
    /\ UNCHANGED <<room, race, at, startTimers, deadline, faults, crashes, startCut>>

(* Variant: the deadline is left to the process that started the race. *)
ResyncStartsNothing(h) ==
    /\ handler[h].pc = "resynced"
    /\ Leave(h)
    /\ UNCHANGED <<room, race, at, startTimers, deadline, faults, crashes, startCut>>

(* ... and a process that has no deadline for it sets one. *)
Resync(h) ==
    LET p == handler[h].proc IN
    /\ handler[h].pc = "resynced"
    /\ deadline' = deadline \cup {p}
    /\ Leave(h)
    /\ UNCHANGED <<room, race, at, startTimers, faults, crashes, startCut>>

Disconnect(u) ==
    /\ at[u] # Nowhere
    /\ at' = [at EXCEPT ![u] = Nowhere]
    /\ UNCHANGED <<room, race, startTimers, deadline, handler, faults, crashes, startCut>>

-----------------------------------------------------------------------------
(* The start.  The page lets a member who is not ready say so.             *)
PlayerReady(h, u) ==
    /\ at[u] # Nowhere
    /\ u \notin ready
    /\ Enter(h, "ready", at[u], u, None)
    /\ UNCHANGED <<room, race, at, startTimers, deadline, faults, crashes, startCut>>

(* Variant: the readiness before the change decides. *)
MarkReadyBefore(h) ==
    /\ handler[h].pc = "ready"
    /\ IF status = "WAITING"
       THEN /\ ready' = ready \cup {handler[h].by}
            /\ IF ready = members THEN Goto(h, "allReady") ELSE Leave(h)
       ELSE UNCHANGED ready /\ Leave(h)
    /\ UNCHANGED <<status, members, race, at, startTimers, deadline, faults, crashes, startCut>>

(* markPlayerReady, in a room that is WAITING; refused in another. *)
MarkReady(h) ==
    /\ handler[h].pc = "ready"
    /\ IF status = "WAITING"
       THEN /\ ready' = ready \cup {handler[h].by}
            /\ IF ready' = members THEN Goto(h, "allReady") ELSE Leave(h)
       ELSE UNCHANGED ready /\ Leave(h)
    /\ UNCHANGED <<status, members, race, at, startTimers, deadline, faults, crashes, startCut>>

(* All were ready in the snapshot that was written: one countdown per process. *)
StartCountdown(h) ==
    LET p == handler[h].proc IN
    /\ handler[h].pc = "allReady"
    /\ IF p \in startTimers THEN UNCHANGED startTimers /\ Leave(h)
       ELSE /\ startTimers' = startTimers \cup {p}
            /\ handler' = [g \in Handler |->
                  IF g = h THEN Free
                  ELSE [handler[g] EXCEPT !.old = @ \/ handler[g].proc = p]]
    /\ UNCHANGED <<room, race, at, deadline, faults, crashes, startCut>>

(* Timing: the countdown lasts four seconds (RACE_COUNTDOWN_MS), longer    *)
(* than a handler of the same process that it finds under way.             *)
CountdownExpires(h, p) ==
    /\ p \in startTimers
    /\ \A g \in Handler : handler[g].proc = p => ~handler[g].old
    /\ startTimers' = startTimers \ {p}
    /\ Enter(h, "check", p, "countdown", None)
    /\ UNCHANGED <<room, race, at, deadline, faults, crashes, startCut>>

(* Variant: the status is not looked at again. *)
CheckReadyOnly(h) ==
    /\ handler[h].pc = "check"
    /\ IF AllReady THEN Goto(h, "create") ELSE Leave(h)
    /\ UNCHANGED <<room, race, at, startTimers, deadline, faults, crashes, startCut>>

(* finalizeScheduledRaceStart, with the room as it is by then. *)
CheckLobby(h) ==
    /\ handler[h].pc = "check"
    /\ IF status = "WAITING" /\ AllReady THEN Goto(h, "create") ELSE Leave(h)
    /\ UNCHANGED <<room, race, at, startTimers, deadline, faults, crashes, startCut>>

CreateRace(h) ==
    /\ handler[h].pc = "create"
    /\ race' = 0
    /\ Goto(h, "mark")
    /\ UNCHANGED <<room, at, startTimers, deadline, faults, crashes, startCut>>

MarkRacing(h) ==
    /\ handler[h].pc = "mark"
    /\ status' = "RACING"
    /\ Goto(h, "stored")
    /\ UNCHANGED <<members, ready, race, at, startTimers, deadline, faults, crashes, startCut>>

-----------------------------------------------------------------------------
(* Moves.  A member sends the moveSeq that is current when he sends it.    *)
SubmitMove(h, u) ==
    /\ at[u] # Nowhere
    /\ race # None
    /\ Enter(h, "move", at[u], "player", race)
    /\ UNCHANGED <<room, race, at, startTimers, deadline, faults, crashes, startCut>>

DeadlineExpires(h, p) ==
    /\ p \in deadline
    /\ deadline' = deadline \ {p}
    /\ Enter(h, "load", p, "deadline", None)
    /\ UNCHANGED <<room, race, at, startTimers, faults, crashes, startCut>>

(* applyTurnDeadline moves for whoever's turn it finds. *)
DeadlineLoad(h) ==
    /\ handler[h].pc = "load"
    /\ IF race = None THEN Leave(h) ELSE GotoAt(h, "move", race)
    /\ UNCHANGED <<room, race, at, startTimers, deadline, faults, crashes, startCut>>

(* applySubmitMove: the check of the moveSeq, on the race as it is now. *)
ReadRace(h) ==
    /\ handler[h].pc = "move"
    /\ IF race = handler[h].seq THEN Goto(h, "write") ELSE Leave(h)
    /\ UNCHANGED <<room, race, at, startTimers, deadline, faults, crashes, startCut>>

(* Variant: the end of the race goes unnoticed. *)
WriteRaceEndless(h) ==
    /\ handler[h].pc = "write"
    /\ race' = handler[h].seq + 1
    /\ GotoAt(h, "stored", handler[h].seq + 1)
    /\ UNCHANGED <<room, at, startTimers, deadline, faults, crashes, startCut>>

(* The move is made; with the last one the race is deleted. *)
WriteRace(h) ==
    LET next == handler[h].seq + 1 IN
    /\ handler[h].pc = "write"
    /\ IF next < RaceLength THEN race' = next /\ GotoAt(h, "stored", next)
       ELSE race' = None /\ Goto(h, "finish")
    /\ UNCHANGED <<room, at, startTimers, deadline, faults, crashes, startCut>>

MarkFinished(h) ==
    /\ handler[h].pc = "finish"
    /\ status' = "FINISHED"
    /\ Goto(h, "ended")
    /\ UNCHANGED <<members, ready, race, at, startTimers, deadline, faults, crashes, startCut>>

(* scheduleTurnDeadline, after game_start or state_update was emitted.     *)
ScheduleTurnDeadline(h) ==
    /\ handler[h].pc = "stored"
    /\ deadline' = deadline \cup {handler[h].proc}
    /\ Leave(h)
    /\ UNCHANGED <<room, race, at, startTimers, faults, crashes, startCut>>

(* game_end: the process forgets its timers of the room; the deadline's    *)
(* own path leaves the countdown alone.                                    *)
ClearTimers(h) ==
    LET p == handler[h].proc IN
    /\ handler[h].pc = "ended"
    /\ deadline' = deadline \ {p}
    /\ startTimers' = IF handler[h].by = "player" THEN startTimers \ {p} ELSE startTimers
    /\ Leave(h)
    /\ UNCHANGED <<room, race, at, faults, crashes, startCut>>

-----------------------------------------------------------------------------
(* A store or a database refuses a command: the handler logs it and ends.  *)
HandlerFails(h) ==
    /\ handler[h].pc \notin {"free", "resynced", "stored", "ended"}
    /\ faults + crashes < MaxLosses
    /\ faults' = faults + 1
    /\ Leave(h)
    /\ startCut' = (startCut \/ handler[h].pc = "mark")
    /\ UNCHANGED <<room, race, at, startTimers, deadline, crashes>>

(* A process ends, with its timers, its handlers and its sockets. *)
Crash(p) ==
    /\ faults + crashes < MaxLosses
    /\ crashes' = crashes + 1
    /\ at' = [u \in User |-> IF at[u] = p THEN Nowhere ELSE at[u]]
    /\ startTimers' = startTimers \ {p}
    /\ deadline' = deadline \ {p}
    /\ handler' = [h \in Handler |-> IF handler[h].proc = p THEN Free ELSE handler[h]]
    /\ startCut' = (startCut \/ \E h \in Handler :
                        handler[h].proc = p /\ handler[h].pc = "mark")
    /\ UNCHANGED <<room, race, faults>>

Continue(h) ==
    \/ ResyncLoad(h) \/ Resync(h) \/ MarkReady(h) \/ StartCountdown(h)
    \/ CheckLobby(h) \/ CreateRace(h) \/ MarkRacing(h)
    \/ DeadlineLoad(h) \/ ReadRace(h) \/ WriteRace(h) \/ MarkFinished(h)
    \/ ScheduleTurnDeadline(h) \/ ClearTimers(h)

Next ==
    \/ \E u \in User : EnterRoom(u) \/ Disconnect(u)
    \/ \E h \in Handler :
        \/ \E u \in User : \/ PlayerReady(h, u) \/ SubmitMove(h, u)
                           \/ \E p \in Proc : JoinRoom(h, u, p)
        \/ \E p \in Proc : CountdownExpires(h, p) \/ DeadlineExpires(h, p)
        \/ Continue(h) \/ HandlerFails(h)
    \/ \E p \in Proc : Crash(p)

Spec == Init /\ [][Next]_vars

(* Promises settle and timers fire.  A client whose socket is gone connects *)
(* again, for as long as it takes, and then joins its room (game-client.ts: *)
(* reconnectionAttempts Infinity, onConnect).  The slots are the model's:   *)
(* what waits for one gets it.                                              *)
GatewayFairness ==
    /\ \A h \in Handler : WF_vars(Continue(h))
    /\ \A p \in Proc : /\ SF_vars(\E h \in Handler : CountdownExpires(h, p))
                       /\ SF_vars(\E h \in Handler : DeadlineExpires(h, p))
    /\ \A u \in User : SF_vars(\E h \in Handler, p \in Proc : JoinRoom(h, u, p))

FairSpec == Spec /\ GatewayFairness

-----------------------------------------------------------------------------
HandlerState == {"free", "resync", "resynced", "ready", "allReady", "check",
                 "create", "mark", "load", "move", "write", "finish", "stored", "ended"}
HandlerRecord ==
    [pc : HandlerState, proc : Proc \cup {Nowhere},
     by : User \cup {"none", "join", "countdown", "player", "deadline"},
     seq : MoveSeq \cup {None}, old : BOOLEAN]

(* Every variable holds what the code can put there. *)
TypeOK ==
    /\ status \in {"WAITING", "RACING", "FINISHED"}
    /\ ready \subseteq members /\ members \subseteq User
    /\ race \in MoveSeq \cup {None}
    /\ at \in [User -> Proc \cup {Nowhere}]
    /\ startTimers \subseteq Proc
    /\ deadline \subseteq Proc
    /\ handler \in [Handler -> HandlerRecord]
    /\ faults \in Nat /\ crashes \in Nat /\ faults + crashes <= MaxLosses
    /\ startCut \in BOOLEAN

(* A race that was stored stays until its last move, and no other follows  *)
(* it in its room: though members come and get ready while a countdown     *)
(* runs or its start is under way, a process starts the race once, and not *)
(* again before its first move either, unless the start was cut short      *)
(* (onPlayerReady, finalizeScheduledRaceStart).                            *)
StartsOnce ==
    [][\A h \in Handler : CreateRace(h) /\ ~startCut => race = None /\ status = "WAITING"]_vars

(* When everybody is ready the race starts ("all ready -> emit             *)
(* 'game_start'"), though members join and become ready while a countdown  *)
(* runs or has just found somebody missing.                                *)
RaceStarts ==
    status = "WAITING" /\ AllReady
        ~> (status # "WAITING" \/ ~AllReady \/ faults + crashes > 0)

(* No turn lasts for ever, whatever the player does ("auto-submit (0,0) on *)
(* timeout"): the deadline, the move that beat it or, after a restart, the *)
(* first member who comes back sees to it.  A start that was cut short     *)
(* leaves a race in a WAITING room, which may be started again: the end of *)
(* the one race then clears the deadline of the other.                     *)
RaceMovesOn ==
    \A s \in MoveSeq :
        race = s ~> (race # s \/ status = "FINISHED" \/ faults > 0 \/ startCut)
=============================================================================
