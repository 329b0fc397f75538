---------------------------- MODULE GatewayProofs ----------------------------
(***************************************************************************)
(* For every number of users, processes and handlers, and every length of  *)
(* the race: the types, that a process starts a race one handler at a      *)
(* time, and, with one process, that a room's race is started once.        *)
(***************************************************************************)
EXTENDS Gateway, TLAPS

(* What is known of a handler: it runs in a process; who gets ready is a   *)
(* member; a move that passed its load has a place in the race.            *)
HandlerOK(c, who) ==
    /\ c \in HandlerRecord
    /\ c.pc # "free" => c.proc \in Proc
    /\ c.pc = "ready" => c.by \in who
    /\ c.pc \in {"move", "write"} => c.seq \in MoveSeq

RoomOK ==
    /\ status \in {"WAITING", "RACING", "FINISHED"}
    /\ ready \subseteq members /\ members \subseteq User
    /\ race \in MoveSeq \cup {None}
    /\ at \in [User -> Proc \cup {Nowhere}]
    /\ \A u \in User : at[u] # Nowhere => u \in members

TimersOK == startTimers \subseteq Proc /\ deadline \subseteq Proc

LossesOK ==
    /\ faults \in Nat /\ crashes \in Nat /\ faults + crashes <= MaxLosses
    /\ startCut \in BOOLEAN

HandlersOK ==
    /\ handler \in [Handler -> HandlerRecord]
    /\ \A h \in Handler : HandlerOK(handler[h], members)

TypeInv == RoomOK /\ TimersOK /\ LossesOK /\ HandlersOK

-----------------------------------------------------------------------------
(* What starts a race in a process: from its countdown's end to RACING.    *)
Starting == {"check", "create", "mark"}

(* A countdown that runs waits for the start it found under way, so that   *)
(* there is one start at a time.                                           *)
CountdownWaits ==
    \A h \in Handler :
        handler[h].pc \in Starting /\ handler[h].proc \in startTimers => handler[h].old

OneStarts ==
    \A g, h \in Handler :
        /\ handler[g].pc \in Starting /\ handler[h].pc \in Starting
        /\ handler[g].proc = handler[h].proc
        => g = h

Marks == \E h \in Handler : handler[h].pc = "mark"

(* Before its start no race is there, nor a move on the way to one; a      *)
(* start that is about to store it finds the room as it has checked it.    *)
NothingBefore ==
    ~startCut /\ status = "WAITING" /\ ~Marks =>
        /\ race = None
        /\ \A h \in Handler : handler[h].pc \notin {"move", "write", "finish"}

CreatesInTime ==
    ~startCut => \A h \in Handler : handler[h].pc = "create" => status = "WAITING"

StartInv == CountdownWaits /\ OneStarts /\ NothingBefore /\ CreatesInTime
-----------------------------------------------------------------------------
LEMMA FreeOK == \A who : HandlerOK(Free, who)
BY DEF HandlerOK, HandlerRecord, HandlerState, Free

LEMMA SetHandler ==
    ASSUME HandlersOK, NEW h \in Handler, NEW c, HandlerOK(c, members),
           handler' = [handler EXCEPT ![h] = c], members' = members
    PROVE  HandlersOK'
<1>1. c \in HandlerRecord
    BY DEF HandlerOK
<1> QED BY <1>1 DEF HandlersOK

LEMMA LeaveOK ==
    ASSUME HandlersOK, NEW h \in Handler, Leave(h), members' = members
    PROVE  HandlersOK'
BY FreeOK, SetHandler DEF Leave

(* Awaits that carry nothing a later step relies on. *)
LEMMA GotoOK ==
    ASSUME HandlersOK, NEW h \in Handler, handler[h].pc # "free",
           NEW pc \in HandlerState \ {"ready", "move", "write"},
           Goto(h, pc), members' = members
    PROVE  HandlersOK'
<1> DEFINE c == [handler[h] EXCEPT !.pc = pc]
<1>1. HandlerOK(c, members)
    BY DEF HandlersOK, HandlerOK, HandlerRecord
<1>2. handler' = [handler EXCEPT ![h] = c]
    BY DEF Goto, HandlersOK
<1> HIDE DEF c
<1> QED BY <1>1, <1>2, SetHandler

LEMMA GotoAtOK ==
    ASSUME HandlersOK, NEW h \in Handler, handler[h].pc # "free",
           NEW pc \in HandlerState \ {"ready"}, NEW seq \in MoveSeq,
           GotoAt(h, pc, seq), members' = members
    PROVE  HandlersOK'
<1> DEFINE c == [handler[h] EXCEPT !.pc = pc, !.seq = seq]
<1>1. HandlerOK(c, members)
    BY DEF HandlersOK, HandlerOK, HandlerRecord
<1>2. handler' = [handler EXCEPT ![h] = c]
    BY DEF GotoAt, HandlersOK
<1> HIDE DEF c
<1> QED BY <1>1, <1>2, SetHandler

LEMMA EnterOK ==
    ASSUME HandlersOK, NEW h \in Handler, NEW pc \in HandlerState, NEW p \in Proc,
           NEW by \in User \cup {"none", "join", "countdown", "player", "deadline"},
           NEW seq \in MoveSeq \cup {None},
           pc = "ready" => by \in members, pc \in {"move", "write"} => seq \in MoveSeq,
           Enter(h, pc, p, by, seq), members' = members
    PROVE  HandlersOK'
<1> DEFINE c == [pc |-> pc, proc |-> p, by |-> by, seq |-> seq, old |-> FALSE]
<1>1. HandlerOK(c, members)
    BY DEF HandlerOK, HandlerRecord
<1>2. handler' = [handler EXCEPT ![h] = c]
    BY DEF Enter
<1> HIDE DEF c
<1> QED BY <1>1, <1>2, SetHandler

LEMMA InitTypes == Init => TypeInv
<1> SUFFICES ASSUME Init PROVE TypeInv
    OBVIOUS
<1>1. HandlersOK
    <2>1. Free \in HandlerRecord
        BY FreeOK DEF HandlerOK
    <2> QED BY <2>1, FreeOK DEF Init, HandlersOK
<1>2. RoomOK /\ TimersOK /\ startCut \in BOOLEAN
    BY DEF Init, RoomOK, TimersOK
<1>3. faults = 0 /\ crashes = 0
    BY DEF Init
<1> QED BY <1>1, <1>2, <1>3, BoundAssumption DEF TypeInv, LossesOK

(* What each step does to the room, the timers and the losses. *)
LEMMA RestTypes ==
    ASSUME TypeInv, [Next]_vars
    PROVE  RoomOK' /\ TimersOK' /\ LossesOK'
<1> USE DEF TypeInv, RoomOK, TimersOK, LossesOK, room
<1>1. ASSUME NEW u \in User, EnterRoom(u) \/ Disconnect(u)
      PROVE  RoomOK' /\ TimersOK' /\ LossesOK'
    BY <1>1, NowhereAssumption DEF EnterRoom, Disconnect
<1>2. ASSUME NEW h \in Handler, NEW u \in User,
             \/ PlayerReady(h, u) \/ SubmitMove(h, u)
             \/ \E p \in Proc : JoinRoom(h, u, p)
      PROVE  RoomOK' /\ TimersOK' /\ LossesOK'
    BY <1>2 DEF PlayerReady, SubmitMove, JoinRoom
<1>3. ASSUME NEW h \in Handler, NEW p \in Proc, CountdownExpires(h, p) \/ DeadlineExpires(h, p)
      PROVE  RoomOK' /\ TimersOK' /\ LossesOK'
    BY <1>3 DEF CountdownExpires, DeadlineExpires
<1>4. ASSUME NEW h \in Handler, Continue(h)
      PROVE  RoomOK' /\ TimersOK' /\ LossesOK'
    <2>1. HandlerOK(handler[h], members)
        BY DEF HandlersOK
    <2>2. CASE ResyncLoad(h) \/ Resync(h) \/ StartCountdown(h) \/ CheckLobby(h)
        BY <2>1, <2>2 DEF HandlerOK, ResyncLoad, Resync, StartCountdown, CheckLobby
    <2>3. CASE MarkReady(h)
        BY <2>1, <2>3 DEF HandlerOK, MarkReady
    <2>4. CASE CreateRace(h) \/ MarkRacing(h) \/ MarkFinished(h)
        BY <2>4, BoundAssumption DEF CreateRace, MarkRacing, MarkFinished, MoveSeq
    <2>5. CASE DeadlineLoad(h) \/ ReadRace(h)
        BY <2>5 DEF DeadlineLoad, ReadRace
    <2>6. CASE WriteRace(h)
        BY <2>1, <2>6, BoundAssumption DEF HandlerOK, WriteRace, MoveSeq
    <2>7. CASE ScheduleTurnDeadline(h) \/ ClearTimers(h)
        BY <2>1, <2>7 DEF HandlerOK, ScheduleTurnDeadline, ClearTimers
    <2> QED BY <1>4, <2>2, <2>3, <2>4, <2>5, <2>6, <2>7 DEF Continue
<1>5. ASSUME NEW h \in Handler, HandlerFails(h)
      PROVE  RoomOK' /\ TimersOK' /\ LossesOK'
    <2>1. UNCHANGED <<room, race, at, startTimers, deadline, crashes>>
          /\ faults' = faults + 1 /\ faults + crashes < MaxLosses
        BY <1>5 DEF HandlerFails
    <2>2. startCut' \in BOOLEAN
        BY <1>5 DEF HandlerFails
    <2> QED BY <2>1, <2>2, BoundAssumption
<1>6. ASSUME NEW p \in Proc, Crash(p)
      PROVE  RoomOK' /\ TimersOK' /\ LossesOK'
    <2>1. UNCHANGED <<room, race, faults>>
          /\ crashes' = crashes + 1 /\ faults + crashes < MaxLosses
        BY <1>6 DEF Crash
    <2>2. startCut' \in BOOLEAN
        BY <1>6 DEF Crash
    <2>3. at' \in [User -> Proc \cup {Nowhere}]
          /\ \A u \in User : at'[u] # Nowhere => at[u] # Nowhere
        BY <1>6 DEF Crash
    <2>4. startTimers' \subseteq Proc /\ deadline' \subseteq Proc
        BY <1>6 DEF Crash
    <2> QED BY <2>1, <2>2, <2>3, <2>4, BoundAssumption
<1>7. CASE UNCHANGED vars
    BY <1>7 DEF vars
<1> QED BY <1>1, <1>2, <1>3, <1>4, <1>5, <1>6, <1>7 DEF Next

LEMMA HandlerTypes ==
    ASSUME TypeInv, [Next]_vars
    PROVE  HandlersOK'
<1> USE DEF TypeInv, room
<1>1. ASSUME NEW u \in User, EnterRoom(u) \/ Disconnect(u)
      PROVE  HandlersOK'
    BY <1>1 DEF EnterRoom, Disconnect, HandlersOK, HandlerOK
<1>2. ASSUME NEW h \in Handler, NEW u \in User,
             \/ PlayerReady(h, u) \/ SubmitMove(h, u)
             \/ \E p \in Proc : JoinRoom(h, u, p)
      PROVE  HandlersOK'
    <2>1. at[u] \in Proc \cup {Nowhere} /\ (at[u] # Nowhere => u \in members)
        BY DEF RoomOK
    <2>2. CASE PlayerReady(h, u)
        BY <2>1, <2>2, EnterOK DEF PlayerReady, HandlerState
    <2>3. CASE SubmitMove(h, u)
        BY <2>1, <2>3, EnterOK DEF SubmitMove, HandlerState, RoomOK
    <2>4. CASE \E p \in Proc : JoinRoom(h, u, p)
        BY <2>4, EnterOK DEF JoinRoom, HandlerState
    <2> QED BY <1>2, <2>2, <2>3, <2>4
<1>3. ASSUME NEW h \in Handler, NEW p \in Proc, CountdownExpires(h, p) \/ DeadlineExpires(h, p)
      PROVE  HandlersOK'
    BY <1>3, EnterOK DEF CountdownExpires, DeadlineExpires, HandlerState
<1>4. ASSUME NEW h \in Handler, Continue(h)
      PROVE  HandlersOK'
    <2>1. HandlerOK(handler[h], members) /\ race \in MoveSeq \cup {None}
        BY DEF HandlersOK, RoomOK
    <2>2. CASE ResyncLoad(h) \/ DeadlineLoad(h)
        BY <2>1, <2>2, LeaveOK, GotoAtOK DEF ResyncLoad, DeadlineLoad, HandlerState
    <2>3. CASE Resync(h) \/ ScheduleTurnDeadline(h) \/ ClearTimers(h)
        BY <2>3, LeaveOK DEF Resync, ScheduleTurnDeadline, ClearTimers
    <2>4. CASE MarkReady(h) \/ CheckLobby(h) \/ CreateRace(h) \/ MarkRacing(h) \/ MarkFinished(h)
        BY <2>4, LeaveOK, GotoOK
           DEF MarkReady, CheckLobby, CreateRace, MarkRacing, MarkFinished, HandlerState
    <2>5. CASE StartCountdown(h)
        <3>1. CASE Leave(h)
            BY <2>5, <3>1, LeaveOK DEF StartCountdown
        <3>2. CASE ~Leave(h)
            <4>1. handler' = [g \in Handler |->
                     IF g = h THEN Free
                     ELSE [handler[g] EXCEPT !.old = @ \/ handler[g].proc = handler[h].proc]]
                BY <2>5, <3>2 DEF StartCountdown
            <4>2. \A g \in Handler : \A b \in BOOLEAN :
                     HandlerOK([handler[g] EXCEPT !.old = b], members)
                BY DEF HandlersOK, HandlerOK, HandlerRecord
            <4>3. \A g \in Handler : HandlerOK(handler'[g], members)
                BY <4>1, <4>2, FreeOK
            <4>4. \A g \in Handler : handler'[g] \in HandlerRecord
                BY <4>3 DEF HandlerOK
            <4> QED BY <2>5, <4>1, <4>3, <4>4 DEF StartCountdown, HandlersOK
        <3> QED BY <3>1, <3>2
    <2>6. CASE ReadRace(h)
        <3>1. CASE Leave(h)
            BY <2>6, <3>1, LeaveOK DEF ReadRace
        <3>2. CASE Goto(h, "write")
            <4> DEFINE c == [handler[h] EXCEPT !.pc = "write"]
            <4>1. HandlerOK(c, members)
                BY <2>1, <2>6 DEF ReadRace, HandlerOK, HandlerRecord, HandlerState
            <4>2. handler' = [handler EXCEPT ![h] = c]
                BY <3>2 DEF Goto, HandlersOK
            <4> HIDE DEF c
            <4> QED BY <2>6, <4>1, <4>2, SetHandler DEF ReadRace
        <3> QED BY <2>6, <3>1, <3>2 DEF ReadRace
    <2>7. CASE WriteRace(h)
        <3>1. handler[h].seq \in MoveSeq /\ handler[h].pc = "write"
            BY <2>1, <2>7 DEF WriteRace, HandlerOK
        <3>2. CASE handler[h].seq + 1 < RaceLength
            <4>1. handler[h].seq + 1 \in MoveSeq
                BY <3>1, <3>2, BoundAssumption DEF MoveSeq
            <4> QED BY <2>7, <3>1, <3>2, <4>1, GotoAtOK DEF WriteRace, HandlerState
        <3>3. CASE ~(handler[h].seq + 1 < RaceLength)
            BY <2>7, <3>1, <3>3, GotoOK DEF WriteRace, HandlerState
        <3> QED BY <3>2, <3>3
    <2> QED BY <1>4, <2>2, <2>3, <2>4, <2>5, <2>6, <2>7 DEF Continue
<1>5. ASSUME NEW h \in Handler, HandlerFails(h)
      PROVE  HandlersOK'
    BY <1>5, LeaveOK DEF HandlerFails
<1>6. ASSUME NEW p \in Proc, Crash(p)
      PROVE  HandlersOK'
    <2>1. \A h \in Handler : handler'[h] = Free \/ handler'[h] = handler[h]
        BY <1>6 DEF Crash
    <2>2. \A h \in Handler : HandlerOK(handler'[h], members)
        BY <2>1, FreeOK DEF HandlersOK
    <2>3. \A h \in Handler : handler'[h] \in HandlerRecord
        BY <2>2 DEF HandlerOK
    <2>4. handler' = [h \in Handler |-> handler'[h]] /\ members' = members
        BY <1>6 DEF Crash
    <2> QED BY <2>2, <2>3, <2>4 DEF HandlersOK
<1>7. CASE UNCHANGED vars
    BY <1>7 DEF vars, HandlersOK
<1> QED BY <1>1, <1>2, <1>3, <1>4, <1>5, <1>6, <1>7 DEF Next

LEMMA TypesHold == Spec => []TypeInv
BY InitTypes, RestTypes, HandlerTypes, PTL DEF Spec, TypeInv

(* The room, the timers and the handlers keep their types; the race stays  *)
(* within its length, whoever moves and however late (game.gateway.ts).    *)
THEOREM TypeCorrect == Spec => []TypeOK
<1>1. TypeInv => TypeOK
    BY DEF TypeInv, RoomOK, TimersOK, LossesOK, HandlersOK, TypeOK
<1> QED BY <1>1, TypesHold, PTL
-----------------------------------------------------------------------------
(* What a step makes of one handler, as far as starts and moves go: a      *)
(* countdown of its process may be set meanwhile, or it takes a step on    *)
(* the way of a start or of a move, or it is at neither.                   *)
Elsewhere(c) == c.pc \notin Starting \cup {"move", "write", "finish"}

Advances(h, from, to) ==
    /\ handler[h].pc = from /\ handler'[h].pc = to
    /\ handler'[h].proc = handler[h].proc /\ handler'[h].old = handler[h].old

LEMMA GotoStep ==
    ASSUME HandlersOK, NEW h \in Handler, NEW pc
    PROVE  /\ Goto(h, pc) => /\ handler'[h].pc = pc
                             /\ handler'[h].proc = handler[h].proc
                             /\ handler'[h].old = handler[h].old
           /\ \A seq : GotoAt(h, pc, seq) => /\ handler'[h].pc = pc
                                            /\ handler'[h].proc = handler[h].proc
                                            /\ handler'[h].old = handler[h].old
           /\ Leave(h) => handler'[h] = Free
<1> DEFINE c == handler[h]
<1>1. c \in HandlerRecord /\ handler \in [Handler -> HandlerRecord]
    BY DEF HandlersOK
<1>2. /\ [c EXCEPT !.pc = pc].pc = pc
      /\ [c EXCEPT !.pc = pc].proc = c.proc
      /\ [c EXCEPT !.pc = pc].old = c.old
    BY <1>1 DEF HandlerRecord
<1>3. \A seq : /\ [c EXCEPT !.pc = pc, !.seq = seq].pc = pc
                /\ [c EXCEPT !.pc = pc, !.seq = seq].proc = c.proc
                /\ [c EXCEPT !.pc = pc, !.seq = seq].old = c.old
    BY <1>1 DEF HandlerRecord
<1>4. Goto(h, pc) => handler'[h] = [c EXCEPT !.pc = pc]
    BY <1>1 DEF Goto
<1>5. ASSUME NEW seq
      PROVE  GotoAt(h, pc, seq) => handler'[h] = [c EXCEPT !.pc = pc, !.seq = seq]
    <2> DEFINE d == [c EXCEPT !.pc = pc, !.seq = seq]
    <2>1. GotoAt(h, pc, seq) => handler' = [handler EXCEPT ![h] = d]
        BY DEF GotoAt
    <2>2. handler \in [Handler -> HandlerRecord]
        BY <1>1
    <2> HIDE DEF d, c, HandlersOK
    <2>3. GotoAt(h, pc, seq) => handler'[h] = d
        BY <2>1, <2>2
    <2> QED BY <2>3 DEF d
<1>6. Leave(h) => handler'[h] = Free
    BY <1>1 DEF Leave
<1>7. ASSUME NEW seq, GotoAt(h, pc, seq)
      PROVE  /\ handler'[h].pc = pc /\ handler'[h].proc = c.proc
             /\ handler'[h].old = c.old
    <2>1. handler'[h] = [c EXCEPT !.pc = pc, !.seq = seq]
        BY <1>5, <1>7
    <2>2. /\ [c EXCEPT !.pc = pc, !.seq = seq].pc = pc
          /\ [c EXCEPT !.pc = pc, !.seq = seq].proc = c.proc
          /\ [c EXCEPT !.pc = pc, !.seq = seq].old = c.old
        BY <1>3
    <2> QED BY <2>1, <2>2
<1>8. Goto(h, pc) => /\ handler'[h].pc = pc /\ handler'[h].proc = c.proc
                     /\ handler'[h].old = c.old
    BY <1>2, <1>4
<1> HIDE DEF Goto, GotoAt, Leave
<1> QED BY <1>6, <1>7, <1>8

LEMMA HandlerSteps ==
    ASSUME TypeInv, [Next]_vars, NEW h \in Handler
    PROVE  \/ handler'[h] = handler[h]
           \/ Elsewhere(handler'[h])
           \/ \E g \in Handler : /\ StartCountdown(g) /\ g # h
                                 /\ handler[g].proc \notin startTimers
                                 /\ handler'[h].pc = handler[h].pc
                                 /\ handler'[h].proc = handler[h].proc
                                 /\ handler'[h].old = (handler[h].old \/ handler[h].proc = handler[g].proc)
           \/ \E p \in Proc : CountdownExpires(h, p) /\ handler'[h].pc = "check"
                              /\ handler'[h].proc = p
           \/ CheckLobby(h) /\ Advances(h, "check", "create")
           \/ CreateRace(h) /\ Advances(h, "create", "mark")
           \/ ReadRace(h) /\ Advances(h, "move", "write")
           \/ WriteRace(h) /\ Advances(h, "write", "finish")
           \/ handler'[h].pc = "move" /\ race # None
<1>0. handler \in [Handler -> HandlerRecord] /\ \A g \in Handler : handler[g] \in HandlerRecord
    BY DEF TypeInv, HandlersOK
<1> USE <1>0 DEF Elsewhere, Starting, Free
<1>1. ASSUME NEW g \in Handler, g # h, Continue(g), ~StartCountdown(g)
      PROVE  handler'[h] = handler[h]
    BY <1>1 DEF Continue, ResyncLoad, Resync, MarkReady, CheckLobby, CreateRace, MarkRacing,
       DeadlineLoad, ReadRace, WriteRace, MarkFinished, ScheduleTurnDeadline, ClearTimers,
       Goto, GotoAt, Leave
<1>2. ASSUME NEW g \in Handler, g # h, HandlerFails(g)
             \/ (\E u \in User : \/ PlayerReady(g, u) \/ SubmitMove(g, u)
                                 \/ \E p \in Proc : JoinRoom(g, u, p))
             \/ (\E p \in Proc : CountdownExpires(g, p) \/ DeadlineExpires(g, p))
      PROVE  handler'[h] = handler[h]
    BY <1>2 DEF HandlerFails, Leave, PlayerReady, SubmitMove, JoinRoom, CountdownExpires,
       DeadlineExpires, Enter
<1>3. ASSUME NEW u \in User, EnterRoom(u) \/ Disconnect(u)
      PROVE  handler'[h] = handler[h]
    BY <1>3 DEF EnterRoom, Disconnect
<1>4. ASSUME NEW p \in Proc, Crash(p)
      PROVE  handler'[h] = handler[h] \/ Elsewhere(handler'[h])
    BY <1>4 DEF Crash
<1>5. ASSUME NEW g \in Handler, StartCountdown(g)
      PROVE  \/ handler'[h] = handler[h]
             \/ Elsewhere(handler'[h])
             \/ /\ g # h /\ handler[g].proc \notin startTimers
                /\ handler'[h].pc = handler[h].pc
                /\ handler'[h].proc = handler[h].proc
                /\ handler'[h].old = (handler[h].old \/ handler[h].proc = handler[g].proc)
    <2>1. CASE handler[g].proc \in startTimers
        BY <1>5, <2>1 DEF StartCountdown, Leave
    <2>2. CASE handler[g].proc \notin startTimers
        <3>1. handler'[h] = IF h = g THEN Free
                            ELSE [handler[h] EXCEPT !.old = @ \/ handler[h].proc = handler[g].proc]
            BY <1>5, <2>2 DEF StartCountdown
        <3>2. CASE h = g
            BY <3>1, <3>2
        <3>3. CASE h # g
            <4> DEFINE b == (handler[h].old \/ handler[h].proc = handler[g].proc)
            <4> HIDE DEF b
            <4>1. handler'[h] = [handler[h] EXCEPT !.old = b]
                BY <3>1, <3>3 DEF b
            <4>2. /\ handler'[h].pc = handler[h].pc
                  /\ handler'[h].proc = handler[h].proc
                  /\ handler'[h].old = b
                BY <4>1 DEF HandlerRecord
            <4> QED BY <2>2, <3>3, <4>2 DEF b
        <3> QED BY <3>2, <3>3
    <2> QED BY <2>1, <2>2
<1>6. HandlersOK
    BY DEF TypeInv
<1>7. ASSUME \/ HandlerFails(h) \/ Resync(h) \/ MarkReady(h) \/ MarkRacing(h)
             \/ MarkFinished(h) \/ ScheduleTurnDeadline(h) \/ ClearTimers(h)
             \/ ResyncLoad(h)
      PROVE  Elsewhere(handler'[h])
    BY <1>6, <1>7, GotoStep DEF HandlerFails, ResyncLoad, Resync, MarkReady, MarkRacing,
       MarkFinished, ScheduleTurnDeadline, ClearTimers
<1>8. CheckLobby(h) => Elsewhere(handler'[h]) \/ Advances(h, "check", "create")
    BY <1>6, GotoStep DEF CheckLobby, Advances
<1>9. CreateRace(h) => Advances(h, "create", "mark")
    BY <1>6, GotoStep DEF CreateRace, Advances
<1>10. /\ ReadRace(h) => Elsewhere(handler'[h]) \/ Advances(h, "move", "write")
       /\ WriteRace(h) => Elsewhere(handler'[h]) \/ Advances(h, "write", "finish")
    BY <1>6, GotoStep DEF ReadRace, WriteRace, Advances
<1>11. DeadlineLoad(h) => Elsewhere(handler'[h]) \/ (handler'[h].pc = "move" /\ race # None)
    <2>1. GotoAt(h, "move", race) => handler'[h].pc = "move"
        BY <1>6, GotoStep
    <2> QED BY <1>6, <2>1, GotoStep DEF DeadlineLoad
<1>12. ASSUME NEW u \in User, SubmitMove(h, u)
       PROVE  handler'[h].pc = "move" /\ race # None
    BY <1>12 DEF SubmitMove, Enter
<1>13. ASSUME \/ \E u \in User : PlayerReady(h, u) \/ \E p \in Proc : JoinRoom(h, u, p)
              \/ \E p \in Proc : DeadlineExpires(h, p)
       PROVE  Elsewhere(handler'[h])
    BY <1>13 DEF PlayerReady, JoinRoom, DeadlineExpires, Enter
<1>14. ASSUME NEW p \in Proc, CountdownExpires(h, p)
       PROVE  handler'[h].pc = "check" /\ handler'[h].proc = p
    BY <1>14 DEF CountdownExpires, Enter
<1>15. UNCHANGED vars => handler'[h] = handler[h]
    BY DEF vars
<1> HIDE DEF Elsewhere, Starting, Free
<1>16. ASSUME NEW g \in Handler, Continue(g) \/ HandlerFails(g)
             \/ (\E u \in User : \/ PlayerReady(g, u) \/ SubmitMove(g, u)
                                 \/ \E p \in Proc : JoinRoom(g, u, p))
             \/ (\E p \in Proc : CountdownExpires(g, p) \/ DeadlineExpires(g, p)),
             g # h, ~StartCountdown(g)
      PROVE  handler'[h] = handler[h]
    BY <1>1, <1>2, <1>16
<1>17. CASE \/ Continue(h) \/ HandlerFails(h)
            \/ (\E u \in User : \/ PlayerReady(h, u) \/ SubmitMove(h, u)
                                \/ \E p \in Proc : JoinRoom(h, u, p))
            \/ (\E p \in Proc : CountdownExpires(h, p) \/ DeadlineExpires(h, p))
    BY <1>5, <1>7, <1>8, <1>9, <1>10, <1>11, <1>12, <1>14, <1>17, <1>13 DEF Continue
<1> QED BY <1>3, <1>4, <1>5, <1>15, <1>16, <1>17 DEF Next, Continue

(* A countdown that is set finds old whatever is under way in its process. *)
LEMMA CountdownSteps ==
    ASSUME TypeInv, NEW g \in Handler, StartCountdown(g), NEW h \in Handler,
           handler[g].proc \notin startTimers
    PROVE  \/ Elsewhere(handler'[h])
           \/ /\ handler'[h].pc = handler[h].pc
              /\ handler'[h].proc = handler[h].proc
              /\ handler'[h].old = (handler[h].old \/ handler[h].proc = handler[g].proc)
<1>1. CASE h = g
    <2>1. handler'[h] = Free
        BY <1>1 DEF StartCountdown
    <2> QED BY <2>1 DEF Free, Elsewhere, Starting
<1>2. CASE h # g
    <2> DEFINE b == (handler[h].old \/ handler[h].proc = handler[g].proc)
    <2>1. handler[h] \in HandlerRecord
        BY DEF TypeInv, HandlersOK
    <2> HIDE DEF b
    <2>2. handler'[h] = [handler[h] EXCEPT !.old = b]
        BY <1>2 DEF StartCountdown, b
    <2>3. /\ handler'[h].pc = handler[h].pc /\ handler'[h].proc = handler[h].proc
          /\ handler'[h].old = b
        BY <2>1, <2>2 DEF HandlerRecord
    <2> QED BY <2>3 DEF b
<1> QED BY <1>1, <1>2

LEMMA RoomSteps ==
    ASSUME TypeInv, [Next]_vars
    PROVE  /\ \/ startTimers' \subseteq startTimers
              \/ \E g \in Handler : /\ StartCountdown(g)
                                    /\ handler[g].proc \notin startTimers
                                    /\ startTimers' = startTimers \cup {handler[g].proc}
           /\ race' = race \/ \E h \in Handler : CreateRace(h) \/ WriteRace(h)
           /\ status' = status \/ \E h \in Handler : MarkRacing(h) \/ MarkFinished(h)
           /\ startCut => startCut'
<1>1. ASSUME NEW h \in Handler, Continue(h)
      PROVE  /\ \/ startTimers' \subseteq startTimers
                \/ /\ StartCountdown(h) /\ handler[h].proc \notin startTimers
                   /\ startTimers' = startTimers \cup {handler[h].proc}
             /\ race' = race \/ CreateRace(h) \/ WriteRace(h)
             /\ status' = status \/ MarkRacing(h) \/ MarkFinished(h)
             /\ startCut' = startCut
    BY <1>1 DEF Continue, ResyncLoad, Resync, MarkReady, CheckLobby, CreateRace, MarkRacing,
       DeadlineLoad, ReadRace, WriteRace, MarkFinished, ScheduleTurnDeadline, ClearTimers,
       StartCountdown, room
<1>2. ASSUME \/ \E u \in User : EnterRoom(u) \/ Disconnect(u)
             \/ \E h \in Handler :
                   \/ \E u \in User : \/ PlayerReady(h, u) \/ SubmitMove(h, u)
                                      \/ \E p \in Proc : JoinRoom(h, u, p)
                   \/ \E p \in Proc : CountdownExpires(h, p) \/ DeadlineExpires(h, p)
             \/ UNCHANGED vars
      PROVE  /\ startTimers' \subseteq startTimers
             /\ race' = race /\ status' = status /\ startCut' = startCut
    BY <1>2 DEF EnterRoom, Disconnect, PlayerReady, SubmitMove, JoinRoom, CountdownExpires,
       DeadlineExpires, vars, room
<1>3. ASSUME (\E h \in Handler : HandlerFails(h)) \/ (\E p \in Proc : Crash(p))
      PROVE  /\ startTimers' \subseteq startTimers
             /\ race' = race /\ status' = status /\ (startCut => startCut')
    BY <1>3 DEF HandlerFails, Crash, room
<1> QED BY <1>1, <1>2, <1>3 DEF Next

(* A handler that starts a race did so before, or its countdown has just   *)
(* expired.                                                                *)
LEMMA StartingBefore ==
    ASSUME TypeInv, [Next]_vars, NEW h \in Handler, handler'[h].pc \in Starting
    PROVE  \/ handler[h].pc \in Starting /\ handler'[h].proc = handler[h].proc
           \/ CountdownExpires(h, handler'[h].proc)
<1>1. ~Elsewhere(handler'[h])
    BY DEF Elsewhere
<1>2. "move" \notin Starting /\ "write" \notin Starting /\ "finish" \notin Starting
      /\ "check" \in Starting /\ "create" \in Starting
    BY DEF Starting
<1> QED BY <1>1, <1>2, HandlerSteps DEF Advances

LEMMA WaitsStep ==
    ASSUME TypeInv, CountdownWaits, [Next]_vars
    PROVE  CountdownWaits'
<1> SUFFICES ASSUME NEW h \in Handler, handler'[h].pc \in Starting,
                    handler'[h].proc \in startTimers'
             PROVE  handler'[h].old
    BY DEF CountdownWaits
<1>1. ~Elsewhere(handler'[h])
    BY DEF Elsewhere
<1>2. CASE startTimers' \subseteq startTimers
    <2>1. ASSUME NEW p \in Proc, CountdownExpires(h, p), handler'[h].proc = p PROVE FALSE
        BY <2>1 DEF CountdownExpires
    <2>2. ASSUME NEW g \in Handler, StartCountdown(g), handler[g].proc \notin startTimers
          PROVE  FALSE
        BY <1>2, <2>2 DEF StartCountdown
    <2>3. /\ handler[h].pc \in Starting /\ handler'[h].proc = handler[h].proc
          /\ handler'[h].old = handler[h].old
        <3>1. "move" \notin Starting /\ "write" \notin Starting /\ "finish" \notin Starting
              /\ "check" \in Starting /\ "create" \in Starting
            BY DEF Starting
        <3>2. handler'[h].pc \notin {"move", "write", "finish"}
            BY <3>1
        <3>3. \/ handler'[h] = handler[h]
              \/ Advances(h, "check", "create") \/ Advances(h, "create", "mark")
            BY <1>1, <2>1, <2>2, <3>2, HandlerSteps DEF Advances
        <3> QED BY <3>1, <3>3 DEF Advances
    <2> QED BY <1>2, <2>3 DEF CountdownWaits
<1>3. ASSUME NEW g \in Handler, StartCountdown(g), handler[g].proc \notin startTimers,
             startTimers' = startTimers \cup {handler[g].proc}
      PROVE  handler'[h].old
    <2>1. /\ handler'[h].pc = handler[h].pc /\ handler'[h].proc = handler[h].proc
          /\ handler'[h].old = (handler[h].old \/ handler[h].proc = handler[g].proc)
        BY <1>1, <1>3, CountdownSteps
    <2>2. CASE handler[h].proc = handler[g].proc
        BY <2>1, <2>2
    <2>3. CASE handler[h].proc # handler[g].proc
        <3>1. handler[h].proc \in startTimers
            BY <1>3, <2>1, <2>3
        <3> QED BY <2>1, <2>3, <3>1 DEF CountdownWaits
    <2> QED BY <2>2, <2>3
<1> QED BY <1>2, <1>3, RoomSteps
LEMMA OneStartsStep ==
    ASSUME TypeInv, CountdownWaits, OneStarts, [Next]_vars
    PROVE  OneStarts'
<1> SUFFICES ASSUME NEW g \in Handler, NEW h \in Handler, g # h,
                    handler'[g].pc \in Starting, handler'[h].pc \in Starting,
                    handler'[g].proc = handler'[h].proc
             PROVE  FALSE
    BY DEF OneStarts
<1>1. /\ \/ handler[g].pc \in Starting /\ handler'[g].proc = handler[g].proc
         \/ CountdownExpires(g, handler'[g].proc)
      /\ \/ handler[h].pc \in Starting /\ handler'[h].proc = handler[h].proc
         \/ CountdownExpires(h, handler'[h].proc)
    BY StartingBefore
<1>2. ASSUME NEW x \in Handler, NEW y \in Handler, x # y, NEW p,
             CountdownExpires(x, p), handler'[y].pc \in Starting, handler'[y].proc = p,
             handler[y].pc \in Starting \/ CountdownExpires(y, p)
      PROVE  FALSE
    <2>1. handler'[y] = handler[y] /\ handler \in [Handler -> HandlerRecord]
        BY <1>2 DEF CountdownExpires, Enter, TypeInv, HandlersOK
    <2>2. handler'[x].pc = "check"
        BY <1>2, <2>1 DEF CountdownExpires, Enter
    <2>3. ~CountdownExpires(y, p)
        BY <1>2, <2>1 DEF CountdownExpires, Enter, Starting
    <2>4. p \in startTimers /\ ~handler[y].old
        BY <1>2, <2>1 DEF CountdownExpires
    <2> QED BY <1>2, <2>1, <2>3, <2>4 DEF CountdownWaits
<1>3. CASE handler[g].pc \in Starting /\ handler[h].pc \in Starting
           /\ handler'[g].proc = handler[g].proc /\ handler'[h].proc = handler[h].proc
    BY <1>3 DEF OneStarts
<1> QED BY <1>1, <1>2, <1>3

(* A start that stored its race goes on to RACING, or it is cut short. *)
LEMMA MarkSteps ==
    ASSUME TypeInv, [Next]_vars, NEW h \in Handler, handler[h].pc = "mark"
    PROVE  handler'[h].pc = "mark" \/ MarkRacing(h) \/ startCut'
<1>0. handler \in [Handler -> HandlerRecord]
    BY DEF TypeInv, HandlersOK
<1>1. ASSUME NEW g \in Handler, Continue(g)
      PROVE  handler'[h].pc = "mark" \/ MarkRacing(h)
    <2>1. CASE g = h
        BY <1>1, <2>1 DEF Continue, ResyncLoad, Resync, MarkReady, StartCountdown, CheckLobby,
           CreateRace, DeadlineLoad, ReadRace, WriteRace, MarkFinished, ScheduleTurnDeadline,
           ClearTimers
    <2>2. CASE g # h /\ StartCountdown(g) /\ handler[g].proc \notin startTimers
        <3>1. handler'[h] = [handler[h] EXCEPT !.old = @ \/ handler[h].proc = handler[g].proc]
            BY <2>2 DEF StartCountdown
        <3> QED BY <1>0, <3>1 DEF HandlerRecord
    <2>3. CASE g # h /\ ~(StartCountdown(g) /\ handler[g].proc \notin startTimers)
        BY <1>0, <1>1, <2>3 DEF Continue, ResyncLoad, Resync, MarkReady, StartCountdown,
           CheckLobby, CreateRace, MarkRacing, DeadlineLoad, ReadRace, WriteRace, MarkFinished,
           ScheduleTurnDeadline, ClearTimers, Goto, GotoAt, Leave
    <2> QED BY <2>1, <2>2, <2>3
<1>2. ASSUME \/ \E u \in User : EnterRoom(u) \/ Disconnect(u)
             \/ \E g \in Handler :
                   \/ \E u \in User : \/ PlayerReady(g, u) \/ SubmitMove(g, u)
                                      \/ \E p \in Proc : JoinRoom(g, u, p)
                   \/ \E p \in Proc : CountdownExpires(g, p) \/ DeadlineExpires(g, p)
             \/ UNCHANGED vars
      PROVE  handler'[h] = handler[h]
    BY <1>0, <1>2 DEF EnterRoom, Disconnect, PlayerReady, SubmitMove, JoinRoom,
       CountdownExpires, DeadlineExpires, Enter, vars
<1>3. ASSUME NEW g \in Handler, HandlerFails(g)
      PROVE  handler'[h].pc = "mark" \/ startCut'
    BY <1>0, <1>3 DEF HandlerFails, Leave
<1>4. ASSUME NEW p \in Proc, Crash(p)
      PROVE  handler'[h].pc = "mark" \/ startCut'
    BY <1>0, <1>4 DEF Crash
<1> QED BY <1>1, <1>2, <1>3, <1>4 DEF Next

LEMMA NothingBeforeStep ==
    ASSUME TypeInv, NothingBefore, [Next]_vars
    PROVE  NothingBefore'
<1> SUFFICES ASSUME ~startCut', status' = "WAITING", ~Marks'
             PROVE  /\ race' = None
                    /\ \A h \in Handler : handler'[h].pc \notin {"move", "write", "finish"}
    BY DEF NothingBefore
<1>1. ~startCut /\ status = "WAITING"
    BY RoomSteps DEF MarkRacing, MarkFinished
<1>2. ~Marks
    <2>1. ASSUME NEW h \in Handler, handler[h].pc = "mark" PROVE FALSE
        <3>1. MarkRacing(h)
            BY <2>1, MarkSteps DEF Marks
        <3> QED BY <3>1 DEF MarkRacing
    <2> QED BY <2>1 DEF Marks
<1>3. race = None /\ \A h \in Handler : handler[h].pc \notin {"move", "write", "finish"}
    BY <1>1, <1>2 DEF NothingBefore
<1>4. race' = None
    <2>1. ASSUME NEW h \in Handler, CreateRace(h) PROVE FALSE
        BY <2>1, GotoStep DEF CreateRace, Marks, TypeInv
    <2>2. ASSUME NEW h \in Handler, WriteRace(h) PROVE FALSE
        BY <1>3, <2>2 DEF WriteRace
    <2> QED BY <1>3, <2>1, <2>2, RoomSteps
<1>5. ASSUME NEW h \in Handler, handler'[h].pc \in {"move", "write", "finish"}
      PROVE  FALSE
    <2>1. ~Elsewhere(handler'[h]) /\ handler'[h].pc # handler[h].pc
          /\ handler'[h].pc \notin {"check", "create", "mark"}
        BY <1>3, <1>5 DEF Elsewhere
    <2> QED BY <1>3, <2>1, HandlerSteps DEF Advances
<1> QED BY <1>4, <1>5
-----------------------------------------------------------------------------
(* The countdowns are in the memory of their processes: only one process   *)
(* is sure to run one at a time.                                           *)
OneProcess == \A p, q \in Proc : p = q

LEMMA OneAtAll ==
    ASSUME OneProcess, TypeInv, OneStarts, NEW g \in Handler, NEW h \in Handler,
           handler[g].pc \in Starting, handler[h].pc \in Starting
    PROVE  g = h
<1>1. handler[g].pc # "free" /\ handler[h].pc # "free"
    BY DEF Starting
<1>2. handler[g].proc \in Proc /\ handler[h].proc \in Proc
    BY <1>1 DEF TypeInv, HandlersOK, HandlerOK
<1> QED BY <1>2 DEF OneProcess, OneStarts

LEMMA CreatesInTimeStep ==
    ASSUME OneProcess, TypeInv, OneStarts, NothingBefore, CreatesInTime, [Next]_vars
    PROVE  CreatesInTime'
<1> SUFFICES ASSUME ~startCut', NEW h \in Handler, handler'[h].pc = "create"
             PROVE  status' = "WAITING"
    BY DEF CreatesInTime
<1>1. ~startCut
    BY RoomSteps
<1>2. handler[h].pc = "create" \/ CheckLobby(h)
    BY HandlerSteps DEF Elsewhere, Starting, Advances
<1>3. CASE handler[h].pc = "create"
    <2>1. status = "WAITING"
        BY <1>1, <1>3 DEF CreatesInTime
    <2>2. ASSUME NEW g \in Handler, handler[g].pc = "mark" PROVE FALSE
        <3>1. g = h
            BY <1>3, <2>2, OneAtAll DEF Starting
        <3> QED BY <1>3, <2>2, <3>1
    <2>3. ASSUME NEW g \in Handler, MarkRacing(g) \/ MarkFinished(g) PROVE FALSE
        BY <1>1, <2>1, <2>2, <2>3 DEF MarkRacing, MarkFinished, NothingBefore, Marks
    <2> QED BY <2>1, <2>3, RoomSteps
<1>4. CASE CheckLobby(h)
    <2>1. handler'[h].pc # "free"
        OBVIOUS
    <2>2. ~Leave(h)
        BY <2>1, GotoStep DEF TypeInv, Free
    <2> QED BY <1>4, <2>2 DEF CheckLobby, room
<1> QED BY <1>2, <1>3, <1>4

LEMMA StartsAreGuarded ==
    ASSUME OneProcess
    PROVE  Spec => [](TypeInv /\ StartInv)
<1>1. Init => StartInv
    BY DEF Init, StartInv, CountdownWaits, OneStarts, NothingBefore, CreatesInTime, Starting, Free
<1>2. TypeInv /\ StartInv /\ [Next]_vars => StartInv'
    BY WaitsStep, OneStartsStep, NothingBeforeStep, CreatesInTimeStep DEF StartInv
<1> QED BY <1>1, <1>2, TypesHold, PTL DEF Spec

(* One API process starts a room's race once: no second countdown takes    *)
(* the place of a race that was stored, unless the first start was cut     *)
(* short (onPlayerReady, finalizeScheduledRaceStart).                      *)
THEOREM RaceStartsOnce ==
    ASSUME OneProcess
    PROVE  Spec => StartsOnce
<1>1. ASSUME TypeInv, StartInv, NEW h \in Handler, CreateRace(h), ~startCut
      PROVE  race = None /\ status = "WAITING"
    <2>1. handler[h].pc = "create"
        BY <1>1 DEF CreateRace
    <2>2. status = "WAITING"
        BY <1>1, <2>1 DEF StartInv, CreatesInTime
    <2>3. ASSUME NEW g \in Handler, handler[g].pc = "mark" PROVE FALSE
        <3>1. g = h
            BY <1>1, <2>1, <2>3, OneAtAll DEF Starting, StartInv
        <3> QED BY <2>1, <2>3, <3>1
    <2> QED BY <1>1, <2>2, <2>3 DEF StartInv, NothingBefore, Marks
<1>2. TypeInv /\ StartInv /\ [Next]_vars
          => [\A h \in Handler : CreateRace(h) /\ ~startCut
                  => race = None /\ status = "WAITING"]_vars
    BY <1>1
<1> QED BY <1>2, StartsAreGuarded, PTL DEF Spec, StartsOnce

(* However many processes run the API: each of them has one start of a     *)
(* race under way at most, from the end of its countdown to RACING         *)
(* (scheduleRaceStart, finalizeScheduledRaceStart).                        *)
THEOREM OneStartAtATime == Spec => []OneStarts
<1>1. Init => CountdownWaits /\ OneStarts
    BY DEF Init, CountdownWaits, OneStarts, Starting, Free
<1>2. TypeInv /\ CountdownWaits /\ OneStarts /\ [Next]_vars => (CountdownWaits /\ OneStarts)'
    BY WaitsStep, OneStartsStep
<1> QED BY <1>1, <1>2, TypesHold, PTL DEF Spec
=============================================================================
