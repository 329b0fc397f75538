-------------------------- MODULE RaceSerialProofs --------------------------
(***************************************************************************)
(* Theorems about RaceGame where calls do not overlap and the countdown    *)
(* runs out once: what the replay holds, and that the race in Redis is a   *)
(* TurnRace.                                                               *)
(***************************************************************************)
EXTENDS RaceGameProofs, FiniteSetTheorems

(* One call at a time between its read and its write, one countdown.       *)
Serial ==
    /\ MaxOverlap = 1 /\ IsFiniteSet(Call)
    /\ \A s, t \in Starter : s = t

LoggedIn(list) == {e.moveSeq : e \in Range(list)}
Logged == LoggedIn(replays[game.replayId])

Alone == \A h, k \in InService : h = k

(* Until the race is stored there is nothing to move in, and the replay of *)
(* a race that is about to be stored is empty.                             *)
BeforeRace ==
    \A s \in Starter : starter[s].pc \in {"counting", "checked", "created"} =>
        /\ game = NoGame /\ status = "WAITING"
        /\ \A h \in Call : call[h].pc = "idle"
        /\ starter[s].pc = "created" => replays[starter[s].replayId] = <<>>

(* A call holds the race in Redis with one move of its mover on top.       *)
OneMoveAhead ==
    \A h \in Call : call[h].pc \in MidMove =>
        /\ game # NoGame
        /\ \E lap \in 0..1 : call[h].next = AfterMove(game, CurrentPlayer(game), lap)

(* Once the key is gone nothing brings it back.                            *)
GoneWhenOver ==
    /\ status = "FINISHED" => game = NoGame
    /\ \A h \in Call : call[h].pc = "finish" => game = NoGame

(* A call has the list that its replay holds, and has logged its move when *)
(* it stores it.                                                           *)
LogInStep ==
    \A h \in Call :
        /\ call[h].pc = "writeReplay" => call[h].list = replays[game.replayId]
        /\ call[h].pc = "store" => game.moveSeq + 1 \in Logged

SerialInv == Alone /\ BeforeRace /\ OneMoveAhead /\ GoneWhenOver

-----------------------------------------------------------------------------
LEMMA AloneStep ==
    ASSUME Serial, TypeOK, Alone, [Next]_vars
    PROVE  Alone'
<1>1. CASE call' = call
    BY <1>1 DEF Alone, InService
<1>2. ASSUME NEW h \in Call, \A k \in Call \ {h} : call'[k] = call[k],
             NEW lap \in 0..1, ReadGame(h, lap)
      PROVE  Alone'
    <2>1. IsFiniteSet(InService) /\ Cardinality(InService) < 1
        BY <1>2, FS_Subset DEF ReadGame, Serial, InService
    <2>2. InService = {}
        BY <2>1, FS_CardinalityType, FS_EmptySet
    <2>3. \A k \in Call \ {h} : k \notin InService'
        BY <1>2, <2>2 DEF InService
    <2> QED BY <2>3 DEF Alone, InService
<1>3. ASSUME NEW h \in Call, \A k \in Call \ {h} : call'[k] = call[k],
             \/ SendMove(h) \/ DeadlineLoad(h) \/ RejectMove(h)
             \/ ReadReplay(h) \/ WriteReplay(h) \/ StoreGame(h)
             \/ DeleteGame(h) \/ MarkFinished(h) \/ CallDies(h)
      PROVE  Alone'
    <2>1. h \in InService' => h \in InService
        BY <1>3, CallAfter DEF InService, ReadReplay, WriteReplay, DeleteGame
    <2>2. \A k \in Call \ {h} : k \in InService' => k \in InService
        BY <1>3 DEF InService
    <2>3. \A k \in InService' : k \in InService
        BY <2>1, <2>2 DEF InService
    <2> QED BY <2>3 DEF Alone
<1> QED BY <1>1, <1>2, <1>3, CallKinds
(* Calls start with a race in Redis, so none starts before the race does.  *)
LEMMA CallsNeedARace ==
    ASSUME TypeOK, NEW h \in Call, game = NoGame, call[h].pc = "idle", [Next]_vars
    PROVE  call'[h].pc = "idle"
<1>1. CASE call' = call
    BY <1>1
<1>2. ASSUME NEW k \in Call, \A j \in Call \ {k} : call'[j] = call[j],
             \/ SendMove(k) \/ DeadlineLoad(k) \/ RejectMove(k)
             \/ \E lap \in 0..1 : ReadGame(k, lap)
             \/ ReadReplay(k) \/ WriteReplay(k) \/ StoreGame(k)
             \/ DeleteGame(k) \/ MarkFinished(k) \/ CallDies(k)
      PROVE  call'[h].pc = "idle"
    <2>1. CASE h # k
        BY <1>2, <2>1
    <2>2. CASE h = k
        BY <1>2, <2>2 DEF SendMove, DeadlineLoad, RejectMove, ReadGame, ReadReplay,
            WriteReplay, StoreGame, DeleteGame, MarkFinished, CallDies
    <2> QED BY <2>1, <2>2
<1> QED BY <1>1, <1>2, CallKinds

(* Where the countdown is before the race is stored, it was before.        *)
LEMMA StarterKinds ==
    ASSUME TypeOK, [Next]_vars, NEW s \in Starter
    PROVE  /\ starter'[s].pc \in {"counting", "checked"} =>
                 starter[s].pc \in {"counting", "checked"}
           /\ starter'[s].pc = "created" =>
                 \/ starter'[s] = starter[s]
                 \/ /\ starter[s].pc = "checked" /\ CreateReplay(s)
                    /\ starter'[s].replayId = Len(replays) + 1
<1>1. ASSUME NEW t \in Starter,
             \/ CheckLobby(t) \/ CreateReplay(t) \/ StoreNewGame(t)
             \/ MarkRacing(t) \/ StarterDies(t), t # s
      PROVE  starter'[s] = starter[s]
    BY <1>1 DEF TypeOK, CheckLobby, CreateReplay, StoreNewGame, MarkRacing, StarterDies
<1>2. CASE CheckLobby(s)
    BY <1>2 DEF CheckLobby, TypeOK, StarterRecord
<1>3. CASE CreateReplay(s)
    BY <1>3 DEF CreateReplay, TypeOK
<1>4. CASE StoreNewGame(s) \/ MarkRacing(s) \/ StarterDies(s)
    BY <1>4 DEF StoreNewGame, MarkRacing, StarterDies, TypeOK, StarterRecord
<1>5. ASSUME NEW h \in Call,
             \/ SendMove(h) \/ DeadlineLoad(h) \/ RejectMove(h)
             \/ \E lap \in 0..1 : ReadGame(h, lap)
             \/ ReadReplay(h) \/ WriteReplay(h) \/ StoreGame(h)
             \/ DeleteGame(h) \/ MarkFinished(h) \/ CallDies(h)
      PROVE  starter' = starter
    BY <1>5 DEF SendMove, DeadlineLoad, RejectMove, ReadGame, ReadReplay, WriteReplay,
                StoreGame, DeleteGame, MarkFinished, CallDies
<1>6. CASE UNCHANGED vars
    BY <1>6 DEF vars
<1> QED BY <1>1, <1>2, <1>3, <1>4, <1>5, <1>6 DEF Next

LEMMA BeforeRaceStep ==
    ASSUME Serial, TypeOK, BeforeRace, [Next]_vars
    PROVE  BeforeRace'
<1> SUFFICES ASSUME NEW s \in Starter,
                    starter'[s].pc \in {"counting", "checked", "created"}
             PROVE  /\ game' = NoGame /\ status' = "WAITING"
                    /\ \A h \in Call : call'[h].pc = "idle"
                    /\ starter'[s].pc = "created" =>
                          replays'[starter'[s].replayId] = <<>>
    BY DEF BeforeRace
<1>1. starter[s].pc \in {"counting", "checked", "created"}
    BY StarterKinds
<1>2. /\ game = NoGame /\ status = "WAITING"
      /\ \A h \in Call : call[h].pc = "idle"
      /\ starter[s].pc = "created" => replays[starter[s].replayId] = <<>>
    BY <1>1 DEF BeforeRace
<1>3. \A h \in Call : call'[h].pc = "idle"
    BY <1>2, CallsNeedARace
<1>4. \A h \in Call : ~StoreGame(h) /\ ~DeleteGame(h) /\ ~MarkFinished(h) /\ ~WriteReplay(h)
    BY <1>2 DEF StoreGame, DeleteGame, MarkFinished, WriteReplay
<1>5. \A t \in Starter : ~StoreNewGame(t) /\ ~MarkRacing(t)
    <2> SUFFICES ASSUME NEW t \in Starter, StoreNewGame(t) \/ MarkRacing(t)
                 PROVE  FALSE
        OBVIOUS
    <2>1. t = s
        BY DEF Serial
    <2> QED BY <2>1 DEF StoreNewGame, MarkRacing, TypeOK, StarterRecord
<1>6. game' = NoGame /\ status' = "WAITING"
    BY <1>2, <1>4, <1>5, GameKinds
<1>7. ASSUME starter'[s].pc = "created"
      PROVE  replays'[starter'[s].replayId] = <<>>
    <2>1. CASE CreateReplay(s)
        BY <2>1, <1>7 DEF CreateReplay, TypeOK
    <2>2. CASE ~CreateReplay(s)
        <3>1. starter'[s] = starter[s] /\ starter[s].pc = "created"
            BY <1>7, <2>2, StarterKinds
        <3>2. starter[s].replayId \in DOMAIN replays
            BY <3>1 DEF TypeOK
        <3>3. \A t \in Starter : ~CreateReplay(t)
            BY <2>2 DEF Serial
        <3> QED BY <1>2, <1>4, <3>1, <3>3, GameKinds
    <2> QED BY <2>1, <2>2
<1> QED BY <1>3, <1>6, <1>7

(* A call in a move is alone, so the race stays under it what it has read. *)
LEMMA MidMoveStep ==
    ASSUME Serial, TypeOK, Alone, BeforeRace, OneMoveAhead, [Next]_vars
    PROVE  OneMoveAhead'
<1> SUFFICES ASSUME NEW h \in Call, call'[h].pc \in MidMove
             PROVE  /\ game' # NoGame
                    /\ \E lap \in 0..1 :
                          call'[h].next = AfterMove(game', CurrentPlayer(game'), lap)
    BY DEF OneMoveAhead, CurrentPlayer, AfterMove
<1>1. ASSUME game # NoGame
      PROVE  \A s \in Starter : ~StoreNewGame(s)
    BY <1>1 DEF BeforeRace, StoreNewGame
<1>2. ASSUME call[h].pc \in MidMove, call'[h].pc \in MidMove
      PROVE  \A k \in Call : ~StoreGame(k) /\ ~DeleteGame(k)
    <2> SUFFICES ASSUME NEW k \in Call, StoreGame(k) \/ DeleteGame(k) PROVE FALSE
        OBVIOUS
    <2>1. k = h
        BY <1>2 DEF Alone, InService, MidMove, StoreGame, DeleteGame
    <2> QED BY <1>2, <2>1, CallAfter DEF MidMove
<1>3. CASE call'[h] = call[h]
    BY <1>1, <1>2, <1>3, GameKinds DEF OneMoveAhead
<1>4. CASE \E lap \in 0..1 : ReadGame(h, lap)
    <2>1. game # NoGame /\ game' = game
        BY <1>4 DEF ReadGame, MayMove
    <2> QED BY <1>4, <2>1, CallAfter
<1>5. CASE ReadReplay(h) \/ WriteReplay(h)
    <2>1. call[h].pc \in MidMove /\ call'[h].next = call[h].next
        BY <1>5, CallAfter DEF ReadReplay, WriteReplay, MidMove
    <2> QED BY <1>1, <1>2, <2>1, GameKinds DEF OneMoveAhead
<1>6. ASSUME call'[h] # call[h]
      PROVE  (\E lap \in 0..1 : ReadGame(h, lap)) \/ ReadReplay(h) \/ WriteReplay(h)
    BY <1>6, CallKinds, CallAfter DEF MidMove
<1> QED BY <1>3, <1>4, <1>5, <1>6

LEMMA GoneWhenOverStep ==
    ASSUME Serial, TypeOK, Alone, BeforeRace, OneMoveAhead, GoneWhenOver, [Next]_vars
    PROVE  GoneWhenOver'
<1>1. ASSUME game = NoGame, NEW h \in Call
      PROVE  ~StoreGame(h)
    BY <1>1 DEF OneMoveAhead, StoreGame, MidMove
<1>2. ASSUME NEW s \in Starter, StoreNewGame(s)
      PROVE  status = "WAITING" /\ \A h \in Call : call[h].pc = "idle"
    BY <1>2 DEF BeforeRace, StoreNewGame
<1>3. ASSUME status' = "FINISHED"
      PROVE  game' = NoGame
    <2>1. game = NoGame
        <3>1. CASE status' = status
            BY <1>3, <3>1 DEF GoneWhenOver
        <3>2. CASE \E h \in Call : MarkFinished(h)
            BY <3>2 DEF MarkFinished, GoneWhenOver
        <3>3. CASE \E s \in Starter : MarkRacing(s)
            BY <1>3, <3>3 DEF MarkRacing
        <3> QED BY <3>1, <3>2, <3>3, GameKinds
    <2>2. ASSUME NEW s \in Starter, StoreNewGame(s)
          PROVE  FALSE
        BY <1>2, <1>3, <2>2 DEF StoreNewGame
    <2>3. \A h \in Call : DeleteGame(h) => game' = NoGame
        BY DEF DeleteGame
    <2> QED BY <1>1, <2>1, <2>2, <2>3, GameKinds
<1>4. ASSUME NEW h \in Call, call'[h].pc = "finish"
      PROVE  game' = NoGame
    <2>1. CASE call'[h] = call[h]
        <3>1. game = NoGame /\ call[h].pc = "finish"
            BY <1>4, <2>1 DEF GoneWhenOver
        <3>2. \A k \in Call : DeleteGame(k) => game' = NoGame
            BY DEF DeleteGame
        <3>3. \A s \in Starter : ~StoreNewGame(s)
            BY <1>2, <3>1
        <3> QED BY <1>1, <3>1, <3>2, <3>3, GameKinds
    <2>2. CASE call'[h] # call[h]
        <3>1. DeleteGame(h)
            BY <1>4, <2>2, CallKinds, CallAfter
        <3> QED BY <3>1 DEF DeleteGame
    <2> QED BY <2>1, <2>2
<1> QED BY <1>3, <1>4 DEF GoneWhenOver

LEMMA SerialHolds ==
    ASSUME Serial
    PROVE  Spec => []SerialInv
<1>1. Init => SerialInv
    BY IdleCallType DEF Init, SerialInv, Alone, InService, BeforeRace, OneMoveAhead,
       MidMove, GoneWhenOver
<1>2. TypeOK /\ SerialInv /\ [Next]_vars => SerialInv'
    BY Serial, AloneStep, BeforeRaceStep, MidMoveStep, GoneWhenOverStep DEF SerialInv
<1> QED BY <1>1, <1>2, TypeCorrect, PTL DEF Spec

-----------------------------------------------------------------------------
LEMMA LoggedAppend ==
    ASSUME NEW list \in Seq(ReplayMoveEntry), NEW e \in ReplayMoveEntry
    PROVE  /\ LoggedIn(<<>>) = {}
           /\ LoggedIn(Append(list, e)) = LoggedIn(list) \cup {e.moveSeq}
<1>1. LoggedIn(<<>>) = {}
    BY DEF LoggedIn, Range
<1>2. Len(list) \in Nat /\ DOMAIN list = 1..Len(list)
    OBVIOUS
<1>3. /\ DOMAIN Append(list, e) = 1..(Len(list) + 1)
      /\ \A k \in 1..Len(list) : Append(list, e)[k] = list[k]
      /\ Append(list, e)[Len(list) + 1] = e
    OBVIOUS
<1>4. 1..(Len(list) + 1) = (1..Len(list)) \cup {Len(list) + 1}
    BY <1>2
<1>5. Range(Append(list, e)) = Range(list) \cup {e}
    BY <1>2, <1>3, <1>4, ZenonT(30) DEF Range
<1> QED BY <1>1, <1>5 DEF LoggedIn

(* A call in a move works on the row of the race in Redis.                 *)
LEMMA SameRow ==
    ASSUME TypeOK, OneMoveAhead, NEW h \in Call, call[h].pc \in MidMove
    PROVE  /\ game \in Game /\ game.moveSeq \in Nat
           /\ game.replayId \in DOMAIN replays
           /\ call[h].next.replayId = game.replayId
           /\ call[h].next.moveSeq = game.moveSeq + 1
<1>1. game # NoGame /\ game \in Game /\ game.replayId \in DOMAIN replays
    BY DEF OneMoveAhead, TypeOK
<1>2. PICK lap \in 0..1 : call[h].next = AfterMove(game, CurrentPlayer(game), lap)
    BY DEF OneMoveAhead
<1>3. game.moveSeq \in Nat
    BY <1>1 DEF Game
<1> QED BY <1>1, <1>2, <1>3 DEF AfterMove

LogInv == LogInStep /\ ReplayLogsEveryMove

(* Steps that neither write the row nor change the race but to delete it.  *)
LEMMA LogKept ==
    ASSUME Serial, TypeOK, SerialInv, LogInv, [Next]_vars,
           replays' = replays, game' = game
    PROVE  LogInv'
<1>1. ReplayLogsEveryMove' /\ Logged' = Logged
    BY DEF LogInv, ReplayLogsEveryMove, Logged, LoggedIn
<1>2. ASSUME NEW h \in Call
      PROVE  /\ call'[h].pc = "writeReplay" => call'[h].list = replays'[game'.replayId]
             /\ call'[h].pc = "store" => game'.moveSeq + 1 \in Logged'
    <2>1. CASE call'[h] = call[h]
        BY <1>1, <2>1 DEF LogInv, LogInStep
    <2>2. CASE ReadReplay(h)
        <3>1. call[h].next.replayId = game.replayId
            BY <2>2, SameRow DEF ReadReplay, MidMove, SerialInv
        <3> QED BY <2>2, <3>1, CallAfter
    <2>3. CASE WriteReplay(h)
        <3>1. replays[game.replayId] = Append(call[h].list, MoveEntry(call[h]))
            BY <2>3, SameRow DEF WriteReplay, MidMove, SerialInv, TypeOK
        <3>2. call[h].list = replays[game.replayId]
            BY <2>3 DEF WriteReplay, LogInv, LogInStep
        <3>3. call[h].list \in Seq(ReplayMoveEntry)
            BY DEF TypeOK, CallRecord
        <3> QED BY <3>1, <3>2, <3>3
    <2>4. ASSUME call'[h] # call[h], ~ReadReplay(h), ~WriteReplay(h)
          PROVE  call'[h].pc \notin {"writeReplay", "store"}
        BY <2>4, CallKinds, CallAfter
    <2> QED BY <2>1, <2>2, <2>3, <2>4
<1> QED BY <1>1, <1>2 DEF LogInv, LogInStep

LEMMA LogStep ==
    ASSUME Serial, TypeOK, SerialInv, LogInv, [Next]_vars, SerialInv'
    PROVE  LogInv'
<1>1. CASE game' = NoGame
    BY <1>1 DEF LogInv, LogInStep, ReplayLogsEveryMove, SerialInv, OneMoveAhead, MidMove
<1>2. ASSUME NEW s \in Starter, StoreNewGame(s)
      PROVE  LogInv'
    <2>1. /\ replays[starter[s].replayId] = <<>> /\ starter[s].replayId \in Nat
          /\ \A h \in Call : call[h].pc = "idle"
        BY <1>2 DEF StoreNewGame, SerialInv, BeforeRace, TypeOK, StarterRecord
    <2>2. /\ game'.replayId = starter[s].replayId /\ game'.moveSeq = 0
          /\ replays' = replays /\ call' = call
        BY <1>2 DEF StoreNewGame, NewGame
    <2>3. LoggedIn(replays'[game'.replayId]) = {}
        BY <2>1, <2>2 DEF LoggedIn, Range
    <2>4. LogInStep'
        BY <2>1, <2>2 DEF LogInStep
    <2>5. \A L : L = {} => 1..0 \subseteq L /\ L \subseteq 1..(0 + 1)
        OBVIOUS
    <2>6. ReplayLogsEveryMove'
        BY <2>2, <2>3, <2>5 DEF ReplayLogsEveryMove, LoggedIn
    <2> QED BY <2>4, <2>6 DEF LogInv
<1>3. ASSUME NEW h \in Call, StoreGame(h)
      PROVE  LogInv'
    <2>1. call[h].pc = "store" /\ call[h].pc \in MidMove
        BY <1>3 DEF StoreGame, MidMove
    <2>2. /\ game # NoGame /\ game.moveSeq \in Nat /\ replays' = replays
          /\ game'.replayId = game.replayId /\ game'.moveSeq = game.moveSeq + 1
        BY <1>3, <2>1, SameRow DEF StoreGame, SerialInv, OneMoveAhead
    <2>3. game.moveSeq + 1 \in Logged /\ Logged' = Logged
        BY <2>1, <2>2 DEF LogInv, LogInStep, Logged
    <2>4. 1..game.moveSeq \subseteq Logged /\ Logged \subseteq 1..(game.moveSeq + 1)
        BY <2>2 DEF LogInv, ReplayLogsEveryMove, Logged, LoggedIn
    <2>5. /\ 1..(game.moveSeq + 1) \subseteq Logged
          /\ Logged \subseteq 1..(game.moveSeq + 1 + 1)
        BY <2>2, <2>3, <2>4
    <2>6. ReplayLogsEveryMove'
        BY <2>2, <2>3, <2>5 DEF ReplayLogsEveryMove, Logged, LoggedIn
    <2>7. \A k \in Call : call'[k].pc \notin MidMove
        <3>1. call'[h].pc = "idle" /\ \A k \in Call \ {h} : call'[k] = call[k]
            BY <1>3, CallAfter DEF StoreGame, TypeOK
        <3>2. \A k \in Call \ {h} : call[k].pc \notin MidMove
            BY <2>1 DEF SerialInv, Alone, InService, MidMove
        <3> QED BY <3>1, <3>2 DEF MidMove
    <2> QED BY <2>6, <2>7 DEF LogInv, LogInStep, MidMove
<1>4. ASSUME NEW h \in Call, WriteReplay(h)
      PROVE  LogInv'
    <2> DEFINE e == MoveEntry(call[h])
    <2>1. call[h].pc = "writeReplay" /\ call[h].pc \in MidMove
        BY <1>4 DEF WriteReplay, MidMove
    <2>2. /\ game \in Game /\ game # NoGame /\ game.moveSeq \in Nat /\ game' = game
          /\ game.replayId \in DOMAIN replays
          /\ call[h].next.replayId = game.replayId
          /\ call[h].next.moveSeq = game.moveSeq + 1
        BY <1>4, <2>1, SameRow DEF WriteReplay, SerialInv, OneMoveAhead
    <2>3. call[h].list = replays[game.replayId] /\ call[h].list \in Seq(ReplayMoveEntry)
        BY <2>1 DEF LogInv, LogInStep, TypeOK, CallRecord
    <2>4. e \in ReplayMoveEntry /\ e.moveSeq = game.moveSeq + 1
        BY <2>2 DEF MoveEntry, ReplayMoveEntry, TypeOK, CallRecord
    <2>5. replays'[game.replayId] = Append(replays[game.replayId], e)
        BY <1>4, <2>2, <2>3 DEF WriteReplay
    <2> HIDE DEF e
    <2>6. Logged' = Logged \cup {game.moveSeq + 1}
        BY <2>2, <2>3, <2>4, <2>5, LoggedAppend DEF Logged
    <2>7. 1..game.moveSeq \subseteq Logged /\ Logged \subseteq 1..(game.moveSeq + 1)
        BY <2>2 DEF LogInv, ReplayLogsEveryMove, Logged, LoggedIn
    <2>8. /\ 1..game.moveSeq \subseteq Logged'
          /\ Logged' \subseteq 1..(game.moveSeq + 1)
        <3>1. game.moveSeq + 1 \in 1..(game.moveSeq + 1)
            BY <2>2
        <3> QED BY <2>6, <2>7, <3>1
    <2>9. ReplayLogsEveryMove'
        BY <2>2, <2>8 DEF ReplayLogsEveryMove, Logged, LoggedIn
    <2>10. call'[h].pc = "store" /\ \A k \in Call \ {h} : call'[k] = call[k]
        BY <1>4, CallAfter DEF WriteReplay, TypeOK
    <2>11. \A k \in Call \ {h} : call[k].pc \notin MidMove
        BY <2>1 DEF SerialInv, Alone, InService, MidMove
    <2>12. LogInStep'
        BY <2>2, <2>6, <2>10, <2>11 DEF LogInStep, MidMove
    <2> QED BY <2>9, <2>12 DEF LogInv
<1>5. ASSUME NEW s \in Starter, CreateReplay(s)
      PROVE  game' = NoGame
    BY <1>5 DEF CreateReplay, SerialInv, BeforeRace
<1>6. ASSUME NEW h \in Call, DeleteGame(h)
      PROVE  game' = NoGame
    BY <1>6 DEF DeleteGame
<1> QED BY <1>1, <1>2, <1>3, <1>4, <1>5, <1>6, LogKept, GameKinds

(* The replay of the race in Redis holds every move of the race and at     *)
(* most the one that is being stored, although the row is written before   *)
(* the race and either write may fail alone (appendReplayMove, redis.set). *)
THEOREM ReplayIsComplete ==
    ASSUME Serial
    PROVE  Spec => []ReplayLogsEveryMove
<1>1. Init => LogInv
    BY IdleCallType DEF Init, LogInv, LogInStep, ReplayLogsEveryMove
<1>2. TypeOK /\ SerialInv /\ LogInv /\ [Next]_vars /\ SerialInv' => LogInv'
    BY Serial, LogStep
<1>3. LogInv => ReplayLogsEveryMove
    BY DEF LogInv
<1> QED BY <1>1, <1>2, <1>3, TypeCorrect, SerialHolds, PTL DEF Spec
-----------------------------------------------------------------------------
(* The refinement: a race that is stored is a start or a move, everything  *)
(* else leaves the race alone.                                             *)

(* The laps of the abstract race.                                          *)
LapsOf(g) == [p \in Player |-> IF g = NoGame THEN 0 ELSE g.cars[p].laps]

LEMMA LapsAfterMove ==
    ASSUME NEW g \in Game, Lockstep(g), NEW lap \in 0..1
    PROVE  LET mover == PlayerOrder[(g.moveSeq % Len(PlayerOrder)) + 1]
               next == AfterMove(g, CurrentPlayer(g), lap)
           IN  /\ LapsOf(next) = [LapsOf(g) EXCEPT ![mover] = @ + lap]
               /\ next # NoGame /\ next.moveSeq = g.moveSeq + 1
               /\ AllDone(next) <=> \A p \in Player : LapsOf(next)[p] >= LapCount
<1> DEFINE mover == PlayerOrder[(g.moveSeq % Len(PlayerOrder)) + 1]
           next == AfterMove(g, CurrentPlayer(g), lap)
<1>1. mover = CurrentPlayer(g) /\ mover \in Player
    BY MoverOfSeq, TurnInOrder DEF N
<1>2. next \in Game
    BY <1>1, AfterMoveType
<1>3. g # NoGame /\ next # NoGame
    BY <1>2, NoGameAssumption
<1>4. next.moveSeq = g.moveSeq + 1
    BY DEF AfterMove
<1>5. next.cars = [g.cars EXCEPT ![mover] = [moves |-> @.moves + 1, laps |-> @.laps + lap]]
    BY <1>1 DEF AfterMove
<1> HIDE DEF mover, next
<1>6. \A p \in Player : g.cars[p] \in Car
    BY DEF Game
<1>7. \A p \in Player :
         next.cars[p].laps = IF p = mover THEN g.cars[p].laps + lap ELSE g.cars[p].laps
    BY <1>1, <1>5, <1>6 DEF Game
<1>8. LapsOf(next) = [LapsOf(g) EXCEPT ![mover] = @ + lap]
    BY <1>1, <1>3, <1>7 DEF LapsOf
<1>9. AllDone(next) <=> \A p \in Player : LapsOf(next)[p] >= LapCount
    BY <1>3 DEF AllDone, LapsOf
<1> QED BY <1>3, <1>4, <1>8, <1>9 DEF mover, next

(* A step of the server is a step of the turn race or leaves it as it is.  *)
LEMMA TurnRaceStep ==
    ASSUME Serial, TypeOK, TurnLockstep, SerialInv, [Next]_vars
    PROVE  [Abstract!Next]_(Abstract!vars)
<1>1. CASE game' = game
    BY <1>1 DEF Abstract!vars
<1>2. ASSUME NEW s \in Starter, StoreNewGame(s)
      PROVE  Abstract!Start
    <2>1. game = NoGame
        BY <1>2 DEF StoreNewGame, SerialInv, BeforeRace
    <2>2. starter[s].replayId \in Nat
        BY DEF TypeOK, StarterRecord
    <2>3. game' = NewGame(starter[s].replayId) /\ game' \in Game /\ game' # NoGame
        BY <1>2, <2>2, NewGameType, NoGameAssumption DEF StoreNewGame
    <2>4. game'.moveSeq = 0 /\ \A p \in Player : game'.cars[p].laps = 0
        BY <2>3 DEF NewGame
    <2> QED BY <2>1, <2>3, <2>4 DEF Abstract!Start
<1>3. ASSUME NEW h \in Call, StoreGame(h) \/ DeleteGame(h)
      PROVE  \E lap \in 0..1 : Abstract!Move(lap)
    <2>1. call[h].pc = "store" /\ call[h].pc \in MidMove
        BY <1>3 DEF StoreGame, DeleteGame, MidMove
    <2>2. PICK lap \in 0..1 : call[h].next = AfterMove(game, CurrentPlayer(game), lap)
        BY <2>1 DEF SerialInv, OneMoveAhead
    <2>3. game # NoGame /\ game \in Game /\ Lockstep(game)
        BY <2>1 DEF SerialInv, OneMoveAhead, TypeOK, TurnLockstep
    <2> DEFINE next == call[h].next
               mover == PlayerOrder[(game.moveSeq % Len(PlayerOrder)) + 1]
    <2>4. /\ LapsOf(next) = [LapsOf(game) EXCEPT ![mover] = @ + lap]
          /\ next # NoGame /\ next.moveSeq = game.moveSeq + 1
          /\ AllDone(next) <=> \A p \in Player : LapsOf(next)[p] >= LapCount
        BY <2>2, <2>3, LapsAfterMove
    <2>5. Abstract!Mover = mover
        BY <2>3 DEF Abstract!Mover
    <2>6. /\ StoreGame(h) => ~AllDone(next) /\ game' = next
          /\ DeleteGame(h) => AllDone(next) /\ game' = NoGame
        BY DEF StoreGame, DeleteGame
    <2> HIDE DEF next, mover
    <2>7. CASE StoreGame(h)
        <3>1. /\ game' # NoGame /\ game'.moveSeq = game.moveSeq + 1
              /\ LapsOf(game') = [LapsOf(game) EXCEPT ![mover] = @ + lap]
              /\ ~\A p \in Player : LapsOf(game')[p] >= LapCount
            BY <2>4, <2>6, <2>7
        <3> QED BY <2>3, <2>5, <3>1 DEF Abstract!Move, LapsOf
    <2>8. CASE DeleteGame(h)
        <3>1. /\ game' = NoGame /\ LapsOf(game') = [p \in Player |-> 0]
              /\ LapsOf(next) = [LapsOf(game) EXCEPT ![mover] = @ + lap]
              /\ \A p \in Player : LapsOf(next)[p] >= LapCount
            BY <2>4, <2>6, <2>8 DEF LapsOf
        <3> QED BY <2>3, <2>5, <3>1 DEF Abstract!Move, Abstract!NoLaps, LapsOf
    <2> QED BY <1>3, <2>7, <2>8
<1> QED BY <1>1, <1>2, <1>3, GameKinds DEF Abstract!Next

(* The race in Redis behaves as the turn race: players move in turn, every *)
(* move counts once, and the race is over with the move that completes the *)
(* last lap of the last player (applySubmitMove).                          *)
THEOREM RaceIsTurnRace ==
    ASSUME Serial
    PROVE  Spec => ImplementsTurnRace
<1>1. Init => Abstract!Init
    BY DEF Init, Abstract!Init, Abstract!NoLaps
<1>2. TypeOK /\ TurnLockstep /\ SerialInv /\ [Next]_vars => [Abstract!Next]_(Abstract!vars)
    BY Serial, TurnRaceStep
<1> QED BY <1>1, <1>2, TypeCorrect, TurnOrder, SerialHolds, PTL
        DEF Spec, Abstract!Spec, ImplementsTurnRace
=============================================================================
