--------------------------- MODULE RaceGameProofs ---------------------------
(***************************************************************************)
(* Theorems about RaceGame, for every number of players, calls, countdown  *)
(* expiries and faults: the types, the turn rule in every copy of the race *)
(* that any handler holds, the rule on the entries of the replays, and     *)
(* that only calls and starts which another has overtaken lose moves or    *)
(* bring back a race that is over.                                         *)
(***************************************************************************)
EXTENDS RaceGame, TLAPS

LEMMA OrderFacts ==
    /\ N \in Nat /\ N > 0
    /\ \A i \in 1..N : PlayerOrder[i] \in Player
    /\ \A p \in Player : \E i \in 1..N : p = PlayerOrder[i]
    /\ \A i, j \in 1..N : PlayerOrder[i] = PlayerOrder[j] => i = j
  BY PlayerOrderAssumption DEF N

(* The race of a call, and what becomes of it, have the type of a race. *)
LEMMA NewGameType ==
    ASSUME NEW id \in Nat
    PROVE  NewGame(id) \in Game
  BY OrderFacts DEF NewGame, Game, Car

(* The turn index of a race needs no wrapping. *)
LEMMA TurnInOrder ==
    ASSUME NEW g \in Game
    PROVE  /\ g.turnIndex + 1 \in 1..N
           /\ CurrentPlayer(g) = PlayerOrder[g.turnIndex + 1]
           /\ CurrentPlayer(g) \in Player
  <1>1. g.turnIndex \in 0..(N - 1)
    BY DEF Game
  <1>2. g.turnIndex % N = g.turnIndex
    BY <1>1, OrderFacts
  <1>3. (g.turnIndex + N) % N = g.turnIndex
    BY <1>1, OrderFacts
  <1> QED
    BY <1>1, <1>2, <1>3, OrderFacts DEF CurrentPlayer

LEMMA AfterMoveType ==
    ASSUME NEW g \in Game, NEW u \in Player, NEW lap \in 0..1
    PROVE  /\ AfterMove(g, u, lap) \in Game
           /\ AfterMove(g, u, lap).replayId = g.replayId
  <1>1. (g.turnIndex + 1) % N \in 0..(N - 1)
    BY OrderFacts DEF Game
  <1>2. g.cars[u] \in Car
    BY DEF Game
  <1>3. [g.cars EXCEPT ![u] = [moves |-> @.moves + 1, laps |-> @.laps + lap]]
            \in [Player -> Car]
    BY <1>2 DEF Game, Car
  <1> QED
    BY <1>1, <1>3 DEF AfterMove, Game

LEMMA IdleCallType ==
    IdleCall \in CallRecord /\ IdleCall.pc = "idle" /\ IdleCall.next = NoGame
  BY OrderFacts DEF IdleCall, CallRecord, CallState

-----------------------------------------------------------------------------
(* Every reachable state is of the type, in particular: a call that has    *)
(* read the race holds one whose replay row exists (applySubmitMove).      *)
THEOREM TypeCorrect == Spec => []TypeOK
  <1>1. Init => TypeOK
    <2>1. Init => late \subseteq Call \cup Starter /\ revived \in BOOLEAN
      BY Zenon DEF Init
    <2> QED
      BY <2>1, IdleCallType, BoundAssumption
         DEF Init, TypeOK, StarterRecord, StarterState
  <1>2. TypeOK /\ [Next]_vars => TypeOK'
    <2> SUFFICES ASSUME TypeOK, [Next]_vars
                 PROVE  TypeOK'
      OBVIOUS
    <2> USE DEF TypeOK, history
    <2>1. ASSUME NEW s \in Starter, CheckLobby(s)
          PROVE  TypeOK'
      BY <2>1 DEF CheckLobby, Noticed, StarterRecord, StarterState
    <2>2. ASSUME NEW s \in Starter, CreateReplay(s)
          PROVE  TypeOK'
      <3>1. /\ replays' \in Seq(Seq(ReplayMoveEntry))
            /\ DOMAIN replays' = 1..(Len(replays) + 1)
            /\ DOMAIN replays \subseteq DOMAIN replays'
            /\ Len(replays) + 1 \in Nat
        BY <2>2 DEF CreateReplay
      <3> QED
        BY <2>2, <3>1 DEF CreateReplay, StarterRecord, StarterState
    <2>3. ASSUME NEW s \in Starter, StoreNewGame(s)
          PROVE  TypeOK'
      <3>1. starter[s].replayId \in Nat
        BY DEF StarterRecord
      <3>2. game' \in Game /\ game'.replayId \in DOMAIN replays
        BY <2>3, <3>1, NewGameType DEF StoreNewGame, NewGame
      <3>3. late' \subseteq Call \cup Starter /\ revived' \in BOOLEAN
        BY <2>3 DEF StoreNewGame, Overtakes, InService
      <3> QED
        BY <2>3, <3>2, <3>3 DEF StoreNewGame, StarterRecord, StarterState
    <2>4. ASSUME NEW s \in Starter, MarkRacing(s)
          PROVE  TypeOK'
      BY <2>4 DEF MarkRacing, StarterRecord, StarterState
    <2>5. ASSUME NEW s \in Starter, StarterDies(s)
          PROVE  TypeOK'
      <3>1. faults' \in 0..MaxFaults
        BY <2>5, BoundAssumption DEF StarterDies
      <3>2. starter' \in [Starter -> StarterRecord]
        BY <2>5 DEF StarterDies, StarterRecord, StarterState
      <3> QED
        BY <2>5, <3>1, <3>2 DEF StarterDies
    <2>6. ASSUME NEW h \in Call, SendMove(h)
          PROVE  TypeOK'
      <3>1. /\ CurrentPlayer(game) \in Player
            /\ \A seq \in {game.moveSeq, Unchecked} : seq \in Nat \cup {Unchecked}
        BY <2>6, TurnInOrder DEF SendMove, Game
      <3>2. \A seq \in {game.moveSeq, Unchecked} :
               /\ SentCall(CurrentPlayer(game), seq) \in CallRecord
               /\ SentCall(CurrentPlayer(game), seq).pc = "sent"
        BY <3>1 DEF SentCall, CallRecord, CallState
      <3> QED
        BY <2>6, <3>2 DEF SendMove
    <2>7. ASSUME NEW h \in Call, DeadlineLoad(h)
          PROVE  TypeOK'
      <3>1. CurrentPlayer(game) \in Player /\ game.moveSeq \in Nat
        BY <2>7, TurnInOrder DEF DeadlineLoad, Game
      <3>2. /\ SentCall(CurrentPlayer(game), game.moveSeq) \in CallRecord
            /\ SentCall(CurrentPlayer(game), game.moveSeq).pc = "sent"
        BY <3>1 DEF SentCall, CallRecord, CallState
      <3> QED
        BY <2>7, <3>2 DEF DeadlineLoad
    <2>8. ASSUME NEW h \in Call, RejectMove(h)
          PROVE  TypeOK'
      BY <2>8, IdleCallType DEF RejectMove
    <2>9. ASSUME NEW h \in Call, NEW lap \in 0..1, ReadGame(h, lap)
          PROVE  TypeOK'
      <3>1. game \in Game /\ call[h].user \in Player
        BY <2>9 DEF ReadGame, MayMove, CallRecord
      <3>2. /\ AfterMove(game, call[h].user, lap) \in Game
            /\ AfterMove(game, call[h].user, lap).replayId \in DOMAIN replays
        BY <3>1, <2>9, AfterMoveType DEF ReadGame, MayMove
      <3> DEFINE c == [call[h] EXCEPT !.pc = "readReplay",
                                      !.next = AfterMove(game, call[h].user, lap)]
      <3>3. /\ c \in CallRecord /\ c.pc = "readReplay"
            /\ c.next = AfterMove(game, call[h].user, lap)
        BY <2>9, <3>2 DEF ReadGame, CallRecord, CallState
      <3>4. call' = [call EXCEPT ![h] = c] /\ UNCHANGED <<game, replays, status, starter, faults>>
        BY <2>9 DEF ReadGame
      <3>5. late' \subseteq Call \cup Starter /\ revived' \in BOOLEAN
        BY <2>9 DEF ReadGame
      <3> HIDE DEF c
      <3> QED
        BY <3>2, <3>3, <3>4, <3>5, NoGameAssumption
    <2>10. ASSUME NEW h \in Call, ReadReplay(h)
           PROVE  TypeOK'
      <3>1. replays[call[h].next.replayId] \in Seq(ReplayMoveEntry)
        BY <2>10 DEF ReadReplay
      <3> DEFINE c == [call[h] EXCEPT !.pc = "writeReplay",
                                      !.list = replays[call[h].next.replayId]]
      <3>2. c \in CallRecord /\ c.pc = "writeReplay" /\ c.next = call[h].next
        BY <2>10, <3>1 DEF CallRecord, CallState
      <3>3. /\ call' = [call EXCEPT ![h] = c]
            /\ UNCHANGED <<game, replays, status, starter, faults, late, revived>>
        BY <2>10 DEF ReadReplay
      <3>4. call[h].pc = "readReplay"
        BY <2>10 DEF ReadReplay
      <3> HIDE DEF c
      <3> QED
        BY <3>2, <3>3, <3>4
    <2>11. ASSUME NEW h \in Call, WriteReplay(h)
           PROVE  TypeOK'
      <3>1. /\ call[h].next \in Game /\ call[h].user \in Player
            /\ call[h].list \in Seq(ReplayMoveEntry)
            /\ call[h].next.replayId \in DOMAIN replays
        BY <2>11 DEF WriteReplay, CallRecord
      <3>2. MoveEntry(call[h]) \in ReplayMoveEntry
        BY <3>1 DEF MoveEntry, ReplayMoveEntry, Game
      <3>3. Append(call[h].list, MoveEntry(call[h])) \in Seq(ReplayMoveEntry)
        BY <3>1, <3>2
      <3>4. /\ replays' \in Seq(Seq(ReplayMoveEntry))
            /\ DOMAIN replays' = DOMAIN replays
        BY <2>11, <3>1, <3>3 DEF WriteReplay
      <3> DEFINE c == [call[h] EXCEPT !.pc = "store", !.list = <<>>]
      <3>a. call[h] \in CallRecord /\ <<>> \in Seq(ReplayMoveEntry)
        OBVIOUS
      <3>b. c \in CallRecord /\ c.next = call[h].next
        BY <3>a DEF CallRecord, CallState
      <3>c. call' = [call EXCEPT ![h] = c]
        BY <2>11 DEF WriteReplay
      <3> HIDE DEF c
      <3>5. /\ call' \in [Call -> CallRecord]
            /\ call'[h].next = call[h].next
            /\ \A k \in Call \ {h} : call'[k] = call[k]
        BY <3>b, <3>c
      <3>6. /\ UNCHANGED <<game, status, starter, faults, late, revived>>
            /\ call[h].next # NoGame
        BY <2>11 DEF WriteReplay
      <3>7. \A k \in Call :
              call'[k].pc \in {"readReplay", "writeReplay", "store"} =>
                /\ call'[k].next # NoGame
                /\ call'[k].next.replayId \in DOMAIN replays'
        BY <3>1, <3>4, <3>5, <3>6
      <3> QED
        BY <3>4, <3>5, <3>6, <3>7
    <2>12. ASSUME NEW h \in Call, StoreGame(h)
           PROVE  TypeOK'
      <3>1. call[h].next \in Game
        BY <2>12 DEF StoreGame, CallRecord
      <3> QED
        BY <2>12, <3>1, IdleCallType DEF StoreGame, Overtakes, InService
    <2>13. ASSUME NEW h \in Call, DeleteGame(h)
           PROVE  TypeOK'
      <3>1. [IdleCall EXCEPT !.pc = "finish"] \in CallRecord
        BY IdleCallType DEF CallRecord, CallState
      <3>2. [IdleCall EXCEPT !.pc = "finish"].pc = "finish"
        BY IdleCallType DEF CallRecord
      <3> QED
        BY <2>13, <3>1, <3>2 DEF DeleteGame, Overtakes, InService
    <2>14. ASSUME NEW h \in Call, MarkFinished(h)
           PROVE  TypeOK'
      BY <2>14, IdleCallType DEF MarkFinished
    <2>15. ASSUME NEW h \in Call, CallDies(h)
           PROVE  TypeOK'
      BY <2>15, IdleCallType, BoundAssumption DEF CallDies
    <2>16. CASE UNCHANGED vars
      BY <2>16 DEF vars
    <2> QED
      BY <2>1, <2>2, <2>3, <2>4, <2>5, <2>6, <2>7, <2>8, <2>9, <2>10, <2>11,
         <2>12, <2>13, <2>14, <2>15, <2>16 DEF Next
  <1> QED
    BY <1>1, <1>2, PTL DEF Spec
-----------------------------------------------------------------------------
(* A new race is in step, and a move of the player whose turn it is keeps  *)
(* a race in step: the last player's move closes the round.                *)
LEMMA NewGameLockstep ==
    ASSUME NEW id \in Nat
    PROVE  Lockstep(NewGame(id))
  BY OrderFacts DEF Lockstep, NewGame

LEMMA AfterMoveLockstep ==
    ASSUME NEW g \in Game, Lockstep(g), NEW lap \in 0..1
    PROVE  Lockstep(AfterMove(g, CurrentPlayer(g), lap))
  <1> DEFINE t == g.turnIndex
             r == g.cars[PlayerOrder[N]].moves
             a == AfterMove(g, CurrentPlayer(g), lap)
             moves(i) == g.cars[PlayerOrder[i]].moves
  <1>1. t \in 0..(N - 1) /\ CurrentPlayer(g) = PlayerOrder[t + 1] /\ t + 1 \in 1..N
    BY TurnInOrder DEF Game
  <1>2. \A i \in 1..N : moves(i) = r + (IF i <= t THEN 1 ELSE 0)
    BY DEF Lockstep
  <1>3. r \in Nat /\ g.moveSeq = r * N + t /\ g.moveSeq \in Nat
    BY OrderFacts DEF Lockstep, Game, Car
  <1>4. \A i \in 1..N : a.cars[PlayerOrder[i]].moves =
                          moves(i) + (IF i = t + 1 THEN 1 ELSE 0)
    <2> SUFFICES ASSUME NEW i \in 1..N
                 PROVE  a.cars[PlayerOrder[i]].moves =
                          moves(i) + (IF i = t + 1 THEN 1 ELSE 0)
      OBVIOUS
    <2>1. /\ PlayerOrder[i] \in Player
          /\ PlayerOrder[i] = PlayerOrder[t + 1] <=> i = t + 1
      BY <1>1, OrderFacts
    <2>2. moves(i) \in Nat
      BY <2>1 DEF Game, Car
    <2>3. a.cars = [g.cars EXCEPT ![PlayerOrder[t + 1]] =
                       [moves |-> @.moves + 1, laps |-> @.laps + lap]]
      BY <1>1 DEF AfterMove
    <2> QED
      BY <2>1, <2>2, <2>3 DEF Game
  <1>5. a.turnIndex = (t + 1) % N /\ a.moveSeq = g.moveSeq + 1
    BY DEF AfterMove
  <1> HIDE DEF t, r, a, moves
  <1>6. CASE t < N - 1
    <2>1. a.turnIndex = t + 1
      BY <1>1, <1>5, <1>6, OrderFacts
    <2>2. a.cars[PlayerOrder[N]].moves = r
      BY <1>1, <1>2, <1>3, <1>4, <1>6, OrderFacts DEF moves, r
    <2>3. a.moveSeq = r * N + a.turnIndex
      BY <1>1, <1>3, <1>5, <2>1, OrderFacts
    <2>4. \A i \in 1..N : a.cars[PlayerOrder[i]].moves =
                            r + (IF i <= a.turnIndex THEN 1 ELSE 0)
      BY <1>1, <1>2, <1>3, <1>4, <2>1
    <2> QED
      BY <2>2, <2>3, <2>4 DEF Lockstep, a
  <1>7. CASE t = N - 1
    <2>1. a.turnIndex = 0
      BY <1>5, <1>7, OrderFacts
    <2>2. a.cars[PlayerOrder[N]].moves = r + 1
      BY <1>1, <1>2, <1>3, <1>4, <1>7, OrderFacts DEF moves, r
    <2>3. (r + 1) * N = r * N + N
      BY <1>3, OrderFacts
    <2>4. a.moveSeq = (r + 1) * N + a.turnIndex
      BY <1>1, <1>3, <1>5, <1>7, <2>1, <2>3, OrderFacts
    <2>5. \A i \in 1..N : a.cars[PlayerOrder[i]].moves =
                            (r + 1) + (IF i <= a.turnIndex THEN 1 ELSE 0)
      BY <1>1, <1>2, <1>3, <1>4, <1>7, <2>1, OrderFacts
    <2> QED
      BY <2>2, <2>4, <2>5 DEF Lockstep, a
  <1> QED
    BY <1>1, <1>6, <1>7, OrderFacts

(* What the turn rule needs of the calls that are under way: none. Each    *)
(* stored race is a call's copy, each copy is a move made on a stored race *)
(* by the player whose turn it is in it (the check of NOT_YOUR_TURN).      *)
THEOREM TurnOrder == Spec => []TurnLockstep
  <1>1. Init => TurnLockstep
    BY DEF Init, TurnLockstep, IdleCall
  <1>2. TypeOK /\ TurnLockstep /\ [Next]_vars => TurnLockstep'
    <2> SUFFICES ASSUME TypeOK, TurnLockstep, [Next]_vars
                 PROVE  TurnLockstep'
      OBVIOUS
    <2>1. ASSUME NEW s \in Starter,
                 CheckLobby(s) \/ CreateReplay(s) \/ MarkRacing(s) \/ StarterDies(s)
          PROVE  TurnLockstep'
      BY <2>1 DEF TurnLockstep, CheckLobby, CreateReplay, MarkRacing, StarterDies
    <2>2. ASSUME NEW s \in Starter, StoreNewGame(s)
          PROVE  TurnLockstep'
      <3>1. starter[s].replayId \in Nat
        BY DEF TypeOK, StarterRecord
      <3>2. Lockstep(game')
        BY <2>2, <3>1, NewGameLockstep DEF StoreNewGame
      <3> QED
        BY <2>2, <3>2 DEF TurnLockstep, StoreNewGame
    <2>3. ASSUME NEW h \in Call, SendMove(h) \/ DeadlineLoad(h)
          PROVE  TurnLockstep'
      <3>1. PICK seq : call' = [call EXCEPT ![h] = SentCall(CurrentPlayer(game), seq)]
        BY <2>3 DEF SendMove, DeadlineLoad
      <3>2. SentCall(CurrentPlayer(game), seq).next = NoGame /\ game' = game
        BY <2>3 DEF SendMove, DeadlineLoad, SentCall
      <3> QED
        BY <3>1, <3>2 DEF TurnLockstep, TypeOK
    <2>4. ASSUME NEW h \in Call, RejectMove(h) \/ MarkFinished(h) \/ CallDies(h)
          PROVE  TurnLockstep'
      BY <2>4, IdleCallType
         DEF TurnLockstep, RejectMove, MarkFinished, CallDies, TypeOK
    <2>5. ASSUME NEW h \in Call, NEW lap \in 0..1, ReadGame(h, lap)
          PROVE  TurnLockstep'
      <3>1. game \in Game /\ Lockstep(game) /\ call[h].user = CurrentPlayer(game)
        BY <2>5 DEF ReadGame, MayMove, TurnLockstep, TypeOK
      <3>2. Lockstep(AfterMove(game, call[h].user, lap))
        BY <3>1, AfterMoveLockstep
      <3> QED
        BY <2>5, <3>2 DEF TurnLockstep, ReadGame, TypeOK, CallRecord
    <2>6. ASSUME NEW h \in Call, ReadReplay(h) \/ WriteReplay(h)
          PROVE  TurnLockstep'
      <3>1. call \in [Call -> CallRecord] /\ game' = game
        BY <2>6 DEF ReadReplay, WriteReplay, TypeOK
      <3>2. ASSUME NEW k \in Call
            PROVE  call'[k].next = call[k].next
        <4>1. CASE ReadReplay(h)
          BY <3>1, <4>1 DEF ReadReplay, CallRecord
        <4>2. CASE WriteReplay(h)
          BY <3>1, <4>2 DEF WriteReplay, CallRecord
        <4> QED
          BY <2>6, <4>1, <4>2
      <3> QED
        BY <3>1, <3>2 DEF TurnLockstep
    <2>7. ASSUME NEW h \in Call, StoreGame(h)
          PROVE  TurnLockstep'
      BY <2>7, IdleCallType DEF TurnLockstep, StoreGame, TypeOK
    <2>8. ASSUME NEW h \in Call, DeleteGame(h)
          PROVE  TurnLockstep'
      <3>1. [IdleCall EXCEPT !.pc = "finish"].next = NoGame
        BY IdleCallType DEF CallRecord
      <3> QED
        BY <2>8, <3>1 DEF TurnLockstep, DeleteGame, TypeOK
    <2>9. CASE UNCHANGED vars
      BY <2>9 DEF TurnLockstep, vars
    <2> QED
      BY <2>1, <2>2, <2>3, <2>4, <2>5, <2>6, <2>7, <2>8, <2>9 DEF Next
  <1> QED
    BY <1>1, <1>2, TypeCorrect, PTL DEF Spec

-----------------------------------------------------------------------------
(* The remainder of a division is the only number below the divisor that   *)
(* differs from the dividend by a multiple of the divisor.                 *)
LEMMA ModUnique ==
    ASSUME NEW n \in Nat \ {0}, NEW r \in Nat, NEW t \in 0..(n - 1)
    PROVE  (r * n + t) % n = t
  <1> DEFINE s == r * n + t
             q == s \div n
             m == s % n
  <1>1. s \in Int /\ r * n \in Int
    OBVIOUS
  <1>2. m \in 0..(n - 1) /\ q \in Int /\ s = n * q + m
    BY <1>1
  <1>3. n * q = q * n /\ (q - r) * n = q * n - r * n
    BY <1>1, <1>2
  <1> HIDE DEF m, q
  <1>4. (q - r) * n = t - m
    BY <1>1, <1>2, <1>3
  <1>5. q - r = 0
    <2> DEFINE d == q - r
    <2>1. d \in Int /\ d * n = t - m
      BY <1>2, <1>4
    <2> HIDE DEF d
    <2>2. CASE d >= 1
      <3>1. d * n >= n
        BY <2>1, <2>2
      <3> QED
        BY <3>1, <2>1, <1>2
    <2>3. CASE d <= -1
      <3>1. d * n <= -n
        BY <2>1, <2>3
      <3> QED
        BY <3>1, <2>1, <1>2
    <2> QED
      BY <2>1, <2>2, <2>3 DEF d
  <1> QED
    BY <1>4, <1>5, <1>2 DEF m

(* Where the turn rule holds, moveSeq tells whose turn it is. *)
LEMMA MoverOfSeq ==
    ASSUME NEW g \in Game, Lockstep(g)
    PROVE  CurrentPlayer(g) = PlayerOrder[(g.moveSeq % N) + 1]
  <1> DEFINE r == g.cars[PlayerOrder[N]].moves
  <1>1. r \in Nat /\ g.turnIndex \in 0..(N - 1) /\ g.moveSeq = r * N + g.turnIndex
    BY OrderFacts DEF Lockstep, Game, Car
  <1>2. N \in Nat \ {0}
    BY OrderFacts
  <1> HIDE DEF r
  <1>3. (r * N + g.turnIndex) % N = g.turnIndex
    BY <1>1, <1>2, ModUnique
  <1> QED
    BY <1>1, <1>3, TurnInOrder

Rightful(e) == e.moveSeq > 0 /\ e.userId = PlayerOrder[((e.moveSeq - 1) % N) + 1]
AllRightful(list) == \A k \in DOMAIN list : Rightful(list[k])

(* A call carries the list it will write back and, from its read on, a     *)
(* move that is the mover's own: that makes the rule on replays inductive. *)
ReplayInv ==
    /\ \A r \in DOMAIN replays : AllRightful(replays[r])
    /\ \A h \in Call :
          /\ AllRightful(call[h].list)
          /\ call[h].pc \in {"readReplay", "writeReplay"} => Rightful(MoveEntry(call[h]))

LEMMA IdleLists ==
    /\ AllRightful(<<>>)
    /\ IdleCall.list = <<>>
    /\ \A u \in Player, seq \in Nat \cup {Unchecked} :
          SentCall(u, seq).list = <<>> /\ SentCall(u, seq).pc = "sent"
  BY DEF AllRightful, IdleCall, SentCall

(* Entries of a replay name the player whose turn their moveSeq is         *)
(* (appendReplayMove), whatever was lost or appended twice.                *)
THEOREM ReplayOrder == Spec => []ReplayTurnOrder
  <1>1. Init => ReplayInv
    BY IdleLists, IdleCallType DEF Init, ReplayInv
  <1>2. TypeOK /\ TurnLockstep /\ ReplayInv /\ [Next]_vars => ReplayInv'
    <2> SUFFICES ASSUME TypeOK, TurnLockstep, ReplayInv, [Next]_vars
                 PROVE  ReplayInv'
      OBVIOUS
    <2>0. call \in [Call -> CallRecord] /\ replays \in Seq(Seq(ReplayMoveEntry))
      BY DEF TypeOK
    <2>1. ASSUME NEW s \in Starter,
                 CheckLobby(s) \/ StoreNewGame(s) \/ MarkRacing(s) \/ StarterDies(s)
          PROVE  ReplayInv'
      BY <2>1 DEF ReplayInv, CheckLobby, StoreNewGame, MarkRacing, StarterDies
    <2>2. ASSUME NEW s \in Starter, CreateReplay(s)
          PROVE  ReplayInv'
      <3>1. ASSUME NEW r \in DOMAIN replays'
            PROVE  AllRightful(replays'[r])
        <4>1. CASE r \in DOMAIN replays
          BY <2>0, <2>2, <4>1 DEF CreateReplay, ReplayInv
        <4>2. CASE r \notin DOMAIN replays
          BY <2>0, <2>2, <4>2, IdleLists DEF CreateReplay
        <4> QED
          BY <4>1, <4>2
      <3> QED
        BY <2>2, <3>1 DEF CreateReplay, ReplayInv
    <2>3. ASSUME NEW h \in Call, SendMove(h) \/ DeadlineLoad(h)
          PROVE  ReplayInv'
      <3>1. game \in Game
        BY <2>3 DEF SendMove, DeadlineLoad, TypeOK
      <3>2. PICK seq \in Nat \cup {Unchecked} :
                call' = [call EXCEPT ![h] = SentCall(CurrentPlayer(game), seq)]
        BY <2>3, <3>1 DEF SendMove, DeadlineLoad, Game
      <3>3. CurrentPlayer(game) \in Player
        BY <3>1, TurnInOrder
      <3>4. replays' = replays
        BY <2>3 DEF SendMove, DeadlineLoad
      <3> QED
        BY <2>0, <3>2, <3>3, <3>4, IdleLists DEF ReplayInv
    <2>4. ASSUME NEW h \in Call,
                 RejectMove(h) \/ StoreGame(h) \/ MarkFinished(h) \/ CallDies(h)
          PROVE  ReplayInv'
      BY <2>0, <2>4, IdleLists, IdleCallType
         DEF ReplayInv, RejectMove, StoreGame, MarkFinished, CallDies
    <2>5. ASSUME NEW h \in Call, DeleteGame(h)
          PROVE  ReplayInv'
      <3>1. /\ [IdleCall EXCEPT !.pc = "finish"].pc = "finish"
            /\ [IdleCall EXCEPT !.pc = "finish"].list = <<>>
        BY DEF IdleCall
      <3> QED
        BY <2>0, <2>5, <3>1, IdleLists DEF ReplayInv, DeleteGame
    <2>6. ASSUME NEW h \in Call, NEW lap \in 0..1, ReadGame(h, lap)
          PROVE  ReplayInv'
      <3> DEFINE next == AfterMove(game, call[h].user, lap)
      <3>1. game \in Game /\ Lockstep(game) /\ call[h].user = CurrentPlayer(game)
        BY <2>6 DEF ReadGame, MayMove, TurnLockstep, TypeOK
      <3>2. game.moveSeq \in Nat /\ next.moveSeq = game.moveSeq + 1
        BY <3>1 DEF Game, AfterMove
      <3>3. next.moveSeq > 0 /\ next.moveSeq - 1 = game.moveSeq
        BY <3>2
      <3>4. call[h].user = PlayerOrder[((next.moveSeq - 1) % N) + 1]
        BY <3>1, <3>3, MoverOfSeq
      <3> HIDE DEF next
      <3>5. /\ call'[h].pc = "readReplay" /\ call'[h].next = next
            /\ call'[h].user = call[h].user /\ call'[h].list = call[h].list
        BY <2>0, <2>6 DEF ReadGame, CallRecord, next
      <3>6. Rightful(MoveEntry(call'[h]))
        BY <3>3, <3>4, <3>5 DEF Rightful, MoveEntry
      <3>7. \A k \in Call : k # h => call'[k] = call[k]
        BY <2>0, <2>6 DEF ReadGame
      <3> QED
        BY <2>6, <3>5, <3>6, <3>7 DEF ReplayInv, ReadGame
    <2>7. ASSUME NEW h \in Call, ReadReplay(h)
          PROVE  ReplayInv'
      <3>1. call[h].next.replayId \in DOMAIN replays
        BY <2>7 DEF ReadReplay, TypeOK
      <3>2. /\ call'[h].next = call[h].next /\ call'[h].user = call[h].user
            /\ call'[h].list = replays[call[h].next.replayId]
        BY <2>0, <2>7 DEF ReadReplay, CallRecord
      <3>3. Rightful(MoveEntry(call'[h]))
        BY <2>7, <3>2 DEF ReplayInv, ReadReplay, MoveEntry
      <3>4. \A k \in Call : k # h => call'[k] = call[k]
        BY <2>0, <2>7 DEF ReadReplay
      <3> QED
        BY <2>7, <3>1, <3>2, <3>3, <3>4 DEF ReplayInv, ReadReplay
    <2>8. ASSUME NEW h \in Call, WriteReplay(h)
          PROVE  ReplayInv'
      <3> DEFINE list == Append(call[h].list, MoveEntry(call[h]))
      <3>1. call[h].list \in Seq(ReplayMoveEntry) /\ AllRightful(call[h].list)
        BY <2>0 DEF CallRecord, ReplayInv
      <3>2. Rightful(MoveEntry(call[h]))
        BY <2>8 DEF WriteReplay, ReplayInv
      <3>3. AllRightful(list)
        <4> SUFFICES ASSUME NEW k \in DOMAIN list PROVE Rightful(list[k])
          BY DEF AllRightful
        <4>1. CASE k \in DOMAIN call[h].list
          BY <3>1, <4>1 DEF AllRightful
        <4>2. CASE k \notin DOMAIN call[h].list
          <5>1. list[k] = MoveEntry(call[h])
            BY <3>1, <4>2
          <5> QED
            BY <5>1, <3>2
        <4> QED
          BY <4>1, <4>2
      <3> HIDE DEF list
      <3>4. replays' = [replays EXCEPT ![call[h].next.replayId] = list]
        BY <2>8 DEF WriteReplay, list
      <3>5. \A r \in DOMAIN replays' : AllRightful(replays'[r])
        BY <2>0, <3>3, <3>4 DEF ReplayInv
      <3>6. call'[h].pc = "store" /\ call'[h].list = <<>>
        BY <2>0, <2>8 DEF WriteReplay, CallRecord
      <3>7. \A k \in Call : k # h => call'[k] = call[k]
        BY <2>0, <2>8 DEF WriteReplay
      <3> QED
        BY <3>5, <3>6, <3>7, IdleLists DEF ReplayInv
    <2>9. CASE UNCHANGED vars
      BY <2>9 DEF ReplayInv, vars
    <2> QED
      BY <2>1, <2>2, <2>3, <2>4, <2>5, <2>6, <2>7, <2>8, <2>9 DEF Next
  <1>3. ReplayInv => ReplayTurnOrder
    BY DEF ReplayInv, ReplayTurnOrder, AllRightful, Rightful
  <1> QED
    BY <1>1, <1>2, <1>3, TypeCorrect, TurnOrder, PTL DEF Spec

-----------------------------------------------------------------------------
MidMove == {"readReplay", "writeReplay", "store"}

(* What a step does to the calls: it changes one of them at most.          *)

LEMMA CallKinds ==
    ASSUME TypeOK, [Next]_vars
    PROVE  \/ call' = call
           \/ \E h \in Call :
                 /\ \A k \in Call \ {h} : call'[k] = call[k]
                 /\ \/ SendMove(h) \/ DeadlineLoad(h) \/ RejectMove(h)
                    \/ \E lap \in 0..1 : ReadGame(h, lap)
                    \/ ReadReplay(h) \/ WriteReplay(h) \/ StoreGame(h)
                    \/ DeleteGame(h) \/ MarkFinished(h) \/ CallDies(h)
<1>1. ASSUME NEW h \in Call, NEW c, call' = [call EXCEPT ![h] = c]
      PROVE  \A k \in Call \ {h} : call'[k] = call[k]
    BY <1>1 DEF TypeOK
<1>2. ASSUME NEW h \in Call,
             \/ SendMove(h) \/ DeadlineLoad(h) \/ RejectMove(h)
             \/ \E lap \in 0..1 : ReadGame(h, lap)
             \/ ReadReplay(h) \/ WriteReplay(h) \/ StoreGame(h)
             \/ DeleteGame(h) \/ MarkFinished(h) \/ CallDies(h)
      PROVE  \E c : call' = [call EXCEPT ![h] = c]
    BY <1>2 DEF SendMove, DeadlineLoad, RejectMove, ReadGame, ReadReplay, WriteReplay,
                StoreGame, DeleteGame, MarkFinished, CallDies
<1>3. ASSUME NEW s \in Starter,
             \/ CheckLobby(s) \/ CreateReplay(s) \/ StoreNewGame(s)
             \/ MarkRacing(s) \/ StarterDies(s)
      PROVE  call' = call
    BY <1>3 DEF CheckLobby, CreateReplay, StoreNewGame, MarkRacing, StarterDies
<1>4. CASE UNCHANGED vars
    BY <1>4 DEF vars
<1> QED BY <1>1, <1>2, <1>3, <1>4 DEF Next

(* The state that each action leaves its call in.                          *)
LEMMA CallAfter ==
    ASSUME TypeOK, NEW h \in Call
    PROVE  /\ SendMove(h) \/ DeadlineLoad(h) => call'[h].pc = "sent"
           /\ RejectMove(h) \/ StoreGame(h) \/ MarkFinished(h) \/ CallDies(h)
                => call'[h].pc = "idle"
           /\ \A lap \in 0..1 : ReadGame(h, lap) =>
                 /\ call'[h].pc = "readReplay"
                 /\ call'[h].next = AfterMove(game, CurrentPlayer(game), lap)
           /\ ReadReplay(h) =>
                 /\ call'[h].pc = "writeReplay" /\ call'[h].next = call[h].next
                 /\ call'[h].list = replays[call[h].next.replayId]
           /\ WriteReplay(h) =>
                 /\ call'[h].pc = "store" /\ call'[h].next = call[h].next
           /\ DeleteGame(h) => call'[h].pc = "finish"
<1> USE DEF TypeOK, CallRecord
<1>1. SendMove(h) \/ DeadlineLoad(h) => call'[h].pc = "sent"
    BY DEF SendMove, DeadlineLoad, SentCall
<1>2. RejectMove(h) \/ StoreGame(h) \/ MarkFinished(h) \/ CallDies(h)
        => call'[h].pc = "idle"
    BY DEF RejectMove, StoreGame, MarkFinished, CallDies, IdleCall
<1>3. \A lap \in 0..1 : ReadGame(h, lap) =>
         /\ call'[h].pc = "readReplay"
         /\ call'[h].next = AfterMove(game, CurrentPlayer(game), lap)
    BY DEF ReadGame, MayMove
<1>4. ReadReplay(h) =>
         /\ call'[h].pc = "writeReplay" /\ call'[h].next = call[h].next
         /\ call'[h].list = replays[call[h].next.replayId]
    BY DEF ReadReplay
<1>5. WriteReplay(h) => call'[h].pc = "store" /\ call'[h].next = call[h].next
    BY DEF WriteReplay
<1>6. DeleteGame(h) => call'[h].pc = "finish"
    BY DEF DeleteGame, IdleCall
<1> QED BY <1>1, <1>2, <1>3, <1>4, <1>5, <1>6

(* The only steps that change the race, the status or a replay.            *)
LEMMA GameKinds ==
    ASSUME [Next]_vars
    PROVE  /\ \/ game' = game
              \/ \E s \in Starter : StoreNewGame(s)
              \/ \E h \in Call : StoreGame(h) \/ DeleteGame(h)
           /\ \/ status' = status
              \/ \E s \in Starter : MarkRacing(s)
              \/ \E h \in Call : MarkFinished(h)
           /\ \/ replays' = replays
              \/ \E s \in Starter : CreateReplay(s)
              \/ \E h \in Call : WriteReplay(h)
BY DEF Next, vars, CheckLobby, CreateReplay, StoreNewGame, MarkRacing, StarterDies,
       SendMove, DeadlineLoad, RejectMove, ReadGame, ReadReplay, WriteReplay,
       StoreGame, DeleteGame, MarkFinished, CallDies
-----------------------------------------------------------------------------
(* A call that is not late holds the race in Redis with one move of its    *)
(* mover on top.                                                           *)
StandsOnRace(h) ==
    call[h].pc \in MidMove =>
        /\ game # NoGame
        /\ \E lap \in 0..1 : call[h].next = AfterMove(game, CurrentPlayer(game), lap)

Unstarted == {"counting", "checked", "created"}
Over == status = "FINISHED" \/ \E h \in Call : call[h].pc = "finish"

(* A start that is not through and not late: there has been no race yet.   *)
HasNoRace(s) == starter[s].pc \in Unstarted => game = NoGame /\ ~Over

LateInv ==
    /\ \A h \in Call \ late : StandsOnRace(h)
    /\ \A s \in Starter \ late : HasNoRace(s)
    /\ Over /\ ~revived => game = NoGame

(* What a step does to the histories.                                      *)
LEMMA LateKinds ==
    ASSUME [Next]_vars
    PROVE  \/ late' = late /\ revived' = revived /\ game' = game
           \/ \E s \in Starter : CheckLobby(s) \/ StoreNewGame(s)
           \/ \E h \in Call : \/ \E lap \in 0..1 : ReadGame(h, lap)
                              \/ StoreGame(h) \/ DeleteGame(h)
BY DEF Next, vars, history, CreateReplay, MarkRacing, StarterDies, SendMove, DeadlineLoad,
       RejectMove, ReadReplay, WriteReplay, MarkFinished, CallDies

(* Where a start is before its race is stored, it was before.              *)
LEMMA StarterAfter ==
    ASSUME TypeOK, [Next]_vars, NEW s \in Starter, starter'[s].pc \in Unstarted
    PROVE  /\ starter[s].pc \in Unstarted /\ ~StoreNewGame(s)
           /\ CheckLobby(s) => status = "WAITING"
<1>1. ~StoreNewGame(s)
    BY DEF StoreNewGame, TypeOK, Unstarted, StarterRecord
<1>2. CheckLobby(s) => status = "WAITING"
    BY DEF CheckLobby, TypeOK, Unstarted, StarterRecord
<1>3. ASSUME NEW t \in Starter, \/ CheckLobby(t) \/ CreateReplay(t) \/ StoreNewGame(t)
                                \/ MarkRacing(t) \/ StarterDies(t)
      PROVE  starter[s].pc \in Unstarted
    <2>1. CASE t # s
        BY <1>3, <2>1 DEF CheckLobby, CreateReplay, StoreNewGame, MarkRacing, StarterDies,
           TypeOK
    <2>2. CASE t = s
        BY <1>1, <1>3, <2>2 DEF CheckLobby, CreateReplay, MarkRacing, StarterDies, TypeOK,
           StarterRecord, Unstarted
    <2> QED BY <2>1, <2>2
<1>4. starter' = starter => starter[s].pc \in Unstarted
    OBVIOUS
<1>5. CASE \E h \in Call : \/ SendMove(h) \/ DeadlineLoad(h) \/ RejectMove(h)
                           \/ \E lap \in 0..1 : ReadGame(h, lap)
                           \/ ReadReplay(h) \/ WriteReplay(h) \/ StoreGame(h)
                           \/ DeleteGame(h) \/ MarkFinished(h) \/ CallDies(h)
    <2>1. starter' = starter
        BY <1>5 DEF SendMove, DeadlineLoad, RejectMove, ReadGame, ReadReplay, WriteReplay,
           StoreGame, DeleteGame, MarkFinished, CallDies
    <2> QED BY <1>1, <1>2, <1>4, <2>1
<1>6. CASE UNCHANGED vars
    BY <1>1, <1>2, <1>4, <1>6 DEF vars
<1> QED BY <1>1, <1>2, <1>3, <1>5, <1>6 DEF Next

(* A race that is over has been deleted, by a call that may still have to  *)
(* set the status.                                                         *)
LEMMA OverAfter ==
    ASSUME TypeOK, [Next]_vars, Over'
    PROVE  Over \/ \E h \in Call : DeleteGame(h)
<1>1. ASSUME status' = "FINISHED" PROVE Over
    BY <1>1, GameKinds DEF Over, MarkFinished, MarkRacing
<1>2. ASSUME NEW h \in Call, call'[h].pc = "finish"
      PROVE  Over \/ DeleteGame(h)
    <2>1. CASE call'[h] = call[h]
        BY <1>2, <2>1 DEF Over
    <2>2. CASE call'[h] # call[h]
        BY <1>2, <2>2, CallKinds, CallAfter
    <2> QED BY <2>1, <2>2
<1> QED BY <1>1, <1>2 DEF Over

LEMMA StandsStep ==
    ASSUME TypeOK, LateInv, [Next]_vars, NEW h \in Call, h \notin late'
    PROVE  StandsOnRace(h)'
<1> SUFFICES ASSUME call'[h].pc \in MidMove
             PROVE  /\ game' # NoGame
                    /\ \E lap \in 0..1 :
                          call'[h].next = AfterMove(game', CurrentPlayer(game'), lap)
    BY DEF StandsOnRace, CurrentPlayer, AfterMove
<1>1. CASE \E lap \in 0..1 : ReadGame(h, lap)
    <2>1. game # NoGame /\ game' = game
        BY <1>1 DEF ReadGame, MayMove
    <2> QED BY <1>1, <2>1, CallAfter
<1>2. CASE ~\E lap \in 0..1 : ReadGame(h, lap)
    <2>1. /\ call[h].pc \in MidMove /\ call'[h].next = call[h].next
          /\ ~StoreGame(h) /\ ~DeleteGame(h)
        <3>1. CASE call'[h] = call[h]
            BY <3>1, CallAfter DEF MidMove
        <3>2. CASE ReadReplay(h) \/ WriteReplay(h)
            BY <3>2, CallAfter DEF ReadReplay, WriteReplay, MidMove, StoreGame, DeleteGame
        <3>3. ASSUME call'[h] # call[h], ~ReadReplay(h), ~WriteReplay(h) PROVE FALSE
            BY <1>2, <3>3, CallKinds, CallAfter DEF MidMove
        <3> QED BY <3>1, <3>2, <3>3
    <2>2. h \in InService
        BY <2>1 DEF InService, MidMove
    <2>3. ASSUME NEW k \in Call \cup Starter, k # h PROVE ~Overtakes(k)
        BY <2>2, <2>3 DEF Overtakes
    <2>4. /\ \A s \in Starter : ~StoreNewGame(s)
          /\ \A k \in Call : ~StoreGame(k) /\ ~DeleteGame(k)
        BY <2>1, <2>3, SlotAssumption DEF StoreNewGame, StoreGame, DeleteGame
    <2>5. game' = game
        BY <2>4, GameKinds
    <2>6. h \notin late
        <3>1. ASSUME NEW k \in Call, NEW lap \in 0..1, ReadGame(k, lap)
              PROVE  h \notin late
            BY <1>2, <3>1 DEF ReadGame
        <3>2. ASSUME NEW s \in Starter, CheckLobby(s)
              PROVE  h \notin late
            BY <3>2, SlotAssumption DEF CheckLobby, Noticed
        <3> QED BY <2>4, <3>1, <3>2, LateKinds
    <2> QED BY <2>1, <2>5, <2>6 DEF LateInv, StandsOnRace
<1> QED BY <1>1, <1>2

LEMMA NoRaceStep ==
    ASSUME TypeOK, LateInv, [Next]_vars, NEW s \in Starter, s \notin late',
           starter'[s].pc \in Unstarted
    PROVE  game' = NoGame /\ ~Over'
<1>1. starter[s].pc \in Unstarted /\ ~StoreNewGame(s) /\ (CheckLobby(s) => status = "WAITING")
    BY StarterAfter
<1>2. ASSUME NEW k \in Call \cup Starter, k # s PROVE ~Overtakes(k)
    BY <1>1, <1>2 DEF Overtakes, Unstarted
<1>3. /\ \A t \in Starter : ~StoreNewGame(t)
      /\ \A k \in Call : ~StoreGame(k) /\ ~DeleteGame(k)
    BY <1>1, <1>2, SlotAssumption DEF StoreNewGame, StoreGame, DeleteGame
<1>4. s \notin late
    <2>1. ASSUME NEW k \in Call, NEW lap \in 0..1, ReadGame(k, lap)
          PROVE  s \notin late
        BY <2>1, SlotAssumption DEF ReadGame
    <2>2. ASSUME NEW t \in Starter, CheckLobby(t)
          PROVE  s \notin late
        BY <1>1, <2>2 DEF CheckLobby, Noticed
    <2> QED BY <1>3, <2>1, <2>2, LateKinds
<1>5. game = NoGame /\ ~Over
    BY <1>1, <1>4 DEF LateInv, HasNoRace
<1> QED BY <1>3, <1>5, GameKinds, OverAfter

LEMMA GoneStep ==
    ASSUME TypeOK, LateInv, [Next]_vars, Over', ~revived'
    PROVE  game' = NoGame
<1>1. ASSUME NEW h \in Call, DeleteGame(h) PROVE game' = NoGame
    BY <1>1 DEF DeleteGame
<1>2. ASSUME NEW h \in Call, StoreGame(h), Over PROVE FALSE
    <2>1. h \notin late /\ ~revived /\ call[h].pc \in MidMove
        BY <1>2 DEF StoreGame, MidMove, TypeOK
    <2> QED BY <1>2, <2>1 DEF LateInv, StandsOnRace
<1>3. ASSUME NEW s \in Starter, StoreNewGame(s), Over PROVE FALSE
    <2>1. s \notin late /\ starter[s].pc \in Unstarted
        BY <1>3 DEF StoreNewGame, Unstarted, TypeOK
    <2> QED BY <1>3, <2>1 DEF LateInv, HasNoRace
<1>4. ASSUME ~\E h \in Call : DeleteGame(h)
      PROVE  game' = NoGame
    <2>1. Over
        BY <1>4, OverAfter
    <2>2. game' = game
        BY <1>2, <1>3, <1>4, <2>1, GameKinds
    <2>3. ~revived
        BY <1>2, <1>3, <1>4, <2>1, LateKinds DEF CheckLobby, ReadGame
    <2> QED BY <2>1, <2>2, <2>3 DEF LateInv
<1> QED BY <1>1, <1>4

LEMMA LateHolds == Spec => []LateInv
<1>1. Init => LateInv
    BY IdleCallType DEF Init, LateInv, StandsOnRace, HasNoRace, Over, MidMove
<1>2. TypeOK /\ LateInv /\ [Next]_vars => LateInv'
    <2> SUFFICES ASSUME TypeOK, LateInv, [Next]_vars PROVE LateInv'
        OBVIOUS
    <2>1. \A h \in Call \ late' : StandsOnRace(h)'
        BY StandsStep
    <2>2. \A s \in Starter \ late' : HasNoRace(s)'
        BY NoRaceStep DEF HasNoRace
    <2>3. (Over /\ ~revived => game = NoGame)'
        BY GoneStep
    <2> QED BY <2>1, <2>2, <2>3 DEF LateInv
<1> QED BY <1>1, <1>2, TypeCorrect, PTL DEF Spec

(* A room that is FINISHED has no race in Redis, however calls and starts  *)
(* overlap and die: only a call that had read the race, or a start that    *)
(* was not through, when the key went brings one back (redis.del, then     *)
(* setRoomStatus).                                                         *)
THEOREM FinishedMeansGone == Spec => []FinishedRoomHasNoRace
<1>1. LateInv => FinishedRoomHasNoRace
    BY DEF LateInv, Over, FinishedRoomHasNoRace
<1> QED BY <1>1, LateHolds, PTL

(* Each stored race is one move of the player whose turn it is on top of   *)
(* the race that was stored before, whatever overlaps and dies: moves get  *)
(* lost, or the race starts again, only by a call or a start that was      *)
(* under way when another changed the race (applySubmitMove, startRace).   *)
THEOREM OnlyLateCallsLoseMoves == Spec => MovesAreKept
<1> DEFINE Kept ==
       \/ game' = game
       \/ game = NoGame /\ \E s \in Starter \ late : StoreNewGame(s)
       \/ /\ game # NoGame
          /\ \E lap \in 0..1 :
                LET next == AfterMove(game, CurrentPlayer(game), lap) IN
                game' = IF AllDone(next) THEN NoGame ELSE next
       \/ \E h \in late \cap Call : StoreGame(h) \/ DeleteGame(h)
       \/ \E s \in late \cap Starter : StoreNewGame(s)
<1>1. TypeOK /\ LateInv /\ [Next]_vars => [Kept]_vars
    <2> SUFFICES ASSUME TypeOK, LateInv, [Next]_vars PROVE Kept
        OBVIOUS
    <2>1. ASSUME NEW h \in Call, StoreGame(h) \/ DeleteGame(h), h \notin late
          PROVE  Kept
        <3>1. call[h].pc \in MidMove
            BY <2>1 DEF StoreGame, DeleteGame, MidMove
        <3>2. game # NoGame
            BY <2>1, <3>1 DEF LateInv, StandsOnRace
        <3>3. PICK lap \in 0..1 : call[h].next = AfterMove(game, CurrentPlayer(game), lap)
            BY <2>1, <3>1 DEF LateInv, StandsOnRace
        <3>4. game' = IF AllDone(call[h].next) THEN NoGame ELSE call[h].next
            BY <2>1 DEF StoreGame, DeleteGame
        <3> QED BY <3>2, <3>3, <3>4
    <2>2. ASSUME NEW s \in Starter, StoreNewGame(s), s \notin late
          PROVE  Kept
        BY <2>2 DEF StoreNewGame, LateInv, HasNoRace, Unstarted
    <2> QED BY <2>1, <2>2, GameKinds
<1> QED BY <1>1, TypeCorrect, LateHolds, PTL DEF Spec, MovesAreKept
=============================================================================
