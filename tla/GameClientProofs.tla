-------------------------- MODULE GameClientProofs --------------------------
(***************************************************************************)
(* Theorems about GameClient: what the page shows, for any number of       *)
(* players, moves, clicks, lost connections and failed stores.             *)
(***************************************************************************)
EXTENDS GameClient, SequenceTheorems, TLAPS

-----------------------------------------------------------------------------
(* States that the page may hear of while the race has the moves ms.       *)

Prefix(ms, k) == SubSeq(ms, 1, k)

(* A race that is not over stood like this once.                           *)
Told(s, ms) ==
    /\ s \in Seq(Move)
    /\ Len(s) < RaceLength
    /\ Len(s) <= Len(ms)
    /\ s = Prefix(ms, Len(s))

(* One move of the page itself on top of such a state.                     *)
Ahead(s, ms) ==
    \E k \in 0..Len(ms) :
        k < RaceLength /\ k % N = MyIndex /\ s = Append(Prefix(ms, k), "mine")

(* The moves ns of the race extend ms.                                     *)
Grown(ms, ns) ==
    ns = ms \/ \E m \in Move : ns = Append(ms, m)

Wire == [type : {"game_start", "state_update", "game_end", "rejected", "error"},
         state : Seq(Move)]

Telling(d, ms) ==
    d \in Seq(Wire) /\ \A k \in 1..Len(d) : Told(d[k].state, ms)

-----------------------------------------------------------------------------
LEMMA PrefixOf ==
    ASSUME NEW ms \in Seq(Move), NEW k \in 0..Len(ms)
    PROVE  /\ Prefix(ms, k) \in Seq(Move)
           /\ Len(Prefix(ms, k)) = k
           /\ \A i \in 1..k : Prefix(ms, k)[i] = ms[i]
<1>1. \A i \in 1..k : ms[i] \in Move
    BY ElementOfSeq, LenProperties
<1>2. k \in Int /\ 1 \in Int /\ k - 1 + 1 = k /\ k >= 0
    BY LenProperties
<1>3. /\ SubSeq(ms, 1, k) \in Seq(Move)
      /\ Len(SubSeq(ms, 1, k)) = IF 1 <= k THEN k - 1 + 1 ELSE 0
      /\ \A i \in 1..(k - 1 + 1) : SubSeq(ms, 1, k)[i] = ms[1 + i - 1]
    BY <1>1, <1>2, SubSeqProperties
<1> QED BY <1>2, <1>3 DEF Prefix

(* A move on top leaves every earlier state of the race what it was.       *)
LEMMA PrefixStays ==
    ASSUME NEW ms \in Seq(Move), NEW ns \in Seq(Move), Grown(ms, ns),
           NEW k \in 0..Len(ms)
    PROVE  k \in 0..Len(ns) /\ Prefix(ns, k) = Prefix(ms, k)
<1>1. CASE ns = ms
    BY <1>1
<1>2. CASE \E m \in Move : ns = Append(ms, m)
    <2>1. PICK m \in Move : ns = Append(ms, m)
        BY <1>2
    <2>2. Len(ns) = Len(ms) + 1 /\ \A i \in 1..Len(ms) : ns[i] = ms[i]
        BY <2>1
    <2>3. k \in 0..Len(ns) /\ \A i \in 1..k : ns[i] = ms[i]
        BY <2>2, LenProperties
    <2>4. \A i \in 1..k : Prefix(ns, k)[i] = Prefix(ms, k)[i]
        BY <2>3, PrefixOf
    <2> QED BY <2>3, <2>4, PrefixOf, SeqEqual
<1> QED BY <1>1, <1>2 DEF Grown

LEMMA ToldStays ==
    ASSUME NEW ms \in Seq(Move), NEW ns \in Seq(Move), Grown(ms, ns), NEW s,
           Told(s, ms)
    PROVE  Told(s, ns)
<1>1. s \in Seq(Move) /\ Len(s) \in 0..Len(ms)
    BY LenProperties DEF Told
<1>2. Len(s) \in 0..Len(ns) /\ Prefix(ns, Len(s)) = Prefix(ms, Len(s))
    BY <1>1, PrefixStays
<1> QED BY <1>1, <1>2 DEF Told

LEMMA AheadStays ==
    ASSUME NEW ms \in Seq(Move), NEW ns \in Seq(Move), Grown(ms, ns), NEW s,
           Ahead(s, ms)
    PROVE  Ahead(s, ns)
BY PrefixStays DEF Ahead

(* The race as it stands, before its last move, and at its start.          *)
LEMMA ToldNow ==
    ASSUME NEW ms \in Seq(Move), Len(ms) < RaceLength
    PROVE  Told(ms, ms)
BY SubSeqFull, LenProperties DEF Told, Prefix

LEMMA ToldFirst ==
    ASSUME NEW ms \in Seq(Move)
    PROVE  Told(<<>>, ms)
<1>1. <<>> \in Seq(Move) /\ Len(<<>>) = 0 /\ Len(ms) \in Nat
    BY EmptySeq, LenProperties
<1>2. Prefix(ms, 0) = <<>>
    BY SubSeqEmpty DEF Prefix
<1> QED BY <1>1, <1>2, RaceAssumption DEF Told

LEMMA TellingStays ==
    ASSUME NEW ms \in Seq(Move), NEW ns \in Seq(Move), Grown(ms, ns), NEW d,
           Telling(d, ms)
    PROVE  Telling(d, ns)
BY ToldStays DEF Telling

LEMMA TellingNothing ==
    ASSUME NEW ms
    PROVE  Telling(<<>>, ms)
BY EmptySeq DEF Telling

LEMMA TellingMore ==
    ASSUME NEW ms, NEW d, Telling(d, ms), NEW msg \in Wire, Told(msg.state, ms)
    PROVE  Telling(Append(d, msg), ms)
<1>1. d \in Seq(Wire) /\ Append(d, msg) \in Seq(Wire) /\ Len(d) \in Nat
    BY LenProperties DEF Telling
<1>2. /\ Len(Append(d, msg)) = Len(d) + 1
      /\ \A k \in 1..Len(d) : Append(d, msg)[k] = d[k]
      /\ Append(d, msg)[Len(d) + 1] = msg
    BY <1>1
<1>3. \A k \in 1..(Len(d) + 1) : k \in 1..Len(d) \/ k = Len(d) + 1
    BY <1>1
<1> QED BY <1>1, <1>2, <1>3 DEF Telling

LEMMA TellingRest ==
    ASSUME NEW ms, NEW d, Telling(d, ms), d # <<>>
    PROVE  /\ Head(d) \in Wire /\ Told(Head(d).state, ms)
           /\ Telling(Tail(d), ms)
<1>1. /\ d \in Seq(Wire) /\ Tail(d) \in Seq(Wire) /\ Len(d) \in Nat \ {0}
      /\ Len(Tail(d)) = Len(d) - 1 /\ Head(d) \in Wire
      /\ \A k \in 1..Len(Tail(d)) : Tail(d)[k] = d[k + 1]
    BY HeadTailProperties, EmptySeq DEF Telling
<1>2. Head(d) = d[1] /\ 1 \in 1..Len(d)
    BY <1>1
<1>3. \A k \in 1..Len(Tail(d)) : k + 1 \in 1..Len(d)
    BY <1>1
<1> QED BY <1>1, <1>2, <1>3 DEF Telling

(* Two players cannot both be next: the page is at turn once in a round.   *)
LEMMA NotTwiceInARow ==
    ASSUME N > 1, NEW k \in Nat
    PROVE  (k + 1) % N # k % N
<1>1. N \in Nat /\ N > 1
    BY RaceAssumption
<1>2. SUFFICES ASSUME (k + 1) % N = k % N PROVE FALSE
    OBVIOUS
<1>3. k = N * (k \div N) + (k % N) /\ k + 1 = (N * ((k + 1) \div N)) + ((k + 1) % N)
    BY <1>1
<1>4. PICK d \in Int : d = ((k + 1) \div N) - (k \div N)
    BY <1>1
<1>5. N * d = 1
    BY <1>1, <1>2, <1>3, <1>4
<1>6. d <= 0 => N * d <= 0
    BY <1>1, <1>4
<1>7. d >= 1 => N * d >= N
    BY <1>1, <1>4
<1> QED BY <1>1, <1>4, <1>5, <1>6, <1>7
-----------------------------------------------------------------------------
(* What holds for any number of players.                                   *)

ServerInv ==
    /\ stage \in {"lobby", "racing", "over"}
    /\ moves \in Seq(Move) /\ Len(moves) <= RaceLength
    /\ stage # "over" => Len(moves) < RaceLength
    /\ outgoing # Nothing =>
          /\ outgoing \in Wire /\ Told(outgoing.state, moves)
          /\ outgoing.type \in {"game_start", "state_update", "game_end"}

HandlerInv ==
    /\ joined \in BOOLEAN
    /\ resync.pc \in {"none", "load", "send"}
    /\ resync.state # NoRace => Told(resync.state, moves)
    /\ resync.pc = "send" => Told(resync.state, moves)

DownInv == Telling(down, moves)

PageInv ==
    /\ shown # NoRace => shown \in Seq(Move)
    /\ pre # NoRace => pre \in Seq(Move)
    /\ drawn # NoRace => drawn \in Seq(Move)
    /\ ack \in 0..RaceLength /\ results \in BOOLEAN /\ blind \in BOOLEAN

FlagsInv ==
    /\ link \in {"down", "up", "refused", "replaced"}
    /\ authExpired \in BOOLEAN /\ cookieNew \in BOOLEAN /\ overtaken \in BOOLEAN
    /\ drops \in 0..MaxDrops /\ faults \in 0..MaxFaults

DataInv == ServerInv /\ HandlerInv /\ DownInv /\ PageInv /\ FlagsInv


LEMMA ServerKinds ==
    ASSUME [Next]_vars
    PROVE  \/ StartRace \/ ServerMove \/ Emit \/ AcceptMove
           \/ UNCHANGED server
BY DEF Next, vars, server, handler, wire, view, page, token, bounds, ServerWork, PageWork,
       ReceiveJoin, ResyncLoad, ResyncSend, RejectMove, FailMove, Connect, Drop,
       TokenExpires, TokenRenewed, Receive, OnGameStart, OnStateUpdate, OnGameEnd,
       OnRejected, OnError, Render, SubmitMove, EmitMove, EmitReady

LEMMA HandlerKinds ==
    ASSUME [Next]_vars
    PROVE  \/ ReceiveJoin \/ ResyncLoad
           \/ resync' = AtRest /\ joined' \in {joined, FALSE}
           \/ UNCHANGED handler
BY DEF Next, vars, server, handler, wire, view, page, token, bounds, ServerWork, PageWork,
       StartRace, ServerMove, Emit, AcceptMove, ResyncSend, RejectMove, FailMove,
       Connect, Drop, TokenExpires, TokenRenewed, Receive, OnGameStart, OnStateUpdate,
       OnGameEnd, OnRejected, OnError, Render, SubmitMove, EmitMove, EmitReady, Replace

LEMMA DownKinds ==
    ASSUME [Next]_vars
    PROVE  \/ Emit \/ ResyncSend \/ RejectMove \/ FailMove
           \/ down' = <<>>
           \/ down # <<>> /\ down' = Tail(down)
           \/ down' = down
BY DEF Next, vars, server, handler, wire, view, page, token, bounds, ServerWork, PageWork,
       StartRace, ServerMove, AcceptMove, ReceiveJoin, ResyncLoad, Connect, Drop,
       TokenExpires, TokenRenewed, Receive, OnGameStart, OnStateUpdate, OnGameEnd,
       OnRejected, OnError, Render, SubmitMove, EmitMove, EmitReady, Replace

LEMMA PageKinds ==
    ASSUME [Next]_vars
    PROVE  \/ OnGameStart \/ OnStateUpdate \/ OnGameEnd \/ OnRejected
           \/ \E c \in Click : SubmitMove(c)
           \/ UNCHANGED <<page, blind>>
BY DEF Next, vars, server, handler, wire, view, page, token, bounds, ServerWork, PageWork,
       StartRace, ServerMove, Emit, AcceptMove, ReceiveJoin, ResyncLoad, ResyncSend,
       RejectMove, FailMove, Connect, Drop, TokenExpires, TokenRenewed, OnError,
       Render, EmitMove, EmitReady

LEMMA DrawnKinds ==
    ASSUME [Next]_vars
    PROVE  drawn' \in {drawn, shown, shown'}
BY DEF Next, vars, server, handler, wire, view, page, token, bounds, ServerWork, PageWork,
       StartRace, ServerMove, Emit, AcceptMove, ReceiveJoin, ResyncLoad, ResyncSend,
       RejectMove, FailMove, Connect, Drop, TokenExpires, TokenRenewed, Receive,
       OnGameStart, OnStateUpdate, OnGameEnd, OnRejected, OnError, Render, SubmitMove,
       EmitMove, EmitReady

-----------------------------------------------------------------------------
LEMMA StoreStep ==
    ASSUME ServerInv, NEW m \in Move, Store(m)
    PROVE  Grown(moves, moves') /\ ServerInv'
<1>1. /\ moves' = Append(moves, m) /\ moves' \in Seq(Move)
      /\ Len(moves') = Len(moves) + 1 /\ Len(moves) \in Nat
      /\ Len(moves) < RaceLength /\ stage = "racing" /\ RaceLength \in Nat
    BY RaceAssumption DEF ServerInv, Store
<1>2. CASE Len(moves') < RaceLength
    <2>1. Told(moves', moves')
        BY <1>1, <1>2, ToldNow
    <2>2. stage' = stage /\ outgoing' = [type |-> "state_update", state |-> moves']
        BY <1>2 DEF Store, Message
    <2>3. /\ outgoing' \in Wire /\ outgoing'.type = "state_update"
          /\ outgoing'.state = moves'
        BY <1>1, <2>2 DEF Wire
    <2>4. ServerInv'
        BY <1>1, <1>2, <2>1, <2>2, <2>3 DEF ServerInv
    <2> QED BY <1>1, <2>4 DEF Grown
<1>3. CASE ~(Len(moves') < RaceLength)
    <2>1. Told(<<>>, moves') /\ <<>> \in Seq(Move)
        <3>1. moves' \in Seq(Move)
            BY <1>1
        <3> QED BY <3>1, ToldFirst, EmptySeq
    <2>2. stage' = "over" /\ outgoing' = [type |-> "game_end", state |-> <<>>]
        BY <1>3 DEF Store, Message
    <2> QED BY <1>1, <2>1, <2>2 DEF ServerInv, Grown, Wire
<1> QED BY <1>2, <1>3

LEMMA ServerStep ==
    ASSUME ServerInv, [Next]_vars
    PROVE  Grown(moves, moves') /\ ServerInv'
<1>1. CASE StartRace
    <2>1. Told(<<>>, moves) /\ <<>> \in Seq(Move)
        BY ToldFirst DEF ServerInv
    <2> QED BY <1>1, <2>1 DEF StartRace, ServerInv, Grown, Wire, Message
<1>2. CASE ServerMove
    <2>1. PICK m \in Move : Store(m)
        BY <1>2 DEF ServerMove, Move
    <2> QED BY <2>1, StoreStep
<1>3. CASE Emit
    BY <1>3 DEF Emit, ServerInv, Grown
<1>4. CASE AcceptMove
    BY <1>4, StoreStep DEF AcceptMove, Move
<1>5. CASE UNCHANGED server
    BY <1>5 DEF server, ServerInv, Grown
<1> QED BY <1>1, <1>2, <1>3, <1>4, <1>5, ServerKinds

LEMMA HandlerStep ==
    ASSUME ServerInv, HandlerInv, [Next]_vars
    PROVE  HandlerInv'
<1>1. /\ moves \in Seq(Move) /\ moves' \in Seq(Move) /\ Grown(moves, moves')
    BY ServerStep DEF ServerInv
<1>2. CASE ReceiveJoin
    BY <1>2 DEF ReceiveJoin, HandlerInv
<1>3. CASE ResyncLoad
    <2>1. moves' = moves /\ joined' = joined
        BY <1>3 DEF ResyncLoad, server
    <2>2. CASE stage = "racing"
        <3>1. Told(moves, moves)
            BY <2>2, ToldNow DEF ServerInv
        <3> QED BY <1>3, <2>1, <2>2, <3>1 DEF ResyncLoad, HandlerInv
    <2>3. CASE stage # "racing"
        BY <1>3, <2>1, <2>3 DEF ResyncLoad, HandlerInv, AtRest
    <2> QED BY <2>2, <2>3
<1>4. CASE resync' = AtRest /\ joined' \in {joined, FALSE}
    BY <1>4 DEF HandlerInv, AtRest
<1>5. CASE UNCHANGED handler
    <2>1. /\ resync.state # NoRace => Told(resync.state, moves')
          /\ resync.pc = "send" => Told(resync.state, moves')
        BY <1>1, ToldStays DEF HandlerInv
    <2> QED BY <1>5, <2>1 DEF handler, HandlerInv
<1> QED BY <1>2, <1>3, <1>4, <1>5, HandlerKinds

LEMMA SentStep ==
    ASSUME DownInv, NEW msg \in Wire, Told(msg.state, moves)
    PROVE  Telling(Sent(msg), moves)
BY TellingMore DEF Sent, DownInv

LEMMA DownStep ==
    ASSUME ServerInv, HandlerInv, DownInv, [Next]_vars
    PROVE  DownInv'
<1>1. /\ moves \in Seq(Move) /\ moves' \in Seq(Move) /\ Grown(moves, moves')
    BY ServerStep DEF ServerInv
<1>2. SUFFICES Telling(down', moves)
    BY <1>1, TellingStays DEF DownInv
<1>3. Told(<<>>, moves) /\ <<>> \in Seq(Move)
    BY <1>1, ToldFirst
<1>4. CASE Emit
    <2>1. Telling(Sent(outgoing), moves)
        BY <1>4, SentStep DEF Emit, ServerInv
    <2> QED BY <1>4, <2>1 DEF Emit, DownInv
<1>5. CASE ResyncSend
    <2>1. Told(resync.state, moves) /\ resync.state \in Seq(Move)
        BY <1>5 DEF ResyncSend, HandlerInv, Told
    <2>2. Message("game_start", resync.state) \in Wire
        BY <2>1 DEF Message, Wire
    <2>3. Message("game_start", resync.state).state = resync.state
        BY DEF Message
    <2>4. Telling(Sent(Message("game_start", resync.state)), moves)
        BY <2>1, <2>2, <2>3, SentStep
    <2> QED BY <1>5, <2>4 DEF ResyncSend
<1>6. CASE RejectMove \/ FailMove
    <2>1. PICK type \in {"rejected", "error"} : down' = Sent(Message(type, <<>>))
        BY <1>6 DEF RejectMove, FailMove
    <2>2. Message(type, <<>>) \in Wire /\ Message(type, <<>>).state = <<>>
        BY <1>3, <2>1 DEF Message, Wire
    <2>3. Telling(Sent(Message(type, <<>>)), moves)
        BY <1>3, <2>2, SentStep
    <2> QED BY <2>1, <2>3
<1>7. CASE down' = <<>>
    BY <1>7, TellingNothing
<1>8. CASE down # <<>> /\ down' = Tail(down)
    BY <1>8, TellingRest DEF DownInv
<1>9. CASE down' = down
    BY <1>9 DEF DownInv
<1> QED BY <1>4, <1>5, <1>6, <1>7, <1>8, <1>9, DownKinds
(* What the page shows, and what it would go back to, is at least as far   *)
(* as what the server has told it.                                         *)
LEMMA PageStep ==
    ASSUME DownInv, PageInv, NothingTakenBack, [Next]_vars
    PROVE  PageInv' /\ NothingTakenBack'
<1>1. RaceLength \in Nat \ {0} /\ 0 \in 0..RaceLength
    BY RaceAssumption
<1>2. ASSUME down # <<>>
      PROVE  /\ Head(down).state \in Seq(Move)
             /\ Len(Head(down).state) \in 0..RaceLength
    <2>1. Told(Head(down).state, moves)
        BY <1>2, TellingRest DEF DownInv
    <2> QED BY <1>1, <2>1, LenProperties DEF Told
<1>0. \/ drawn' # NoRace => drawn' \in Seq(Move)
      \/ drawn' = shown'
    BY DrawnKinds DEF PageInv
<1>3. CASE OnGameStart
    <2>1. down # <<>>
        BY <1>3 DEF OnGameStart, Receive
    <2>2. /\ shown' = Head(down).state /\ shown' \in Seq(Move)
          /\ ack' = Len(shown') /\ ack' \in 0..RaceLength
        BY <1>2, <1>3, <2>1 DEF OnGameStart
    <2>3. pre' = NoRace /\ results' \in BOOLEAN /\ blind' \in BOOLEAN
        BY <1>3 DEF OnGameStart
    <2>4. PageInv'
        BY <1>0, <2>2, <2>3 DEF PageInv
    <2>5. Len(shown') >= ack'
        BY <1>1, <2>2
    <2>6. NothingTakenBack'
        BY <2>3, <2>5 DEF NothingTakenBack
    <2> QED BY <2>4, <2>6
<1>4. CASE OnStateUpdate
    <2>1. down # <<>>
        BY <1>4 DEF OnStateUpdate, Receive
    <2>2. CASE Len(Head(down).state) <= ack
        BY <1>0, <1>4, <2>2 DEF OnStateUpdate, PageInv, NothingTakenBack, page
    <2>3. CASE ~(Len(Head(down).state) <= ack)
        <3>1. /\ shown' = Head(down).state /\ shown' \in Seq(Move)
              /\ ack' = Len(shown') /\ ack' \in 0..RaceLength
            BY <1>2, <1>4, <2>1, <2>3 DEF OnStateUpdate
        <3>2. pre' = NoRace /\ results' = results /\ blind' \in BOOLEAN
            BY <1>4, <2>3 DEF OnStateUpdate
        <3>3. Len(shown') >= ack'
            BY <1>1, <3>1
        <3> QED BY <1>0, <3>1, <3>2, <3>3 DEF PageInv, NothingTakenBack
    <2> QED BY <2>2, <2>3
<1>5. CASE OnGameEnd
    <2>1. /\ pre' = pre /\ shown' = NoRace /\ ack' = 0 /\ results' \in BOOLEAN
          /\ blind' \in BOOLEAN
        BY <1>5 DEF OnGameEnd
    <2>2. pre # NoRace => Len(pre) \in Nat
        BY LenProperties DEF PageInv
    <2> QED BY <1>1, <1>0, <2>1, <2>2 DEF PageInv, NothingTakenBack
<1>6. CASE OnRejected
    BY <1>0, <1>6 DEF OnRejected, PageInv, NothingTakenBack
<1>7. CASE \E c \in Click : SubmitMove(c)
    <2>1. /\ drawn # NoRace /\ pre' = drawn /\ shown' = Append(drawn, "mine")
          /\ ack' = ack /\ results' = results /\ blind' = (blind \/ drawn # shown)
        BY <1>7 DEF SubmitMove, Optimistic
    <2>2. drawn \in Seq(Move) /\ Len(drawn) \in Nat /\ ack \in Int
        BY <1>1, <2>1, LenProperties DEF PageInv
    <2>3. shown' \in Seq(Move) /\ Len(shown') = Len(drawn) + 1
        BY <2>1, <2>2 DEF Move
    <2>4. PageInv'
        BY <1>0, <2>1, <2>2, <2>3 DEF PageInv
    <2>5. ~blind' => Len(drawn) >= ack
        BY <2>1 DEF NothingTakenBack
    <2> QED BY <2>1, <2>2, <2>3, <2>4, <2>5 DEF NothingTakenBack
<1>8. CASE UNCHANGED <<page, blind>>
    BY <1>0, <1>8 DEF page, PageInv, NothingTakenBack
<1> QED BY <1>3, <1>4, <1>5, <1>6, <1>7, <1>8, PageKinds

LEMMA FlagsStep ==
    ASSUME FlagsInv, [Next]_vars
    PROVE  FlagsInv'
<1>1. drops' = drops \/ (drops < MaxDrops /\ drops' = drops + 1)
    BY DEF Next, vars, server, handler, wire, view, page, token, bounds, ServerWork, PageWork,
       StartRace, ServerMove, Emit, AcceptMove, ReceiveJoin, ResyncLoad, ResyncSend,
       RejectMove, FailMove, Connect, Drop, TokenExpires, TokenRenewed, Receive,
       OnGameStart, OnStateUpdate, OnGameEnd, OnRejected, OnError, Render, SubmitMove, EmitMove,
       EmitReady
<1>2. faults' = faults \/ (faults < MaxFaults /\ faults' = faults + 1)
    BY DEF Next, vars, server, handler, wire, view, page, token, bounds, ServerWork, PageWork,
       StartRace, ServerMove, Emit, AcceptMove, ReceiveJoin, ResyncLoad, ResyncSend,
       RejectMove, FailMove, Connect, Drop, TokenExpires, TokenRenewed, Receive,
       OnGameStart, OnStateUpdate, OnGameEnd, OnRejected, OnError, Render, SubmitMove, EmitMove,
       EmitReady
<1>3. drops' \in 0..MaxDrops /\ faults' \in 0..MaxFaults
    BY <1>1, <1>2, BoundAssumption DEF FlagsInv
<1>4. link' \in {"down", "up", "refused", "replaced"}
    BY DEF FlagsInv, Next, vars, server, handler, wire, view, page, token, bounds, ServerWork,
       PageWork, StartRace, ServerMove, Emit, AcceptMove, ReceiveJoin, ResyncLoad,
       ResyncSend, RejectMove, FailMove, Connect, Drop, TokenExpires, TokenRenewed,
       Receive, OnGameStart, OnStateUpdate, OnGameEnd, OnRejected, OnError, Render, SubmitMove,
       EmitMove, EmitReady, Replace
<1>5. authExpired' \in BOOLEAN /\ cookieNew' \in BOOLEAN
    BY DEF FlagsInv, Next, vars, server, handler, wire, view, page, token, bounds, ServerWork,
       PageWork, StartRace, ServerMove, Emit, AcceptMove, ReceiveJoin, ResyncLoad,
       ResyncSend, RejectMove, FailMove, Connect, Drop, TokenExpires, TokenRenewed,
       Receive, OnGameStart, OnStateUpdate, OnGameEnd, OnRejected, OnError, Render, SubmitMove,
       EmitMove, EmitReady, Replace
<1>6. overtaken' \in BOOLEAN
    BY DEF FlagsInv, Next, vars, server, handler, wire, view, page, token, bounds, ServerWork,
       PageWork, StartRace, ServerMove, Emit, AcceptMove, ReceiveJoin, ResyncLoad,
       ResyncSend, RejectMove, FailMove, Connect, Drop, TokenExpires, TokenRenewed,
       Receive, OnGameStart, OnStateUpdate, OnGameEnd, OnRejected, OnError, Render, SubmitMove,
       EmitMove, EmitReady
<1> QED BY <1>3, <1>4, <1>5, <1>6 DEF FlagsInv

LEMMA DataHolds == Spec => [](DataInv /\ NothingTakenBack)
<1>1. ASSUME Init PROVE DataInv /\ NothingTakenBack
    <2>1. <<>> \in Seq(Move) /\ Len(<<>>) = 0 /\ 0 < RaceLength
        BY RaceAssumption, EmptySeq
    <2>2. moves \in Seq(Move) /\ Len(moves) < RaceLength /\ Len(moves) <= RaceLength
        BY <1>1, <2>1, RaceAssumption DEF Init
    <2>7. ServerInv
        BY <1>1, <2>2 DEF Init, ServerInv
    <2>3. HandlerInv /\ DownInv
        BY <1>1, TellingNothing DEF Init, HandlerInv, DownInv, AtRest
    <2>4. 0 \in 0..RaceLength /\ 0 \in 0..MaxDrops /\ 0 \in 0..MaxFaults
        BY RaceAssumption, BoundAssumption
    <2>5. PageInv /\ NothingTakenBack
        BY <1>1, <2>4 DEF Init, PageInv, NothingTakenBack
    <2>6. FlagsInv
        BY <1>1, <2>4 DEF Init, FlagsInv
    <2> QED BY <2>3, <2>5, <2>6, <2>7 DEF DataInv
<1>2. DataInv /\ NothingTakenBack /\ [Next]_vars => (DataInv /\ NothingTakenBack)'
    BY ServerStep, HandlerStep, DownStep, PageStep, FlagsStep DEF DataInv
<1> QED BY <1>1, <1>2, PTL DEF Spec

(* Whatever is lost, refused late or sent twice, the page never falls back *)
(* behind a state that the server has told it (onError, applyStateUpdate), *)
(* as long as no click comes between a handler and its render.             *)
THEOREM ToldIsKept == Spec => []NothingTakenBack
<1>1. DataInv /\ NothingTakenBack => NothingTakenBack
    OBVIOUS
<1> QED BY <1>1, DataHolds, PTL
-----------------------------------------------------------------------------
(* With somebody else to move after this page's move, the page adds at     *)
(* most one move of its own to what it was told.                           *)

SeenInv ==
    /\ shown # NoRace => Told(shown, moves) \/ Ahead(shown, moves)
    /\ drawn # NoRace => Told(drawn, moves) \/ Ahead(drawn, moves)
    /\ pre # NoRace => Told(pre, moves)

SentInv ==
    /\ up \in Seq(Seqs) /\ buffer \in Seq(Seqs)
    /\ click \in [Click -> Seqs]

(* The page is at turn in no state that it has put a move on.              *)
LEMMA TurnIsTold ==
    ASSUME N > 1, moves \in Seq(Move), SeenInv, drawn # NoRace, MyTurn(drawn)
    PROVE  Told(drawn, moves)
<1>1. SUFFICES ASSUME Ahead(drawn, moves) PROVE FALSE
    BY DEF SeenInv
<1>2. PICK k \in 0..Len(moves) :
          k % N = MyIndex /\ drawn = Append(Prefix(moves, k), "mine")
    BY <1>1 DEF Ahead
<1>3. Prefix(moves, k) \in Seq(Move) /\ Len(Prefix(moves, k)) = k /\ k \in Nat
    BY PrefixOf, LenProperties
<1>4. Len(drawn) = k + 1
    BY <1>2, <1>3
<1>5. (k + 1) % N = k % N
    BY <1>2, <1>4 DEF MyTurn
<1> QED BY <1>3, <1>5, NotTwiceInARow

LEMMA SeenStep ==
    ASSUME N > 1, ServerInv, DownInv, SeenInv, [Next]_vars
    PROVE  SeenInv'
<1>1. /\ moves \in Seq(Move) /\ moves' \in Seq(Move) /\ Grown(moves, moves')
    BY ServerStep DEF ServerInv
<1>0. \/ drawn' # NoRace => Told(drawn', moves) \/ Ahead(drawn', moves)
      \/ drawn' = shown'
    BY DrawnKinds DEF SeenInv
<1>2. SUFFICES /\ shown' # NoRace => Told(shown', moves) \/ Ahead(shown', moves)
               /\ pre' # NoRace => Told(pre', moves)
    BY <1>1, <1>0, ToldStays, AheadStays DEF SeenInv
<1>3. ASSUME down # <<>>
      PROVE  Told(Head(down).state, moves)
    BY <1>3, TellingRest DEF DownInv
<1>4. CASE OnGameStart
    BY <1>3, <1>4 DEF OnGameStart, Receive
<1>5. CASE OnStateUpdate
    BY <1>3, <1>5 DEF OnStateUpdate, Receive, SeenInv, page
<1>6. CASE OnGameEnd
    BY <1>6 DEF OnGameEnd, SeenInv
<1>7. CASE OnRejected
    BY <1>7 DEF OnRejected, SeenInv
<1>8. CASE \E c \in Click : SubmitMove(c)
    <2>1. /\ drawn # NoRace /\ MyTurn(drawn) /\ pre' = drawn
          /\ shown' = Append(drawn, "mine")
        BY <1>8 DEF SubmitMove, Optimistic
    <2>2. Told(drawn, moves)
        BY <1>1, <2>1, TurnIsTold
    <2>3. Len(drawn) \in 0..Len(moves)
        BY <2>2, LenProperties DEF Told
    <2>4. Ahead(shown', moves)
        BY <2>1, <2>2, <2>3 DEF Ahead, Told, MyTurn
    <2> QED BY <2>1, <2>2, <2>4
<1>9. CASE UNCHANGED <<page, blind>>
    BY <1>9 DEF page, SeenInv
<1> QED BY <1>4, <1>5, <1>6, <1>7, <1>8, <1>9, PageKinds

LEMMA SentKinds ==
    ASSUME [Next]_vars
    PROVE  /\ \/ up' = up \/ up' = <<>> \/ up' = Append(buffer, JoinRoom)
              \/ up # <<>> /\ up' = Tail(up)
              \/ \E c \in Click : up' = Append(up, click[c])
           /\ \/ buffer' = buffer \/ buffer' = <<>>
              \/ \E c \in Click : buffer' = Append(buffer, click[c])
           /\ \/ click' = click
              \/ \E c \in Click : click' = [click EXCEPT ![c] = Idle]
              \/ \E c \in Click : /\ drawn # NoRace /\ MyTurn(drawn)
                                  /\ click' = [click EXCEPT ![c] = Len(drawn)]
<1>1. \/ up' = up \/ up' = <<>> \/ up' = Append(buffer, JoinRoom)
      \/ up # <<>> /\ up' = Tail(up)
      \/ \E c \in Click : up' = Append(up, click[c])
    BY DEF Next, vars, server, handler, wire, view, page, token, bounds, ServerWork, PageWork,
       StartRace, ServerMove, Emit, AcceptMove, ReceiveJoin, ResyncLoad, ResyncSend,
       RejectMove, FailMove, Connect, Drop, TokenExpires, TokenRenewed, Receive,
       OnGameStart, OnStateUpdate, OnGameEnd, OnRejected, OnError, Render, SubmitMove, EmitMove,
       EmitReady, Replace
<1>2. \/ buffer' = buffer \/ buffer' = <<>>
      \/ \E c \in Click : buffer' = Append(buffer, click[c])
    BY DEF Next, vars, server, handler, wire, view, page, token, bounds, ServerWork, PageWork,
       StartRace, ServerMove, Emit, AcceptMove, ReceiveJoin, ResyncLoad, ResyncSend,
       RejectMove, FailMove, Connect, Drop, TokenExpires, TokenRenewed, Receive,
       OnGameStart, OnStateUpdate, OnGameEnd, OnRejected, OnError, Render, SubmitMove, EmitMove,
       EmitReady, Replace
<1>3. \/ click' = click
      \/ \E c \in Click : click' = [click EXCEPT ![c] = Idle]
      \/ \E c \in Click : /\ drawn # NoRace /\ MyTurn(drawn)
                          /\ click' = [click EXCEPT ![c] = Len(drawn)]
    BY DEF Next, vars, server, handler, wire, view, page, token, bounds, ServerWork, PageWork,
       StartRace, ServerMove, Emit, AcceptMove, ReceiveJoin, ResyncLoad, ResyncSend,
       RejectMove, FailMove, Connect, Drop, TokenExpires, TokenRenewed, Receive,
       OnGameStart, OnStateUpdate, OnGameEnd, OnRejected, OnError, Render, SubmitMove, EmitMove,
       EmitReady, Replace
<1> QED BY <1>1, <1>2, <1>3

LEMMA SentStepKeeps ==
    ASSUME N > 1, ServerInv, SeenInv, SentInv, [Next]_vars
    PROVE  SentInv'
<1>1. /\ -1 \in Seqs /\ JoinRoom \in Seqs /\ Idle \in Seqs
      /\ \A c \in Click : click[c] \in Seqs
    BY RaceAssumption DEF Seqs, JoinRoom, Idle, SentInv
<1>2. \A s \in Seq(Seqs), n \in Seqs : Append(s, n) \in Seq(Seqs)
    OBVIOUS
<1>3. up' \in Seq(Seqs)
    <2>1. CASE up' = up \/ up' = <<>>
        BY <2>1, EmptySeq DEF SentInv
    <2>2. CASE up' = Append(buffer, JoinRoom)
        BY <1>1, <2>2, <1>2 DEF SentInv
    <2>3. CASE up # <<>> /\ up' = Tail(up)
        BY <2>3, HeadTailProperties DEF SentInv
    <2>4. CASE \E c \in Click : up' = Append(up, click[c])
        BY <1>1, <2>4, <1>2 DEF SentInv
    <2> QED BY <2>1, <2>2, <2>3, <2>4, SentKinds
<1>4. buffer' \in Seq(Seqs)
    <2>1. CASE buffer' = buffer \/ buffer' = <<>>
        BY <2>1, EmptySeq DEF SentInv
    <2>2. CASE \E c \in Click : buffer' = Append(buffer, click[c])
        BY <1>1, <2>2, <1>2 DEF SentInv
    <2> QED BY <2>1, <2>2, SentKinds
<1>5. ASSUME drawn # NoRace, MyTurn(drawn)
      PROVE  Len(drawn) \in Seqs
    <2>1. Told(drawn, moves)
        BY <1>5, TurnIsTold DEF ServerInv
    <2> QED BY <2>1, LenProperties, RaceAssumption DEF Told, Seqs
<1>6. click' \in [Click -> Seqs]
    BY <1>1, <1>5, SentKinds DEF SentInv
<1> QED BY <1>3, <1>4, <1>6 DEF SentInv

SyncInv == DataInv /\ SeenInv /\ SentInv

LEMMA SyncHolds ==
    ASSUME N > 1
    PROVE  Spec => []SyncInv
<1>1. ASSUME Init PROVE SeenInv /\ SentInv
    <2>1. Idle \in Seqs
        BY RaceAssumption DEF Seqs, Idle
    <2> QED BY <1>1, <2>1, EmptySeq DEF Init, SeenInv, SentInv
<1>2. SyncInv /\ [Next]_vars => SeenInv' /\ SentInv'
    BY SeenStep, SentStepKeeps DEF SyncInv, DataInv
<1>3. Init /\ DataInv => SyncInv
    BY <1>1 DEF SyncInv
<1>4. SyncInv /\ [Next]_vars /\ DataInv' => SyncInv'
    BY <1>2 DEF SyncInv
<1> QED BY <1>3, <1>4, DataHolds, PTL DEF Spec

(* The states that a race of at most RaceLength moves goes through.        *)
LEMMA ToldIsState ==
    ASSUME NEW s \in Seq(Move), Len(s) <= RaceLength
    PROVE  s \in State
<1>1. Len(s) \in 0..RaceLength /\ s \in [1..Len(s) -> Move]
    BY LenProperties, RaceAssumption
<1> QED BY <1>1 DEF State

LEMMA AheadIsState ==
    ASSUME NEW ms \in Seq(Move), NEW s, Ahead(s, ms)
    PROVE  s \in Seq(Move) /\ Len(s) <= RaceLength
<1>1. PICK k \in 0..Len(ms) : k < RaceLength /\ s = Append(Prefix(ms, k), "mine")
    BY DEF Ahead
<1>2. Prefix(ms, k) \in Seq(Move) /\ Len(Prefix(ms, k)) = k /\ k \in Nat
    BY PrefixOf, LenProperties
<1>3. "mine" \in Move
    BY DEF Move
<1> QED BY <1>1, <1>2, <1>3, RaceAssumption

(* Every variable of the page and of the server holds what the code can    *)
(* put there, when somebody else moves next: a page that is alone in its   *)
(* race may show as many moves ahead as it has clicks under way.           *)
THEOREM TypeCorrect ==
    ASSUME N > 1
    PROVE  Spec => []TypeOK
<1>1. ASSUME SyncInv PROVE TypeOK
    <2>1. moves \in State
        BY <1>1, ToldIsState DEF SyncInv, DataInv, ServerInv
    <2>2. \A s : Told(s, moves) => s \in State
        BY ToldIsState, RaceAssumption, LenProperties DEF Told
    <2>3. {shown, pre, drawn} \subseteq State \cup {NoRace}
        BY <1>1, <2>2, ToldIsState, AheadIsState
        DEF SyncInv, SeenInv, DataInv, ServerInv
    <2>4. /\ outgoing = Nothing \/ (outgoing.state \in State /\
                outgoing.type \in {"game_start", "state_update", "game_end"})
          /\ stage \in {"lobby", "racing", "over"}
        BY <1>1, <2>2 DEF SyncInv, DataInv, ServerInv
    <2>5. /\ joined \in BOOLEAN /\ resync.pc \in {"none", "load", "send"}
          /\ resync.state \in State \cup {NoRace}
        BY <1>1, <2>2 DEF SyncInv, DataInv, HandlerInv
    <2>6. \A k \in DOMAIN down : down[k].state \in State
        BY <1>1, <2>2, LenProperties DEF SyncInv, DataInv, DownInv, Telling
    <2> QED BY <1>1, <2>1, <2>3, <2>4, <2>5, <2>6
        DEF TypeOK, SyncInv, SentInv, DataInv, PageInv, FlagsInv
<1> QED BY <1>1, SyncHolds, PTL

(* Whatever is lost, refused, taken back or sent twice, the page shows the *)
(* race as it stood at some time, or that with one move of its own on top  *)
(* (applyOptimisticMove, onError), provided that somebody else moves next. *)
THEOREM PageShowsTheRace == Spec => []ShowsTheRace
<1>1. CASE N > 1
    <2>1. SyncInv => ShowsTheRace
        BY DEF SyncInv, SeenInv, ShowsTheRace, Told, Ahead, Stood, After, Prefix, Optimistic
    <2> QED BY <1>1, <2>1, SyncHolds, PTL
<1>2. CASE ~(N > 1)
    <2>1. ShowsTheRace
        BY <1>2 DEF ShowsTheRace
    <2> QED BY <2>1, PTL
<1> QED BY <1>1, <1>2
=============================================================================
