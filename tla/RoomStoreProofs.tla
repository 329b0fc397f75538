-------------------------- MODULE RoomStoreProofs ---------------------------
(***************************************************************************)
(* For every number of users, rooms, requests, tasks, losses and every     *)
(* capacity, however requests and tasks overlap: no copy of a room,        *)
(* wherever it is, has a user or a start position twice, or one player too *)
(* many; Postgres ends up with what Redis has unless the last task to      *)
(* commit was overtaken by another; and a room goes back, or races without *)
(* its players, only by a request that was overtaken.                      *)
(***************************************************************************)
EXTENDS RoomStore, FiniteSetTheorems, TLAPS

Positions(snap) == {m.position : m \in snap.players}

Copy == Snapshot \cup {NoRoom}
CopyOK(snap) == snap \in Copy /\ (snap # NoRoom => Seated(snap))

(* What is known of a request between its steps: it has a room, but for a  *)
(* create that has not got one yet; what it would write is seated; and a   *)
(* join that got past its checks knows that its user is new and that a     *)
(* seat is free, in the copy it will write back.                           *)
RequestOK(c) ==
    /\ c \in RequestRecord /\ CopyOK(c.snap)
    /\ c.op \in {"create", "join", "ready"} => c.user \in User
    /\ c.op = "create" => c.pc \in {"assert", "write"}
    /\ c.pc = "write" \/ (c.pc # "idle" /\ c.op # "create") => c.room \in Room
    /\ c.pc \in {"restore", "write", "start"} => c.snap # NoRoom
    /\ c.pc = "assert" /\ c.op = "join" =>
          /\ c.snap # NoRoom
          /\ c.user \notin UserIds(c.snap)
          /\ Cardinality(c.snap.players) < MaxPlayers

TaskOK(w) ==
    /\ w \in TaskRecord /\ CopyOK(w.snap)
    /\ w.pc # "idle" => w.room \in Room

RoomsOK(f) == f \in [Room -> Copy] /\ \A r \in Room : CopyOK(f[r])
RequestsOK(f) == f \in [Request -> RequestRecord] /\ \A q \in Request : RequestOK(f[q])
TasksOK(f) == f \in [Task -> TaskRecord] /\ \A t \in Task : TaskOK(f[t])

(* The variables that hold no copy of a room. *)
RestOK ==
    /\ created \subseteq Room /\ countdown \subseteq Room
    /\ race \in [Room -> SUBSET User]
    /\ queued \in [Room -> 0..MaxQueued]
    /\ losses \in [faults : 0..MaxFaults, deaths : 0..MaxDeaths,
                   evictions : 0..MaxEvictions]

SeatsInv ==
    /\ RoomsOK(redis) /\ RoomsOK(pg)
    /\ RequestsOK(request) /\ TasksOK(task)
    /\ RestOK

-----------------------------------------------------------------------------
(* A seated snapshot has as many players as positions, and the next one is *)
(* the first that is free.                                                 *)
LEMMA SeatedCount ==
    ASSUME NEW snap \in Snapshot, NEW k \in Nat \ {0},
           Positions(snap) = 0..(k - 1),
           \A m, n \in snap.players : m.position = n.position => m = n
    PROVE  Cardinality(snap.players) = k /\ NextPosition(snap) = k
  <1> DEFINE f == [i \in 0..(k - 1) |-> CHOOSE m \in snap.players : m.position = i]
  <1>1. \A i \in 0..(k - 1) : \E m \in snap.players : m.position = i
    BY DEF Positions
  <1>2. \A i \in 0..(k - 1) : f[i] \in snap.players /\ f[i].position = i
    BY <1>1
  <1>3. \A m \in snap.players : m.position \in 0..(k - 1) /\ f[m.position] = m
    BY <1>2 DEF Positions
  <1>4. f \in Bijection(0..(k - 1), snap.players)
    <2>1. f \in [0..(k - 1) -> snap.players]
      BY <1>2
    <2>2. \A i, j \in 0..(k - 1) : f[i] = f[j] => i = j
      BY <1>2
    <2>3. \A m \in snap.players : \E i \in 0..(k - 1) : f[i] = m
      BY <1>3
    <2> HIDE DEF f
    <2> QED
      BY <2>1, <2>2, <2>3 DEF Bijection, Injection, Surjection, IsInjective
  <1>5. ExistsBijection(0..(k - 1), snap.players)
    BY <1>4 DEF ExistsBijection
  <1>6. IsFiniteSet(0..(k - 1)) /\ Cardinality(0..(k - 1)) = k
    BY FS_Interval
  <1>7. Cardinality(snap.players) = k
    BY <1>5, <1>6, FS_Bijection
  <1>8. NextPosition(snap) = k
    <2> DEFINE taken == {m.position : m \in snap.players} \cup {-1}
    <2>1. taken = -1..(k - 1)
      BY DEF Positions
    <2>2. NextPosition(snap) = Max(taken) + 1
      BY DEF NextPosition
    <2> HIDE DEF taken
    <2>3. Max(taken) = k - 1
      BY <2>1 DEF Max
    <2> QED
      BY <2>2, <2>3
  <1> QED
    BY <1>7, <1>8

LEMMA NewRoomSeated ==
    ASSUME NEW u \in User
    PROVE  NewRoom(u) \in Snapshot /\ Seated(NewRoom(u)) /\ NewRoom(u) # NoRoom
  <1> DEFINE m == [userId |-> u, position |-> 0, isReady |-> FALSE]
  <1>1. m \in Member /\ m.position = 0
    BY DEF Member
  <1> HIDE DEF m
  <1>2. NewRoom(u) = [status |-> "WAITING", players |-> {m}]
    BY DEF NewRoom, m
  <1>3. NewRoom(u) \in Snapshot
    BY <1>1, <1>2 DEF Snapshot, Status
  <1>4. {n.position : n \in {m}} = 0..0
    BY <1>1
  <1>5. Seated(NewRoom(u))
    BY <1>2, <1>4, BoundAssumption DEF Seated
  <1> QED
    BY <1>3, <1>5, NoRoomAssumption

(* A join takes the first free position. *)
LEMMA WithMemberSeated ==
    ASSUME NEW snap \in Snapshot, Seated(snap), NEW u \in User,
           u \notin UserIds(snap), Cardinality(snap.players) < MaxPlayers
    PROVE  /\ WithMember(snap, u) \in Snapshot
           /\ Seated(WithMember(snap, u))
           /\ WithMember(snap, u) # NoRoom
  <1>1. PICK k \in 1..MaxPlayers : Positions(snap) = 0..(k - 1)
    BY DEF Seated, Positions
  <1>2. k \in Nat \ {0} /\ Cardinality(snap.players) = k /\ NextPosition(snap) = k
    BY <1>1, SeatedCount, BoundAssumption DEF Seated
  <1> DEFINE m == [userId |-> u, position |-> k, isReady |-> FALSE]
             new == WithMember(snap, u)
  <1>3. m \in Member /\ m.userId = u /\ m.position = k
    BY <1>2 DEF Member
  <1>4. new = [snap EXCEPT !.players = @ \cup {m}]
    BY <1>2 DEF WithMember
  <1> HIDE DEF m, new
  <1>5. new \in Snapshot /\ new.players = snap.players \cup {m}
    BY <1>3, <1>4 DEF Snapshot
  <1>6. \A n \in snap.players : n.position \in 0..(k - 1) /\ n.userId # u
    BY <1>1 DEF Positions, UserIds
  <1>7. \A n1, n2 \in new.players :
           n1.userId = n2.userId \/ n1.position = n2.position => n1 = n2
    BY <1>2, <1>3, <1>5, <1>6 DEF Seated
  <1>8. {n.position : n \in new.players} = 0..((k + 1) - 1)
    BY <1>1, <1>2, <1>3, <1>5 DEF Positions
  <1>9. k + 1 \in 1..MaxPlayers
    BY <1>2, BoundAssumption
  <1>10. Seated(new)
    BY <1>7, <1>8, <1>9 DEF Seated
  <1> QED
    BY <1>5, <1>10, NoRoomAssumption DEF new

(* Readiness changes neither users nor positions. *)
LEMMA WithReadySeated ==
    ASSUME NEW snap \in Snapshot, Seated(snap), NEW u
    PROVE  /\ WithReady(snap, u) \in Snapshot
           /\ Seated(WithReady(snap, u))
           /\ WithReady(snap, u) # NoRoom
  <1> DEFINE up(m) == IF m.userId = u THEN [m EXCEPT !.isReady = TRUE] ELSE m
             new == WithReady(snap, u)
  <1>1. \A m \in snap.players : /\ up(m) \in Member
                                /\ up(m).userId = m.userId
                                /\ up(m).position = m.position
    BY DEF Snapshot, Member
  <1>2. new = [snap EXCEPT !.players = {up(m) : m \in snap.players}]
    BY DEF WithReady, Snapshot
  <1> HIDE DEF up, new
  <1>3. new \in Snapshot /\ new.players = {up(m) : m \in snap.players}
    BY <1>1, <1>2 DEF Snapshot
  <1>4. {n.position : n \in new.players} = {m.position : m \in snap.players}
    BY <1>1, <1>3
  <1>5. \A n1, n2 \in new.players :
           n1.userId = n2.userId \/ n1.position = n2.position => n1 = n2
    <2> SUFFICES ASSUME NEW m1 \in snap.players, NEW m2 \in snap.players,
                        \/ up(m1).userId = up(m2).userId
                        \/ up(m1).position = up(m2).position
                 PROVE  up(m1) = up(m2)
      BY <1>3
    <2>1. m1 = m2
      BY <1>1 DEF Seated
    <2> QED
      BY <2>1
  <1>6. Seated(new)
    BY <1>4, <1>5 DEF Seated
  <1> QED
    BY <1>3, <1>6, NoRoomAssumption DEF new

LEMMA WithStatusSeated ==
    ASSUME NEW snap \in Snapshot, Seated(snap), NEW st \in Status
    PROVE  /\ [snap EXCEPT !.status = st] \in Snapshot
           /\ Seated([snap EXCEPT !.status = st])
           /\ [snap EXCEPT !.status = st] # NoRoom
  <1> DEFINE new == [snap EXCEPT !.status = st]
  <1>1. new \in Snapshot /\ new.players = snap.players
    BY DEF Snapshot
  <1>2. Seated(new)
    BY <1>1 DEF Seated
  <1> QED
    BY <1>1, <1>2, NoRoomAssumption

LEMMA IdleOK == RequestOK(Idle)
  BY DEF RequestOK, CopyOK, Copy, Idle, RequestRecord, Op

LEMMA RestingOK == TaskOK(Resting)
  BY BoundAssumption DEF TaskOK, CopyOK, Copy, Resting, TaskRecord

(* What a request makes of a seated snapshot is seated. *)
LEMMA DecidedOK ==
    ASSUME NEW c, RequestOK(c), c.pc # "idle", NEW snap \in Snapshot, Seated(snap)
    PROVE  RequestOK(Decided(c, snap))
  <1> DEFINE goto(pc, next) == [c EXCEPT !.pc = pc, !.snap = next]
  <1>1. ASSUME NEW pc \in {"assert", "write", "start"}, NEW next \in Snapshot
        PROVE  /\ goto(pc, next) \in RequestRecord
               /\ goto(pc, next).pc = pc /\ goto(pc, next).snap = next
               /\ goto(pc, next).op = c.op /\ goto(pc, next).user = c.user
               /\ goto(pc, next).room = c.room
    BY DEF RequestOK, RequestRecord
  <1>2. ASSUME NEW pc \in {"write", "start"}, NEW next \in Snapshot, Seated(next),
               c.op # "create"
        PROVE  RequestOK(goto(pc, next))
    <2> HIDE DEF goto
    <2> QED
      BY <1>1, <1>2, NoRoomAssumption DEF RequestOK, CopyOK, Copy
  <1>3. CASE c.op = "join" /\ MayJoin(c, snap)
    <2>1. Decided(c, snap) = goto("assert", snap)
      BY <1>3 DEF Decided
    <2> HIDE DEF goto
    <2> QED
      BY <2>1, <1>1, <1>3, NoRoomAssumption DEF RequestOK, CopyOK, Copy, MayJoin
  <1>4. CASE c.op = "ready" /\ MayBeReady(c, snap)
    <2>1. Decided(c, snap) = goto("write", WithReady(snap, c.user))
      BY <1>4 DEF Decided
    <2> HIDE DEF goto
    <2> QED
      BY <2>1, <1>2, <1>4, WithReadySeated
  <1>5. CASE c.op = "start" /\ MayStart(snap)
    <2>1. Decided(c, snap) = goto("start", snap)
      BY <1>5 DEF Decided
    <2> HIDE DEF goto
    <2> QED
      BY <2>1, <1>2, <1>5
  <1>6. CASE c.op = "setRacing"
    <2>1. Decided(c, snap) = goto("write", [snap EXCEPT !.status = "RACING"])
      BY <1>6 DEF Decided
    <2> HIDE DEF goto
    <2> QED
      BY <2>1, <1>2, <1>6, WithStatusSeated DEF Status
  <1>7. CASE c.op = "setFinished"
    <2>1. Decided(c, snap) = goto("write", [snap EXCEPT !.status = "FINISHED"])
      BY <1>7 DEF Decided
    <2> HIDE DEF goto
    <2> QED
      BY <2>1, <1>2, <1>7, WithStatusSeated DEF Status
  <1>8. CASE /\ ~(c.op = "join" /\ MayJoin(c, snap))
             /\ ~(c.op = "ready" /\ MayBeReady(c, snap))
             /\ ~(c.op = "start" /\ MayStart(snap))
             /\ c.op # "setRacing" /\ c.op # "setFinished"
    <2>1. Decided(c, snap) = Idle
      BY <1>8 DEF Decided
    <2> QED
      BY <2>1, IdleOK
  <1> QED
    BY <1>3, <1>4, <1>5, <1>6, <1>7, <1>8

-----------------------------------------------------------------------------
(* One new value in a table of good ones. *)
LEMMA SetRoom ==
    ASSUME NEW f, RoomsOK(f), NEW r, NEW snap, CopyOK(snap)
    PROVE  RoomsOK([f EXCEPT ![r] = snap])
  BY DEF RoomsOK, CopyOK

LEMMA SetRequest ==
    ASSUME NEW f, RequestsOK(f), NEW q \in Request, NEW c, RequestOK(c)
    PROVE  RequestsOK([f EXCEPT ![q] = c])
  <1>1. c \in RequestRecord
    BY DEF RequestOK
  <1> QED
    BY <1>1 DEF RequestsOK

LEMMA SetTask ==
    ASSUME NEW f, TasksOK(f), NEW t \in Task, NEW w, TaskOK(w)
    PROVE  TasksOK([f EXCEPT ![t] = w])
  <1>1. w \in TaskRecord
    BY DEF TaskOK
  <1> QED
    BY <1>1 DEF TasksOK

LEMMA InitSeats == Init => SeatsInv
  <1> SUFFICES ASSUME Init PROVE SeatsInv
    OBVIOUS
  <1>1. RoomsOK(redis) /\ RoomsOK(pg)
    BY DEF Init, RoomsOK, CopyOK, Copy
  <1>2. RequestsOK(request)
    <2>1. Idle \in RequestRecord
      BY IdleOK DEF RequestOK
    <2> QED
      BY <2>1, IdleOK DEF Init, RequestsOK
  <1>3. TasksOK(task)
    <2>1. Resting \in TaskRecord
      BY RestingOK DEF TaskOK
    <2> QED
      BY <2>1, RestingOK DEF Init, TasksOK
  <1>4. RestOK
    BY BoundAssumption DEF Init, RestOK
  <1> QED
    BY <1>1, <1>2, <1>3, <1>4 DEF SeatsInv

(* The requests' steps that begin or end in another await. *)
LEMMA RequestSteps ==
    ASSUME SeatsInv, NEW q \in Request,
           \/ \E u \in User : CreateRequest(q, u)
           \/ \E u \in User, r \in Room, op \in {"join", "ready"} :
                 RoomRequest(q, op, u, r)
           \/ \E r \in Room : \/ RoomRequest(q, "view", "none", r)
                              \/ CountdownExpires(q, r) \/ EndRace(q, r)
           \/ Load(q) \/ LoadRow(q) \/ AssertJoin(q) \/ AssertCreate(q)
           \/ StoreRace(q)
    PROVE  SeatsInv'
  <1> DEFINE c == request[q]
             begun(pc, op, u, r) == [pc |-> pc, op |-> op, user |-> u, room |-> r,
                                     snap |-> NoRoom]
  <1>0. RequestsOK(request) /\ RequestOK(c) /\ c \in RequestRecord
    BY DEF SeatsInv, RequestsOK
  <1>1. ASSUME NEW next, RequestOK(next), request' = [request EXCEPT ![q] = next],
               UNCHANGED <<redis, pg, created, queued, task, losses>>,
               countdown' \subseteq Room, race' \in [Room -> SUBSET User]
        PROVE  SeatsInv'
    <2>1. RequestsOK(request')
      BY <1>0, <1>1, SetRequest
    <2>2. RestOK'
      BY <1>1 DEF SeatsInv, RestOK
    <2> QED
      BY <1>1, <2>1, <2>2 DEF SeatsInv
  <1>2. countdown \subseteq Room /\ race \in [Room -> SUBSET User]
    BY DEF SeatsInv, RestOK
  <1>3. ASSUME NEW op \in {"join", "ready"}, NEW u \in User, NEW r \in Room
        PROVE  RequestOK(begun("load", op, u, r))
    BY DEF RequestOK, CopyOK, Copy, RequestRecord, Op
  <1>4. ASSUME NEW op \in {"view", "start", "setFinished"}, NEW r \in Room
        PROVE  RequestOK(begun("load", op, "none", r))
    BY DEF RequestOK, CopyOK, Copy, RequestRecord, Op
  <1>5. ASSUME NEW u \in User, CreateRequest(q, u)
        PROVE  SeatsInv'
    <2>1. RequestOK(begun("assert", "create", u, "none"))
      BY DEF RequestOK, CopyOK, Copy, RequestRecord, Op
    <2> QED
      BY <2>1, <1>1, <1>2, <1>5 DEF CreateRequest, Begin
  <1>6. ASSUME NEW u \in User, NEW r \in Room, NEW op \in {"join", "ready"},
               RoomRequest(q, op, u, r)
        PROVE  SeatsInv'
    BY <1>1, <1>2, <1>3, <1>6 DEF RoomRequest, Begin
  <1>7. ASSUME NEW r \in Room, RoomRequest(q, "view", "none", r)
        PROVE  SeatsInv'
    BY <1>1, <1>2, <1>4, <1>7 DEF RoomRequest, Begin
  <1>8. ASSUME NEW r \in Room, CountdownExpires(q, r)
        PROVE  SeatsInv'
    BY <1>1, <1>2, <1>4, <1>8 DEF CountdownExpires, Begin
  <1>9. ASSUME NEW r \in Room, EndRace(q, r)
        PROVE  SeatsInv'
    <2>1. race' \in [Room -> SUBSET User]
      BY <1>2, <1>9 DEF EndRace
    <2> QED
      BY <2>1, <1>1, <1>2, <1>4, <1>9 DEF EndRace, Begin
  <1>10. CASE Load(q)
    <2>1. CASE redis[c.room] # NoRoom
      <3>1. c.room \in Room /\ c.pc # "idle"
        BY <1>0, <1>10 DEF Load, RequestOK
      <3>2. redis[c.room] \in Snapshot /\ Seated(redis[c.room])
        BY <2>1, <3>1 DEF SeatsInv, RoomsOK, CopyOK, Copy
      <3>3. RequestOK(Decided(c, redis[c.room]))
        BY <1>0, <3>1, <3>2, DecidedOK
      <3> QED
        BY <3>3, <2>1, <1>1, <1>2, <1>10 DEF Load
    <2>2. CASE redis[c.room] = NoRoom
      <3> DEFINE next == [c EXCEPT !.pc = "miss"]
      <3>1. next \in RequestRecord
        BY <1>0 DEF RequestRecord
      <3>2. RequestOK(next)
        BY <3>1, <1>0, <1>10 DEF Load, RequestOK, RequestRecord
      <3> QED
        BY <3>2, <2>2, <1>1, <1>2, <1>10 DEF Load
    <2> QED
      BY <2>1, <2>2
  <1>11. CASE LoadRow(q)
    <2> DEFINE next == [c EXCEPT !.pc = "restore", !.snap = pg[c.room]]
    <2>1. CASE pg[c.room] # NoRoom
      <3>1. c.room \in Room
        BY <1>0, <1>11 DEF LoadRow, RequestOK
      <3>2. CopyOK(pg[c.room])
        BY <3>1 DEF SeatsInv, RoomsOK
      <3>3. next \in RequestRecord
        BY <1>0, <3>2 DEF RequestRecord, CopyOK, Copy
      <3>4. RequestOK(next)
        BY <3>2, <3>3, <2>1, <1>0, <1>11 DEF LoadRow, RequestOK, RequestRecord
      <3> QED
        BY <3>4, <2>1, <1>1, <1>2, <1>11 DEF LoadRow
    <2>2. CASE pg[c.room] = NoRoom
      BY <2>2, <1>1, <1>2, <1>11, IdleOK DEF LoadRow
    <2> QED
      BY <2>1, <2>2
  <1>12. CASE AssertJoin(q)
    <2> DEFINE new == WithMember(c.snap, c.user)
               next == [c EXCEPT !.pc = "write", !.snap = new]
    <2>1. c.snap \in Snapshot /\ c.user \in User
      BY <1>0, <1>12 DEF AssertJoin, RequestOK, CopyOK, Copy
    <2>2. new \in Snapshot /\ Seated(new) /\ new # NoRoom
      BY <2>1, <1>0, <1>12, WithMemberSeated DEF AssertJoin, RequestOK, CopyOK
    <2> HIDE DEF new
    <2>3. next \in RequestRecord
      BY <1>0, <2>2 DEF RequestRecord
    <2>4. RequestOK(next)
      BY <2>2, <2>3, <1>0, <1>12
      DEF AssertJoin, RequestOK, RequestRecord, CopyOK, Copy
    <2> HIDE DEF next
    <2>5. request' = [request EXCEPT ![q] = Idle] \/ request' = [request EXCEPT ![q] = next]
      BY <1>12 DEF AssertJoin, next, new
    <2> QED
      BY <2>4, <2>5, <1>1, <1>2, <1>12, IdleOK DEF AssertJoin
  <1>13. CASE AssertCreate(q)
    <2>1. c.user \in User
      BY <1>0, <1>13 DEF AssertCreate, RequestOK
    <2>2. ASSUME NEW r \in Room
          PROVE  RequestOK([c EXCEPT !.pc = "write", !.room = r, !.snap = NewRoom(c.user)])
      <3> DEFINE new == NewRoom(c.user)
                 next == [c EXCEPT !.pc = "write", !.room = r, !.snap = new]
      <3>1. new \in Snapshot /\ Seated(new) /\ new # NoRoom
        BY <2>1, NewRoomSeated
      <3> HIDE DEF new
      <3>2. next \in RequestRecord
        BY <1>0, <3>1 DEF RequestRecord
      <3>3. RequestOK(next)
        BY <3>1, <3>2, <1>0, <1>13
        DEF AssertCreate, RequestOK, RequestRecord, CopyOK, Copy
      <3> QED
        BY <3>3 DEF new
    <2>3. \A r \in Unused : r \in Room
      BY DEF Unused
    <2> QED
      BY <2>2, <2>3, <1>1, <1>2, <1>13, IdleOK DEF AssertCreate
  <1>14. CASE StoreRace(q)
    <2> DEFINE next == [c EXCEPT !.pc = "load", !.op = "setRacing", !.snap = NoRoom]
    <2>1. next \in RequestRecord
      BY <1>0 DEF RequestRecord, Op
    <2>2. RequestOK(next)
      BY <2>1, <1>0, <1>14 DEF StoreRace, RequestOK, RequestRecord, CopyOK, Copy
    <2>3. UserIds(c.snap) \subseteq User
      BY <1>0, <1>14
      DEF StoreRace, RequestOK, CopyOK, Copy, UserIds, Snapshot, Member
    <2>4. race' \in [Room -> SUBSET User]
      BY <2>3, <1>2, <1>14 DEF StoreRace
    <2> QED
      BY <2>2, <2>4, <1>1, <1>2, <1>14 DEF StoreRace
  <1> QED
    BY <1>5, <1>6, <1>7, <1>8, <1>9, <1>10, <1>11, <1>12, <1>13, <1>14

(* The steps that write Redis or schedule a task. *)
LEMMA WriteSteps ==
    ASSUME SeatsInv, NEW q \in Request,
           Restore(q) \/ Write(q) \/ RequestDies(q)
    PROVE  SeatsInv'
  <1> DEFINE c == request[q]
  <1>0. /\ RoomsOK(redis) /\ RoomsOK(pg) /\ RequestsOK(request) /\ TasksOK(task)
        /\ RestOK /\ RequestOK(c) /\ CopyOK(c.snap)
    BY DEF SeatsInv, RequestsOK, RequestOK
  <1>1. RoomsOK([redis EXCEPT ![c.room] = c.snap])
    BY <1>0, SetRoom
  <1>2. RequestsOK([request EXCEPT ![q] = Idle])
    BY <1>0, SetRequest, IdleOK
  <1>3. CASE Restore(q)
    <2>1. c.snap \in Snapshot /\ Seated(c.snap) /\ c.pc # "idle"
      BY <1>0, <1>3 DEF Restore, RequestOK, CopyOK, Copy
    <2>2. RequestOK(Decided(c, c.snap))
      BY <2>1, <1>0, DecidedOK
    <2>3. RequestsOK(request')
      BY <2>2, <1>0, <1>3, SetRequest DEF Restore
    <2>4. RestOK'
      BY <1>0, <1>3 DEF Restore, RestOK
    <2> QED
      BY <2>3, <2>4, <1>0, <1>1, <1>3 DEF Restore, SeatsInv
  <1>4. CASE Write(q)
    <2>1. c.room \in Room
      BY <1>0, <1>4 DEF Write, RequestOK
    <2>2. queued' \in [Room -> 0..MaxQueued]
      BY <2>1, <1>0, <1>4, BoundAssumption DEF Write, RestOK
    <2>3. RestOK'
      BY <2>1, <2>2, <1>0, <1>4 DEF Write, RestOK
    <2> QED
      BY <2>3, <1>0, <1>1, <1>2, <1>4 DEF Write, SeatsInv
  <1>5. CASE RequestDies(q)
    <2>1. losses' \in [faults : 0..MaxFaults, deaths : 0..MaxDeaths,
                        evictions : 0..MaxEvictions]
      BY <1>0, <1>5, BoundAssumption DEF RequestDies, RestOK
    <2>2. RestOK'
      BY <2>1, <1>0, <1>5 DEF RequestDies, RestOK
    <2>3. RoomsOK(redis')
      BY <1>0, <1>1, <1>5 DEF RequestDies
    <2> QED
      BY <2>2, <2>3, <1>0, <1>2, <1>5 DEF RequestDies, SeatsInv
  <1> QED
    BY <1>3, <1>4, <1>5

LEMMA PersistSteps ==
    ASSUME SeatsInv, NEW t \in Task,
           \/ \E r \in Room : PersistRead(t, r)
           \/ PersistCommit(t) \/ PersistFails(t) \/ PersistRetry(t)
    PROVE  SeatsInv'
  <1> DEFINE w == task[t]
  <1>0. /\ RoomsOK(redis) /\ RoomsOK(pg) /\ RequestsOK(request) /\ TasksOK(task)
        /\ RestOK /\ TaskOK(w) /\ w \in TaskRecord
    BY DEF SeatsInv, TasksOK
  <1>1. Rest(t) => TasksOK(task')
    <2>1. TasksOK([task EXCEPT ![t] = Resting])
      BY <1>0, SetTask, RestingOK
    <2> QED
      BY <2>1 DEF Rest
  <1>2. \A r \in Room : CopyOK(redis[r])
    BY <1>0 DEF RoomsOK
  <1>3. ASSUME NEW r \in Room, PersistRead(t, r)
        PROVE  SeatsInv'
    <2> DEFINE next == [pc |-> "apply", room |-> r, snap |-> redis[r], attempt |-> 0]
    <2>1. TaskOK(next)
      BY <1>2, BoundAssumption DEF TaskOK, TaskRecord, CopyOK, Copy
    <2>2. TasksOK([task EXCEPT ![t] = next])
      BY <2>1, <1>0, SetTask
    <2>3. TasksOK(task')
      BY <2>2, <1>0, <1>3 DEF PersistRead
    <2>4. RestOK'
      <3>1. queued' \in [Room -> 0..MaxQueued]
        BY <1>0, <1>3, BoundAssumption DEF PersistRead, RestOK
      <3> QED
        BY <3>1, <1>0, <1>3 DEF PersistRead, RestOK
    <2> QED
      BY <2>3, <2>4, <1>0, <1>3 DEF PersistRead, SeatsInv
  <1>4. CASE PersistCommit(t)
    <2>1. RoomsOK(pg')
      BY <1>0, <1>4, SetRoom DEF PersistCommit, TaskOK
    <2>2. RestOK'
      BY <1>0, <1>4 DEF PersistCommit, RestOK
    <2> QED
      BY <2>1, <2>2, <1>0, <1>1, <1>4 DEF PersistCommit, SeatsInv
  <1>5. CASE PersistFails(t)
    <2> DEFINE next == BackingOff(w)
    <2>1. ASSUME w.attempt + 1 < MaxAttempts
          PROVE  TasksOK(task')
      <3>1. w.attempt + 1 \in 0..(MaxAttempts - 1)
        BY <2>1, <1>0, BoundAssumption DEF TaskRecord
      <3>2. next \in TaskRecord
        BY <3>1, <1>0 DEF TaskRecord, BackingOff
      <3>3. TaskOK(next)
        BY <3>2, <1>0, <1>5
        DEF PersistFails, TaskOK, TaskRecord, CopyOK, Copy, BackingOff
      <3>4. task' = [task EXCEPT ![t] = next]
        BY <2>1, <1>0, <1>5, BoundAssumption DEF PersistFails, BackOff, TaskRecord
      <3> QED
        BY <3>3, <3>4, <1>0, SetTask
    <2>2. TasksOK(task')
      <3>1. CASE ~(w.attempt + 1 >= MaxAttempts)
        <4>1. w.attempt + 1 < MaxAttempts
          BY <3>1, <1>0, BoundAssumption DEF TaskRecord
        <4> QED
          BY <4>1, <2>1
      <3>2. CASE w.attempt + 1 >= MaxAttempts
        BY <3>2, <1>1, <1>5 DEF PersistFails
      <3> QED
        BY <3>1, <3>2
    <2>3. losses' \in [faults : 0..MaxFaults, deaths : 0..MaxDeaths,
                        evictions : 0..MaxEvictions]
      BY <1>0, <1>5, BoundAssumption DEF PersistFails, RestOK
    <2>4. RestOK'
      BY <2>3, <1>0, <1>5 DEF PersistFails, RestOK
    <2> QED
      BY <2>2, <2>4, <1>0, <1>5 DEF PersistFails, SeatsInv
  <1>6. CASE PersistRetry(t)
    <2> DEFINE next == [w EXCEPT !.pc = "apply", !.snap = redis[w.room]]
    <2>1. w.room \in Room
      BY <1>0, <1>6 DEF PersistRetry, TaskOK
    <2>2. next \in TaskRecord
      BY <2>1, <1>0, <1>2 DEF TaskRecord, CopyOK, Copy
    <2>3. TaskOK(next)
      BY <2>1, <2>2, <1>2 DEF TaskOK, TaskRecord
    <2>4. TasksOK([task EXCEPT ![t] = next])
      BY <2>3, <1>0, SetTask
    <2>5. TasksOK(task')
      BY <2>4, <1>1, <1>6 DEF PersistRetry
    <2>6. RestOK'
      BY <1>0, <1>6 DEF PersistRetry, RestOK
    <2> QED
      BY <2>5, <2>6, <1>0, <1>6 DEF PersistRetry, SeatsInv
  <1> QED
    BY <1>3, <1>4, <1>5, <1>6

LEMMA LossSteps ==
    ASSUME SeatsInv, (\E r \in Room : Evict(r)) \/ Crash
    PROVE  SeatsInv'
  <1>0. /\ RoomsOK(redis) /\ RoomsOK(pg) /\ RequestsOK(request) /\ TasksOK(task)
        /\ RestOK
    BY DEF SeatsInv
  <1>1. ASSUME NEW r \in Room, Evict(r)
        PROVE  SeatsInv'
    <2>1. CopyOK(NoRoom)
      BY DEF CopyOK, Copy
    <2>2. RoomsOK(redis')
      BY <2>1, <1>0, <1>1, SetRoom DEF Evict
    <2>3. losses' \in [faults : 0..MaxFaults, deaths : 0..MaxDeaths,
                        evictions : 0..MaxEvictions]
      BY <1>0, <1>1, BoundAssumption DEF Evict, RestOK
    <2>4. RestOK'
      BY <2>3, <1>0, <1>1 DEF Evict, RestOK
    <2> QED
      BY <2>2, <2>4, <1>0, <1>1 DEF Evict, SeatsInv
  <1>2. CASE Crash
    <2>1. RequestsOK(request') /\ TasksOK(task')
      <3>1. Idle \in RequestRecord /\ Resting \in TaskRecord
        BY IdleOK, RestingOK DEF RequestOK, TaskOK
      <3>2. RequestsOK([q \in Request |-> Idle]) /\ TasksOK([t \in Task |-> Resting])
        BY <3>1, IdleOK, RestingOK DEF RequestsOK, TasksOK
      <3> QED
        BY <3>2, <1>2 DEF Crash
    <2>2. losses' \in [faults : 0..MaxFaults, deaths : 0..MaxDeaths,
                        evictions : 0..MaxEvictions]
      BY <1>0, <1>2, BoundAssumption DEF Crash, RestOK
    <2>3. queued' \in [Room -> 0..MaxQueued]
      BY <1>2, BoundAssumption DEF Crash
    <2>4. RestOK'
      BY <2>2, <2>3, <1>0, <1>2 DEF Crash, RestOK
    <2> QED
      BY <2>1, <2>4, <1>0, <1>2 DEF Crash, SeatsInv
  <1> QED
    BY <1>1, <1>2

LEMMA SeatsStep == SeatsInv /\ [Next]_vars => SeatsInv'
  <1> SUFFICES ASSUME SeatsInv, [Next]_vars
               PROVE  SeatsInv'
    OBVIOUS
  <1>1. CASE Next
    BY <1>1, RequestSteps, WriteSteps, PersistSteps, LossSteps DEF Next
  <1>2. CASE UNCHANGED vars
    BY <1>2 DEF vars, SeatsInv, RestOK
  <1> QED
    BY <1>1, <1>2

-----------------------------------------------------------------------------
(* No copy of a room has a user or a start position twice, a gap in its    *)
(* positions, or one player more than it takes (join, markPlayerReady).    *)
THEOREM Seats == Spec => []SeatsUnique
  <1>1. SeatsInv => SeatsUnique
    <2> SUFFICES ASSUME SeatsInv, NEW snap \in Copies, snap # NoRoom
                 PROVE  Seated(snap)
      BY DEF SeatsUnique
    <2>1. CASE \E r \in Room : snap = redis[r] \/ snap = pg[r]
      BY <2>1 DEF SeatsInv, RoomsOK, CopyOK
    <2>2. CASE \E q \in Request : snap = request[q].snap
      BY <2>2 DEF SeatsInv, RequestsOK, RequestOK, CopyOK
    <2>3. CASE \E t \in Task : snap = task[t].snap
      BY <2>3 DEF SeatsInv, TasksOK, TaskOK, CopyOK
    <2> QED
      BY <2>1, <2>2, <2>3 DEF Copies
  <1> QED
    BY <1>1, InitSeats, SeatsStep, PTL DEF Spec
-----------------------------------------------------------------------------
(* What each step changes.                                                 *)

(* The steps that take request q from one await to the next.               *)
Begins(q) ==
    \/ \E u \in User : CreateRequest(q, u)
    \/ \E u \in User, r \in Room, op \in {"join", "ready"} : RoomRequest(q, op, u, r)
    \/ \E r \in Room : \/ RoomRequest(q, "view", "none", r)
                       \/ CountdownExpires(q, r) \/ EndRace(q, r)

Continues(q) ==
    Load(q) \/ LoadRow(q) \/ Restore(q) \/ AssertJoin(q) \/ AssertCreate(q) \/ StoreRace(q)

Ends(q) == Write(q) \/ RequestDies(q)

Persists(t) ==
    \/ \E r \in Room : PersistRead(t, r)
    \/ PersistCommit(t) \/ PersistFails(t) \/ PersistRetry(t)

LEMMA NextKinds ==
    ASSUME [Next]_vars
    PROVE  \/ \E q \in Request : Begins(q) \/ Continues(q) \/ Ends(q)
           \/ \E t \in Task : Persists(t)
           \/ \E r \in Room : Evict(r)
           \/ Crash \/ UNCHANGED vars
BY DEF Next, Begins, Continues, Ends, Persists

LEMMA RequestKinds ==
    ASSUME SeatsInv, [Next]_vars, NEW q \in Request
    PROVE  \/ request'[q] = request[q] \/ request'[q] = Idle
           \/ Begins(q) \/ Continues(q)
<1>1. ASSUME NEW p \in Request, Begins(p) \/ Continues(p) \/ Ends(p)
      PROVE  \E c : request' = [request EXCEPT ![p] = c]
    BY <1>1 DEF Begins, Continues, Ends, CreateRequest, RoomRequest, CountdownExpires,
       EndRace, Begin, Load, LoadRow, Restore, AssertJoin, AssertCreate, StoreRace,
       Write, RequestDies
<1>2. ASSUME NEW p \in Request, Begins(p) \/ Continues(p) \/ Ends(p), p # q
      PROVE  request'[q] = request[q]
    BY <1>1, <1>2 DEF SeatsInv, RequestsOK
<1>3. Ends(q) => request'[q] = Idle
    BY DEF Ends, Write, RequestDies, SeatsInv, RequestsOK
<1>4. Crash => request'[q] = Idle
    BY DEF Crash
<1>5. (\E t \in Task : Persists(t)) \/ (\E r \in Room : Evict(r)) \/ UNCHANGED vars
        => request' = request
    BY DEF Persists, PersistRead, PersistCommit, PersistFails, PersistRetry, Evict, vars
<1> QED BY <1>2, <1>3, <1>4, <1>5, NextKinds

LEMMA StoreKinds ==
    ASSUME [Next]_vars
    PROVE  /\ \/ redis' = redis
              \/ \E q \in Request : Restore(q) \/ Write(q) \/ RequestDies(q)
              \/ \E r \in Room : Evict(r)
           /\ \/ race' = race
              \/ \E q \in Request : StoreRace(q) \/ \E r \in Room : EndRace(q, r)
           /\ \/ UNCHANGED <<created, queued>>
              \/ \E q \in Request : Write(q)
              \/ \E t \in Task, r \in Room : PersistRead(t, r)
              \/ Crash
           /\ \/ countdown' \subseteq countdown
              \/ \E q \in Request : Write(q)
<1>1. ASSUME NEW q \in Request, Begins(q)
      PROVE  /\ UNCHANGED <<redis, created, queued>> /\ countdown' \subseteq countdown
             /\ race' = race \/ \E r \in Room : EndRace(q, r)
    BY <1>1 DEF Begins, CreateRequest, RoomRequest, CountdownExpires, EndRace
<1>2. ASSUME NEW q \in Request, Continues(q)
      PROVE  /\ UNCHANGED <<created, queued, countdown>>
             /\ redis' = redis \/ Restore(q)
             /\ race' = race \/ StoreRace(q)
    BY <1>2 DEF Continues, Load, LoadRow, Restore, AssertJoin, AssertCreate, StoreRace
<1>3. ASSUME NEW q \in Request, Ends(q)
      PROVE  /\ race' = race
             /\ UNCHANGED <<created, queued, countdown>> \/ Write(q)
    BY <1>3 DEF Ends, Write, RequestDies
<1>4. ASSUME NEW t \in Task, Persists(t)
      PROVE  /\ UNCHANGED <<redis, race, created, countdown>>
             /\ queued' = queued \/ \E r \in Room : PersistRead(t, r)
    BY <1>4 DEF Persists, PersistRead, PersistCommit, PersistFails, PersistRetry
<1>5. ASSUME NEW r \in Room, Evict(r)
      PROVE  UNCHANGED <<race, created, queued, countdown>>
    BY <1>5 DEF Evict
<1>6. Crash => UNCHANGED <<redis, race>> /\ countdown' = {}
    BY DEF Crash
<1>7. UNCHANGED vars => UNCHANGED <<redis, race, created, queued, countdown>>
    BY DEF vars
<1> QED BY <1>1, <1>2, <1>3, <1>4, <1>5, <1>6, <1>7, NextKinds DEF Ends

(* Evictions are counted.                                                  *)
LEMMA NoneEvicted ==
    ASSUME SeatsInv, [Next]_vars, losses'.evictions = 0
    PROVE  losses.evictions = 0 /\ \A r \in Room : ~Evict(r)
<1>1. losses.evictions \in Nat
    BY BoundAssumption DEF SeatsInv, RestOK
<1>2. ASSUME NEW r \in Room, Evict(r) PROVE FALSE
    BY <1>1, <1>2 DEF Evict, SeatsInv, RestOK
<1>3. losses' = losses \/ losses' = [losses EXCEPT !.deaths = @ + 1]
      \/ losses' = [losses EXCEPT !.faults = @ + 1]
    BY <1>2 DEF Next, vars, CreateRequest, RoomRequest, CountdownExpires, EndRace, Load,
       LoadRow, Restore, AssertJoin, AssertCreate, StoreRace, Write, RequestDies,
       PersistRead, PersistCommit, PersistFails, PersistRetry, Crash
<1>4. losses'.evictions = losses.evictions
    BY <1>3 DEF SeatsInv, RestOK
<1> QED BY <1>2, <1>4

WithStatus(snap, st) == [snap EXCEPT !.status = st]

(* What a request that decides becomes.                                    *)
LEMMA DecidedKinds ==
    ASSUME NEW c \in RequestRecord, NEW snap, NEW d, d = Decided(c, snap)
    PROVE  \/ d = Idle
           \/ /\ d.op = c.op /\ d.room = c.room
              /\ \/ c.op = "join" /\ MayJoin(c, snap) /\ d.pc = "assert" /\ d.snap = snap
                 \/ /\ c.op = "ready" /\ MayBeReady(c, snap)
                    /\ d.pc = "write" /\ d.snap = WithReady(snap, c.user)
                 \/ c.op = "start" /\ MayStart(snap) /\ d.pc = "start" /\ d.snap = snap
                 \/ /\ c.op = "setRacing"
                    /\ d.pc = "write" /\ d.snap = WithStatus(snap, "RACING")
                 \/ /\ c.op = "setFinished"
                    /\ d.pc = "write" /\ d.snap = WithStatus(snap, "FINISHED")
<1> DEFINE goto(pc, next) == [c EXCEPT !.pc = pc, !.snap = next]
<1>1. \A pc, next : /\ goto(pc, next).pc = pc /\ goto(pc, next).snap = next
                    /\ goto(pc, next).op = c.op /\ goto(pc, next).room = c.room
    BY DEF RequestRecord
<1>2. \/ Decided(c, snap) = Idle
      \/ c.op = "join" /\ MayJoin(c, snap) /\ Decided(c, snap) = goto("assert", snap)
      \/ c.op = "ready" /\ MayBeReady(c, snap)
            /\ Decided(c, snap) = goto("write", WithReady(snap, c.user))
      \/ c.op = "start" /\ MayStart(snap) /\ Decided(c, snap) = goto("start", snap)
      \/ c.op = "setRacing"
            /\ Decided(c, snap) = goto("write", WithStatus(snap, "RACING"))
      \/ c.op = "setFinished"
            /\ Decided(c, snap) = goto("write", WithStatus(snap, "FINISHED"))
    BY DEF Decided, WithStatus
<1> HIDE DEF goto
<1> QED BY <1>1, <1>2
-----------------------------------------------------------------------------
(* The histories are about requests and tasks that are under way.          *)
HistoryInv ==
    /\ outdated \subseteq Busy /\ mixed \subseteq Room
    /\ behind \subseteq {t \in Task : task[t].pc = "apply"} /\ overtaken \subseteq Room

(* What a step of request q does to the histories of requests.             *)
LEMMA RequestHistory ==
    ASSUME SeatsInv, HistoryInv, NEW q \in Request, Begins(q) \/ Continues(q) \/ Ends(q)
    PROVE  /\ UNCHANGED <<behind, overtaken, task>>
           /\ \A p \in Request \ {q} : request'[p] = request[p]
           /\ outdated' \subseteq outdated \cup StandingOn(request[q].room)
           /\ outdated \subseteq outdated' \cup {q}
           /\ mixed \subseteq mixed' /\ mixed' \subseteq mixed \cup {request[q].room}
           /\ mixed' # mixed => request[q].room \in Room /\ q \in outdated
           /\ q \in outdated' => q \in outdated /\ request'[q].pc # "idle"
           /\ q \in outdated /\ q \notin outdated' =>
                 \/ Load(q) /\ request[q].op # "setRacing"
                 \/ LoadRow(q) \/ Restore(q) \/ AssertCreate(q)
                 \/ request'[q] = Idle
<1> DEFINE c == request[q]
<1>1. /\ request \in [Request -> RequestRecord] /\ c \in RequestRecord /\ RequestOK(c)
      /\ outdated \subseteq Busy
    BY DEF SeatsInv, RequestsOK, HistoryInv
<1>2. CASE Begins(q)
    BY <1>1, <1>2 DEF Begins, CreateRequest, RoomRequest, CountdownExpires, EndRace,
       Begin, Busy, history
<1>3. CASE Load(q)
    <2>1. /\ c.pc = "load" /\ c.op # "create"
          /\ outdated' = IF c.op = "setRacing" THEN outdated ELSE outdated \ {q}
          /\ UNCHANGED <<mixed, behind, overtaken, task>>
          /\ \A p \in Request \ {q} : request'[p] = request[p]
        BY <1>1, <1>3 DEF Load, RequestOK
    <2>2. c.op = "setRacing" => request'[q].pc \in {"write", "miss"}
        <3>1. \/ request'[q] = Decided(c, redis[c.room])
              \/ request'[q] = [c EXCEPT !.pc = "miss"]
            BY <1>1, <1>3 DEF Load
        <3>2. [c EXCEPT !.pc = "miss"].pc = "miss"
            BY <1>1 DEF RequestRecord
        <3>3. c.op = "setRacing" => Decided(c, redis[c.room]).pc = "write"
            BY <1>1 DEF Decided, RequestRecord
        <3> QED BY <3>1, <3>2, <3>3
    <2> QED BY <1>3, <2>1, <2>2
<1>4. CASE LoadRow(q)
    BY <1>1, <1>4 DEF LoadRow
<1>5. CASE Restore(q)
    <2>1. c.room \in Room
        BY <1>1, <1>5 DEF Restore, RequestOK
    <2> QED BY <1>1, <1>5, <2>1 DEF Restore, Overwrites, MixedIfOutdated
<1>6. CASE AssertJoin(q)
    <2>1. \/ request'[q] = Idle /\ outdated' = outdated \ {q}
          \/ /\ request'[q] = [c EXCEPT !.pc = "write", !.snap = WithMember(c.snap, c.user)]
             /\ outdated' = outdated
        BY <1>1, <1>6 DEF AssertJoin
    <2>2. request'[q] = Idle \/ request'[q].pc = "write"
        BY <1>1, <2>1 DEF RequestRecord
    <2> QED BY <1>1, <1>6, <2>1, <2>2 DEF AssertJoin
<1>7. CASE AssertCreate(q)
    BY <1>1, <1>7 DEF AssertCreate
<1>8. CASE StoreRace(q)
    <2>1. c.room \in Room
        BY <1>1, <1>8 DEF StoreRace, RequestOK
    <2>2. request'[q].pc = "load"
        BY <1>1, <1>8 DEF StoreRace, RequestRecord
    <2> QED BY <1>1, <1>8, <2>1, <2>2 DEF StoreRace, MixedIfOutdated
<1>9. CASE Write(q)
    <2>1. c.room \in Room /\ request'[q] = Idle
        BY <1>1, <1>9 DEF Write, RequestOK
    <2> QED BY <1>1, <1>9, <2>1 DEF Write, Overwrites, MixedIfOutdated
<1>10. CASE RequestDies(q)
    <2>1. request'[q] = Idle
        BY <1>1, <1>10 DEF RequestDies
    <2>2. \/ outdated' = outdated \ {q} /\ mixed' = mixed
          \/ c.room \in Room /\ Overwrites(q)
        BY <1>1, <1>10 DEF RequestDies, RequestOK
    <2>3. /\ UNCHANGED <<behind, overtaken, task>>
          /\ \A p \in Request \ {q} : request'[p] = request[p]
        BY <1>1, <1>10 DEF RequestDies
    <2> QED BY <2>1, <2>2, <2>3 DEF Overwrites, MixedIfOutdated
<1> QED BY <1>2, <1>3, <1>4, <1>5, <1>6, <1>7, <1>8, <1>9, <1>10 DEF Continues, Ends

LEMMA HistoryStep ==
    ASSUME SeatsInv, HistoryInv, [Next]_vars
    PROVE  HistoryInv'
<1> DEFINE Applying == {t \in Task : task[t].pc = "apply"}
<1>1. /\ outdated \subseteq Busy /\ mixed \subseteq Room
      /\ behind \subseteq Applying /\ overtaken \subseteq Room
    BY DEF HistoryInv
<1>2. CASE \E q \in Request : Begins(q) \/ Continues(q) \/ Ends(q)
    <2>1. PICK q \in Request : Begins(q) \/ Continues(q) \/ Ends(q)
        BY <1>2
    <2>2. /\ UNCHANGED <<behind, overtaken, task>>
          /\ \A p \in Request \ {q} : request'[p] = request[p]
          /\ outdated' \subseteq outdated \cup StandingOn(request[q].room)
          /\ mixed' \subseteq mixed \cup {request[q].room}
          /\ mixed' # mixed => request[q].room \in Room
          /\ q \in outdated' => request'[q].pc # "idle"
        BY <2>1, RequestHistory
    <2>3. outdated' \subseteq Busy'
        BY <1>1, <2>2 DEF Busy, StandingOn
    <2> QED BY <1>1, <2>2, <2>3 DEF HistoryInv
<1>3. CASE \E t \in Task : Persists(t)
    <2>1. PICK t \in Task : Persists(t)
        BY <1>3
    <2>2. /\ UNCHANGED <<request, outdated, mixed>>
          /\ \A u \in Task \ {t} : task'[u] = task[u]
          /\ behind' \subseteq (behind \cup Applying) \ {t} \/ (behind' = behind /\ task' = task)
          /\ overtaken' \subseteq overtaken \cup {task[t].room}
          /\ overtaken' # overtaken => task[t].room \in Room
        BY <2>1 DEF Persists, PersistRead, PersistCommit, PersistFails, PersistRetry, Rest,
           BackOff, Newest, SeatsInv, TasksOK, TaskOK
    <2>3. behind' \subseteq Applying'
        BY <1>1, <2>2
    <2>4. outdated' \subseteq Busy'
        BY <1>1, <2>2 DEF Busy
    <2> QED BY <1>1, <2>2, <2>3, <2>4 DEF HistoryInv
<1>4. CASE \E r \in Room : Evict(r)
    BY <1>4 DEF HistoryInv, Evict, history, Busy
<1>5. CASE Crash
    BY <1>1, <1>5 DEF HistoryInv, Crash
<1>6. CASE UNCHANGED vars
    BY <1>6 DEF HistoryInv, vars, Busy
<1> QED BY <1>2, <1>3, <1>4, <1>5, <1>6, NextKinds

(* Redis, Postgres, the requests and the tasks always hold what their      *)
(* types say, through overlapping requests, retries, deaths, crashes and   *)
(* evictions (RoomsService, RoomSyncService).                              *)
THEOREM RoomTypes == Spec => []TypeOK
<1>1. SeatsInv /\ HistoryInv => TypeOK
    BY DEF SeatsInv, RoomsOK, RequestsOK, TasksOK, RestOK, Copy, HistoryInv, TypeOK
<1>2. Init => HistoryInv
    BY DEF Init, HistoryInv
<1>3. SeatsInv /\ HistoryInv /\ [Next]_vars => HistoryInv'
    BY HistoryStep
<1> QED BY <1>1, <1>2, <1>3, InitSeats, SeatsStep, PTL DEF Spec

-----------------------------------------------------------------------------
(* Where Redis has lost no room, every room that anything refers to is in  *)
(* Redis, so that nothing is read back from Postgres.                      *)

Known(r) == redis[r] # NoRoom

RequestKnown(c) ==
    c.pc # "idle" /\ c.op # "create" => Known(c.room) /\ c.pc \notin {"miss", "restore"}

KnownInv ==
    losses.evictions = 0 =>
        /\ \A r \in created \cup countdown : Known(r)
        /\ \A r \in Room : race[r] # {} \/ queued[r] > 0 => Known(r)
        /\ \A t \in Task : task[t].pc # "idle" => Known(task[t].room)
        /\ \A q \in Request : RequestKnown(request[q])

LEMMA StaysKnown ==
    ASSUME SeatsInv, [Next]_vars, losses'.evictions = 0, NEW r \in Room, Known(r)
    PROVE  Known(r)'
<1>1. CASE redis' = redis
    BY <1>1 DEF Known
<1>2. CASE \E q \in Request : Restore(q) \/ Write(q) \/ RequestDies(q)
    <2>1. PICK q \in Request : Restore(q) \/ Write(q) \/ RequestDies(q)
        BY <1>2
    <2>2. redis' = redis \/
             /\ request[q].pc \in {"restore", "write"}
             /\ redis' = [redis EXCEPT ![request[q].room] = request[q].snap]
        BY <2>1 DEF Restore, Write, RequestDies
    <2>3. request[q].pc \in {"restore", "write"} => request[q].snap # NoRoom
        BY DEF SeatsInv, RequestsOK, RequestOK
    <2> QED BY <2>2, <2>3 DEF Known, SeatsInv, RoomsOK
<1>3. CASE \E s \in Room : Evict(s)
    BY <1>3, NoneEvicted
<1> QED BY <1>1, <1>2, <1>3, StoreKinds

(* The room that is written becomes known.                                 *)
LEMMA WriteKnown ==
    ASSUME SeatsInv, NEW q \in Request, Write(q)
    PROVE  request[q].room \in Room /\ redis'[request[q].room] # NoRoom
<1>1. request[q].room \in Room /\ request[q].snap # NoRoom
    BY DEF Write, SeatsInv, RequestsOK, RequestOK
<1> QED BY <1>1 DEF Write, SeatsInv, RoomsOK

LEMMA TaskKinds ==
    ASSUME SeatsInv, [Next]_vars, NEW t \in Task
    PROVE  \/ task'[t] = task[t] \/ task'[t] = Resting
           \/ \E r \in Room : /\ PersistRead(t, r) /\ task[t].pc = "idle" /\ queued[r] > 0
                              /\ task'[t].pc = "apply" /\ task'[t].room = r
                              /\ task'[t].snap = redis[r] /\ task'[t].attempt = 0
           \/ /\ PersistFails(t) /\ task[t].pc = "apply"
              /\ task'[t].pc = "backoff" /\ task'[t].room = task[t].room
              /\ task'[t].attempt = task[t].attempt + 1
           \/ /\ PersistRetry(t) /\ task[t].pc = "backoff"
              /\ task'[t].pc = "apply" /\ task'[t].room = task[t].room
              /\ task'[t].attempt = task[t].attempt
              /\ task'[t].snap = redis[task[t].room]
<1> USE DEF SeatsInv, TasksOK, TaskRecord
<1>1. ASSUME NEW r \in Room, PersistRead(t, r)
      PROVE  \/ task'[t] = task[t]
             \/ /\ task[t].pc = "idle" /\ queued[r] > 0
                /\ task'[t].pc = "apply" /\ task'[t].room = r
                /\ task'[t].snap = redis[r] /\ task'[t].attempt = 0
    BY <1>1 DEF PersistRead
<1>2. PersistCommit(t) => task'[t] = Resting
    BY DEF PersistCommit, Rest
<1>3. PersistFails(t) =>
         \/ task'[t] = Resting
         \/ /\ task[t].pc = "apply" /\ task'[t].pc = "backoff"
            /\ task'[t].room = task[t].room /\ task'[t].attempt = task[t].attempt + 1
    <2> DEFINE w == BackingOff(task[t])
    <2>1. PersistFails(t) => /\ task[t].pc = "apply"
                             /\ task'[t] = Resting \/ task'[t] = w
        BY DEF PersistFails, Rest, BackOff
    <2>2. task[t] \in TaskRecord
        OBVIOUS
    <2>3. w.pc = "backoff" /\ w.room = task[t].room /\ w.attempt = task[t].attempt + 1
        BY <2>2 DEF BackingOff
    <2> HIDE DEF w, SeatsInv, TasksOK, TaskRecord
    <2> QED BY <2>1, <2>3
<1>4. PersistRetry(t) =>
         \/ task'[t] = Resting
         \/ /\ task[t].pc = "backoff" /\ task'[t].pc = "apply"
            /\ task'[t].room = task[t].room /\ task'[t].attempt = task[t].attempt
            /\ task'[t].snap = redis[task[t].room]
    <2> DEFINE w == [task[t] EXCEPT !.pc = "apply", !.snap = redis[task[t].room]]
    <2>1. PersistRetry(t) => /\ task[t].pc = "backoff"
                             /\ task'[t] = Resting \/ task'[t] = w
        BY DEF PersistRetry, Rest
    <2>2. task[t] \in TaskRecord
        OBVIOUS
    <2>3. /\ w.pc = "apply" /\ w.room = task[t].room /\ w.attempt = task[t].attempt
          /\ w.snap = redis[task[t].room]
        BY <2>2
    <2> HIDE DEF w, SeatsInv, TasksOK, TaskRecord
    <2> QED BY <2>1, <2>3
<1>5. ASSUME NEW s \in Task, s # t, Persists(s)
      PROVE  task'[t] = task[t]
    BY <1>5 DEF Persists, PersistRead, PersistCommit, PersistFails, PersistRetry, Rest,
       BackOff
<1>6. ASSUME NEW q \in Request, Begins(q) \/ Continues(q) \/ Ends(q)
      PROVE  task' = task
    BY <1>6 DEF Begins, Continues, Ends, CreateRequest, RoomRequest, CountdownExpires,
       EndRace, Load, LoadRow, Restore, AssertJoin, AssertCreate, StoreRace,
       Write, RequestDies
<1>7. (\E r \in Room : Evict(r)) \/ UNCHANGED vars => task' = task
    BY DEF Evict, vars
<1>8. Crash => task'[t] = Resting
    BY DEF Crash
<1> QED BY <1>1, <1>2, <1>3, <1>4, <1>5, <1>6, <1>7, <1>8, NextKinds DEF Persists

LEMMA KnownStep ==
    ASSUME SeatsInv, KnownInv, [Next]_vars
    PROVE  KnownInv'
<1> SUFFICES ASSUME losses'.evictions = 0
             PROVE  /\ \A r \in created' \cup countdown' : Known(r)'
                    /\ \A r \in Room : race'[r] # {} \/ queued'[r] > 0 => Known(r)'
                    /\ \A t \in Task : task'[t].pc # "idle" => redis'[task'[t].room] # NoRoom
                    /\ \A q \in Request : RequestKnown(request[q])'
    BY DEF KnownInv, Known
<1>1. losses.evictions = 0
    BY NoneEvicted
<1>2. /\ \A r \in created \cup countdown : Known(r)
      /\ \A r \in Room : race[r] # {} \/ queued[r] > 0 => Known(r)
      /\ \A t \in Task : task[t].pc # "idle" => Known(task[t].room)
      /\ \A q \in Request : RequestKnown(request[q])
    BY <1>1 DEF KnownInv
<1>3. \A r \in created \cup countdown : r \in Room /\ Known(r)'
    BY <1>2, StaysKnown DEF SeatsInv, RestOK
<1>4. \A r \in created' : Known(r)'
    <2>1. ASSUME NEW q \in Request, Write(q)
          PROVE  \A r \in created' : Known(r)'
        BY <1>3, <2>1, WriteKnown DEF Write, Known
    <2>2. (\E t \in Task, r \in Room : PersistRead(t, r)) \/ Crash => created' = created
        BY DEF PersistRead, Crash
    <2> QED BY <1>3, <2>1, <2>2, StoreKinds
<1>5. \A r \in countdown' : Known(r)'
    <2>1. ASSUME NEW q \in Request, Write(q)
          PROVE  \A r \in countdown' : Known(r)'
        BY <1>3, <2>1, WriteKnown DEF Write, Known
    <2> QED BY <1>3, <2>1, StoreKinds
<1>6. ASSUME NEW r \in Room, race'[r] # {}
      PROVE  Known(r)'
    <2>1. CASE race'[r] = race[r]
        BY <1>2, <1>6, <2>1, StaysKnown
    <2>2. ASSUME NEW q \in Request, StoreRace(q), race'[r] # race[r]
          PROVE  Known(r)'
        <3>1. request[q].pc # "idle" /\ request[q].op # "create" /\ request[q].room = r
            BY <2>2 DEF StoreRace, SeatsInv, RequestsOK, RequestOK, RestOK
        <3> QED BY <1>2, <3>1, StaysKnown DEF RequestKnown
    <2>3. ASSUME NEW q \in Request, NEW s \in Room, EndRace(q, s)
          PROVE  race'[r] = race[r]
        BY <1>6, <2>3 DEF EndRace, SeatsInv, RestOK
    <2> QED BY <2>1, <2>2, <2>3, StoreKinds
<1>7. ASSUME NEW r \in Room, queued'[r] > 0
      PROVE  Known(r)'
    <2>1. CASE queued'[r] = queued[r]
        BY <1>2, <1>7, <2>1, StaysKnown
    <2>2. ASSUME NEW q \in Request, Write(q), queued'[r] # queued[r]
          PROVE  Known(r)'
        <3>1. request[q].room = r
            BY <2>2 DEF Write, SeatsInv, RestOK
        <3> QED BY <2>2, <3>1, WriteKnown DEF Known
    <2>3. ASSUME NEW t \in Task, NEW s \in Room, PersistRead(t, s), queued'[r] # queued[r]
          PROVE  Known(r)'
        <3>1. r = s /\ queued[r] > 0
            BY <2>3 DEF PersistRead, SeatsInv, RestOK
        <3> QED BY <1>2, <3>1, StaysKnown
    <2>4. Crash => queued'[r] = 0
        BY DEF Crash
    <2> QED BY <1>7, <2>1, <2>2, <2>3, <2>4, StoreKinds
<1>8. ASSUME NEW t \in Task, task'[t].pc # "idle"
      PROVE  redis'[task'[t].room] # NoRoom
    <2>1. task'[t].room \in Room /\ Known(task'[t].room)
        BY <1>2, <1>8, TaskKinds DEF Resting, SeatsInv, TasksOK, TaskOK
    <2> QED BY <2>1, StaysKnown DEF Known
<1>9. ASSUME NEW q \in Request
      PROVE  RequestKnown(request[q])'
    <2> DEFINE c == request[q]
               d == request'[q]
    <2>1. SUFFICES ASSUME d.pc # "idle", d.op # "create"
                   PROVE  redis'[d.room] # NoRoom /\ d.pc \notin {"miss", "restore"}
        BY DEF RequestKnown, Known
    <2>2. ASSUME d.room \in Room, Known(d.room), d.pc \notin {"miss", "restore"}
          PROVE  redis'[d.room] # NoRoom /\ d.pc \notin {"miss", "restore"}
        BY <2>2, StaysKnown DEF Known
    <2>3. request \in [Request -> RequestRecord] /\ c \in RequestRecord /\ RequestOK(c)
        BY DEF SeatsInv, RequestsOK
    <2>4. ASSUME c.pc # "idle", c.op # "create"
          PROVE  c.room \in Room /\ Known(c.room) /\ c.pc \notin {"miss", "restore"}
        BY <1>2, <2>3, <2>4 DEF RequestKnown, RequestOK
    <2>5. CASE d = c
        BY <2>1, <2>2, <2>4, <2>5
    <2>6. d # Idle
        BY <2>1 DEF Idle
    <2>7. CASE Begins(q)
        <3>1. ASSUME NEW u \in User, CreateRequest(q, u) PROVE FALSE
            BY <2>1, <2>3, <3>1 DEF CreateRequest, Begin
        <3>2. ASSUME NEW op, NEW u, NEW r \in Room, RoomRequest(q, op, u, r)
              PROVE  d.room = r /\ d.pc = "load" /\ Known(r)
            BY <1>2, <2>3, <3>2 DEF RoomRequest, Begin
        <3>3. ASSUME NEW r \in Room, CountdownExpires(q, r) \/ EndRace(q, r)
              PROVE  d.room = r /\ d.pc = "load" /\ Known(r)
            BY <1>2, <2>3, <3>3 DEF CountdownExpires, EndRace, Begin
        <3>4. \E r \in Room : d.room = r /\ d.pc = "load" /\ Known(r)
            BY <2>7, <3>1, <3>2, <3>3 DEF Begins
        <3> QED BY <2>2, <3>4
    <2>8. CASE Load(q)
        <3>1. c.pc # "idle" /\ c.op # "create" /\ c.room \in Room /\ Known(c.room)
            BY <2>3, <2>4, <2>8 DEF Load, RequestOK
        <3>2. d = Decided(c, redis[c.room])
            BY <2>3, <2>8, <3>1 DEF Load, Known
        <3>3. d.room = c.room /\ d.pc \in {"assert", "write", "start"}
            <4> HIDE DEF c, d
            <4> QED BY <2>3, <2>6, <3>2, DecidedKinds
        <3> QED BY <2>2, <3>1, <3>3
    <2>9. CASE LoadRow(q) \/ Restore(q)
        BY <2>3, <2>4, <2>9 DEF LoadRow, Restore, RequestOK
    <2>10. CASE AssertJoin(q)
        <3>1. c.pc = "assert" /\ c.op = "join" /\ d.room = c.room /\ d.pc = "write"
            BY <2>3, <2>6, <2>10 DEF AssertJoin, RequestRecord
        <3> QED BY <2>2, <2>4, <3>1
    <2>11. CASE AssertCreate(q)
        <3>1. d.op = "create"
            <4>1. /\ c.op = "create"
                  /\ \E r \in Unused :
                        d = [c EXCEPT !.pc = "write", !.room = r, !.snap = NewRoom(c.user)]
                BY <2>3, <2>6, <2>11 DEF AssertCreate
            <4> QED BY <2>3, <4>1 DEF RequestRecord
        <3> QED BY <2>1, <3>1
    <2>12. CASE StoreRace(q)
        <3>1. c.pc = "start" /\ c.op # "create" /\ d.room = c.room /\ d.pc = "load"
            BY <2>3, <2>12 DEF StoreRace, RequestRecord, RequestOK
        <3> QED BY <2>2, <2>4, <3>1
    <2> HIDE DEF c, d
    <2> QED BY <2>5, <2>6, <2>7, <2>8, <2>9, <2>10, <2>11, <2>12, RequestKinds
            DEF Continues, c, d
<1> QED BY <1>4, <1>5, <1>6, <1>7, <1>8, <1>9

LEMMA KnownHolds == Spec => [](SeatsInv /\ KnownInv)
<1>1. Init => KnownInv
    BY DEF Init, KnownInv, RequestKnown, Resting, Idle
<1>2. SeatsInv /\ KnownInv /\ [Next]_vars => KnownInv'
    BY KnownStep
<1> QED BY <1>1, <1>2, InitSeats, SeatsStep, PTL DEF Spec
-----------------------------------------------------------------------------
(* Redis and Postgres: a change that Postgres does not have is in the      *)
(* queue, or in the task that was the last to read the room, as long as it *)
(* has attempts left.                                                      *)

Coming(r) == \E t \in Task \ behind : task[t].pc # "idle" /\ task[t].room = r

CopyInv ==
    Undisturbed =>
        /\ \A r \in Room \ overtaken : pg[r] = redis[r] \/ queued[r] > 0 \/ Coming(r)
        /\ \A t \in Task \ behind : task[t].pc = "apply" =>
              task[t].snap = redis[task[t].room] \/ queued[task[t].room] > 0
        /\ \A t \in Task : task[t].pc # "idle" => task[t].attempt <= losses.faults

LEMMA StaysUndisturbed ==
    ASSUME SeatsInv, [Next]_vars, Undisturbed'
    PROVE  /\ Undisturbed /\ losses'.evictions = 0 /\ losses.evictions = 0
           /\ ~Crash /\ \A q \in Request : ~RequestDies(q)
           /\ \/ losses' = losses
              \/ losses'.faults = losses.faults + 1 /\ \E t \in Task : PersistFails(t)
<1>1. /\ losses.deaths \in Nat /\ losses.faults \in Nat
      /\ losses \in [faults : 0..MaxFaults, deaths : 0..MaxDeaths,
                     evictions : 0..MaxEvictions]
    BY BoundAssumption DEF SeatsInv, RestOK
<1>2. losses.evictions = 0 /\ losses'.evictions = 0 /\ \A r \in Room : ~Evict(r)
    BY NoneEvicted DEF Undisturbed
<1>3. losses'.deaths = 0 /\ losses'.faults < MaxAttempts
    BY DEF Undisturbed
<1>4. Crash \/ (\E q \in Request : RequestDies(q))
        => losses' = [losses EXCEPT !.deaths = @ + 1]
    BY DEF Crash, RequestDies
<1>5. ~Crash /\ \A q \in Request : ~RequestDies(q)
    BY <1>1, <1>3, <1>4
<1>6. \/ losses' = losses
      \/ /\ losses' = [losses EXCEPT !.faults = @ + 1]
         /\ \E t \in Task : PersistFails(t)
    BY <1>2, <1>5 DEF Next, vars, CreateRequest, RoomRequest, CountdownExpires, EndRace,
       Load, LoadRow, Restore, AssertJoin, AssertCreate, StoreRace, Write, PersistRead,
       PersistCommit, PersistFails, PersistRetry
<1>7. \/ losses' = losses
      \/ /\ losses'.faults = losses.faults + 1 /\ losses'.deaths = losses.deaths
         /\ \E t \in Task : PersistFails(t)
    BY <1>1, <1>6
<1>8. losses.deaths = 0 /\ losses.faults < MaxAttempts
    BY <1>1, <1>3, <1>7, BoundAssumption
<1> QED BY <1>2, <1>5, <1>7, <1>8 DEF Undisturbed

LEMMA CopyKinds ==
    ASSUME SeatsInv, KnownInv, [Next]_vars, Undisturbed'
    PROVE  \/ UNCHANGED <<redis, pg, queued, task, behind, overtaken>>
           \/ \E q \in Request : Write(q)
           \/ \E t \in Task : Persists(t)
<1>1. losses.evictions = 0 /\ \A r \in Room : ~Evict(r)
    BY StaysUndisturbed, NoneEvicted
<1>2. ~Crash /\ \A q \in Request : ~RequestDies(q)
    BY StaysUndisturbed
<1>3. ASSUME NEW q \in Request, Restore(q) PROVE FALSE
    <2>1. RequestOK(request[q]) /\ RequestKnown(request[q]) /\ request[q].pc = "restore"
        BY <1>1, <1>3 DEF SeatsInv, RequestsOK, KnownInv, Restore
    <2> QED BY <2>1 DEF RequestOK, RequestKnown
<1>4. ASSUME NEW q \in Request, Begins(q) \/ Continues(q) \/ Ends(q)
      PROVE  UNCHANGED <<redis, pg, queued, task, behind, overtaken>> \/ Write(q)
    BY <1>2, <1>3, <1>4 DEF Begins, Continues, Ends, CreateRequest, RoomRequest,
       CountdownExpires, EndRace, Load, LoadRow, AssertJoin, AssertCreate, StoreRace,
       history
<1>5. UNCHANGED vars => UNCHANGED <<redis, pg, queued, task, behind, overtaken>>
    BY DEF vars
<1> QED BY <1>1, <1>2, <1>4, <1>5, NextKinds

LEMMA CopyStep ==
    ASSUME SeatsInv, KnownInv, CopyInv, [Next]_vars
    PROVE  CopyInv'
<1> SUFFICES ASSUME Undisturbed'
    PROVE  /\ \A r \in Room \ overtaken' :
                 \/ pg'[r] = redis'[r] \/ queued'[r] > 0
                 \/ \E t \in Task \ behind' : task'[t].pc # "idle" /\ task'[t].room = r
           /\ \A t \in Task \ behind' : task'[t].pc = "apply" =>
                 \/ task'[t].snap = redis'[task'[t].room]
                 \/ queued'[task'[t].room] > 0
           /\ \A t \in Task : task'[t].pc # "idle" => task'[t].attempt <= losses'.faults
    BY DEF CopyInv, Coming
<1>1. /\ losses.evictions = 0 /\ losses.faults \in Nat /\ losses'.faults < MaxAttempts
      /\ losses' = losses \/ losses'.faults = losses.faults + 1
    BY StaysUndisturbed, BoundAssumption DEF SeatsInv, RestOK, Undisturbed
<1>2. /\ \A r \in Room \ overtaken :
            \/ pg[r] = redis[r] \/ queued[r] > 0
            \/ \E t \in Task \ behind : task[t].pc # "idle" /\ task[t].room = r
      /\ \A t \in Task \ behind : task[t].pc = "apply" =>
            task[t].snap = redis[task[t].room] \/ queued[task[t].room] > 0
      /\ \A t \in Task : task[t].pc # "idle" => task[t].attempt <= losses.faults
    BY StaysUndisturbed DEF CopyInv, Coming
<1>3. /\ redis \in [Room -> Copy] /\ pg \in [Room -> Copy]
      /\ queued \in [Room -> 0..MaxQueued] /\ task \in [Task -> TaskRecord]
      /\ \A r \in Room : queued[r] \in Nat
      /\ \A t \in Task : task[t].attempt \in Nat
      /\ \A t \in Task : task[t].pc # "idle" => task[t].room \in Room
    BY BoundAssumption DEF SeatsInv, RoomsOK, RestOK, TasksOK, TaskOK, TaskRecord
<1>4. CASE UNCHANGED <<redis, pg, queued, task, behind, overtaken>>
    BY <1>1, <1>2, <1>3, <1>4
<1>5. CASE \E q \in Request : Write(q)
    <2>1. PICK q \in Request : Write(q)
        BY <1>5
    <2>2. /\ redis' = [redis EXCEPT ![request[q].room] = request[q].snap]
          /\ queued' = [queued EXCEPT ![request[q].room] = @ + 1]
          /\ UNCHANGED <<pg, task, losses, behind, overtaken>>
        BY <2>1 DEF Write
    <2>3. \A r \in Room : \/ queued'[r] > 0
                          \/ redis'[r] = redis[r] /\ queued'[r] = queued[r]
        BY <1>3, <2>2
    <2> QED BY <1>2, <1>3, <2>2, <2>3
<1>6. ASSUME NEW t \in Task, NEW s \in Room,
             UNCHANGED <<redis, pg, overtaken>>, redis[s] # NoRoom,
             \A r \in Room \ {s} : queued'[r] = queued[r],
             \A u \in Task \ {t} : task'[u] = task[u],
             behind' = (behind \cup {u \in Task : task[u].pc = "apply" /\ task[u].room = s})
                       \ {t},
             task'[t].pc = "apply", task'[t].room = s, task'[t].snap = redis[s],
             task'[t].attempt <= losses.faults, losses' = losses,
             task[t].pc = "idle" \/ task[t].room = s
      PROVE  /\ \A r \in Room \ overtaken' :
                   \/ pg'[r] = redis'[r] \/ queued'[r] > 0
                   \/ \E u \in Task \ behind' : task'[u].pc # "idle" /\ task'[u].room = r
             /\ \A u \in Task \ behind' : task'[u].pc = "apply" =>
                   \/ task'[u].snap = redis'[task'[u].room]
                   \/ queued'[task'[u].room] > 0
             /\ \A u \in Task : task'[u].pc # "idle" => task'[u].attempt <= losses'.faults
    <2>1. ASSUME NEW r \in Room \ overtaken', r # s
          PROVE  \/ pg'[r] = redis'[r] \/ queued'[r] > 0
                 \/ \E u \in Task \ behind' : task'[u].pc # "idle" /\ task'[u].room = r
        <3>1. CASE pg[r] = redis[r] \/ queued[r] > 0
            BY <1>6, <2>1, <3>1
        <3>2. ASSUME NEW u \in Task \ behind, task[u].pc # "idle", task[u].room = r
              PROVE  u \notin behind' /\ task'[u].pc # "idle" /\ task'[u].room = r
            BY <1>6, <2>1, <3>2
        <3> QED BY <1>2, <1>6, <3>1, <3>2
    <2>2. ASSUME NEW u \in Task \ behind', task'[u].pc = "apply", u # t
          PROVE  \/ task'[u].snap = redis'[task'[u].room]
                 \/ queued'[task'[u].room] > 0
        <3>1. u \notin behind /\ task'[u] = task[u] /\ task[u].room # s
            BY <1>6, <2>2
        <3> QED BY <1>2, <1>3, <1>6, <2>2, <3>1
    <2>3. \A u \in Task : task'[u].pc # "idle" => task'[u].attempt <= losses'.faults
        BY <1>2, <1>6
    <2> QED BY <1>6, <2>1, <2>2, <2>3
<1>7. ASSUME NEW t \in Task, NEW s \in Room, PersistRead(t, s)
      PROVE  /\ UNCHANGED <<redis, pg, overtaken>> /\ redis[s] # NoRoom
             /\ \A r \in Room \ {s} : queued'[r] = queued[r]
             /\ \A u \in Task \ {t} : task'[u] = task[u]
             /\ behind' = (behind \cup {u \in Task : task[u].pc = "apply" /\ task[u].room = s})
                          \ {t}
             /\ task'[t].pc = "apply" /\ task'[t].room = s /\ task'[t].snap = redis[s]
             /\ task'[t].attempt <= losses.faults /\ losses' = losses
             /\ task[t].pc = "idle"
    <2>1. queued[s] > 0 /\ redis[s] # NoRoom
        BY <1>1, <1>7 DEF PersistRead, KnownInv, Known
    <2> QED BY <1>1, <1>3, <1>7, <2>1 DEF PersistRead, Newest
<1>8. ASSUME NEW t \in Task, PersistRetry(t)
      PROVE  /\ UNCHANGED <<redis, pg, overtaken, queued>>
             /\ task[t].room \in Room /\ redis[task[t].room] # NoRoom
             /\ \A u \in Task \ {t} : task'[u] = task[u]
             /\ behind' = (behind \cup {u \in Task : task[u].pc = "apply"
                                                     /\ task[u].room = task[t].room})
                          \ {t}
             /\ task'[t].pc = "apply" /\ task'[t].room = task[t].room
             /\ task'[t].snap = redis[task[t].room]
             /\ task'[t].attempt <= losses.faults /\ losses' = losses
    <2>1. /\ UNCHANGED <<redis, pg, overtaken, queued, losses>>
          /\ task[t].pc = "backoff" /\ task[t].room \in Room
        BY <1>3, <1>8 DEF PersistRetry
    <2>2. redis[task[t].room] # NoRoom
        BY <1>1, <2>1 DEF KnownInv, Known
    <2>3. /\ task' = [task EXCEPT ![t] = [@ EXCEPT !.pc = "apply", !.snap = redis[task[t].room]]]
          /\ Newest(t, task[t].room)
        BY <1>8, <2>2 DEF PersistRetry
    <2>4. /\ task'[t].pc = "apply" /\ task'[t].room = task[t].room
          /\ task'[t].attempt = task[t].attempt /\ task'[t].snap = redis[task[t].room]
          /\ \A u \in Task \ {t} : task'[u] = task[u]
        BY <1>3, <2>3 DEF TaskRecord
    <2> QED BY <1>2, <2>1, <2>2, <2>3, <2>4 DEF Newest
<1>9. ASSUME NEW t \in Task, PersistCommit(t)
      PROVE  /\ \A r \in Room \ overtaken' :
                   \/ pg'[r] = redis'[r] \/ queued'[r] > 0
                   \/ \E u \in Task \ behind' : task'[u].pc # "idle" /\ task'[u].room = r
             /\ \A u \in Task \ behind' : task'[u].pc = "apply" =>
                   \/ task'[u].snap = redis'[task'[u].room]
                   \/ queued'[task'[u].room] > 0
             /\ \A u \in Task : task'[u].pc # "idle" => task'[u].attempt <= losses'.faults
    <2> DEFINE s == task[t].room
    <2>1. /\ task[t].pc = "apply" /\ s \in Room /\ UNCHANGED <<redis, queued, losses>>
          /\ pg' = [pg EXCEPT ![s] = task[t].snap]
          /\ task' = [task EXCEPT ![t] = Resting] /\ behind' = behind \ {t}
          /\ overtaken' = IF t \in behind THEN overtaken \cup {s} ELSE overtaken \ {s}
        BY <1>3, <1>9 DEF PersistCommit, Rest
    <2>2. task'[t].pc = "idle" /\ \A u \in Task \ {t} : task'[u] = task[u]
        BY <1>3, <2>1 DEF Resting
    <2>3. ASSUME s \notin overtaken'
          PROVE  pg'[s] = redis'[s] \/ queued'[s] > 0
        BY <1>2, <1>3, <2>1, <2>3
    <2>4. ASSUME NEW r \in Room \ overtaken', r # s
          PROVE  \/ pg'[r] = redis'[r] \/ queued'[r] > 0
                 \/ \E u \in Task \ behind' : task'[u].pc # "idle" /\ task'[u].room = r
        <3>1. r \notin overtaken /\ pg'[r] = pg[r]
            BY <1>3, <2>1, <2>4
        <3>2. ASSUME NEW u \in Task \ behind, task[u].pc # "idle", task[u].room = r
              PROVE  u \notin behind' /\ task'[u].pc # "idle" /\ task'[u].room = r
            BY <2>1, <2>2, <2>4, <3>2
        <3> QED BY <1>2, <2>1, <3>1, <3>2
    <2>5. \A u \in Task \ behind' : task'[u].pc = "apply" =>
             u \notin behind /\ task'[u] = task[u]
        BY <2>1, <2>2
    <2>6. \A u \in Task : task'[u].pc # "idle" => task'[u].attempt <= losses'.faults
        BY <1>2, <2>1, <2>2
    <2> HIDE DEF s
    <2> QED BY <1>2, <2>1, <2>3, <2>4, <2>5, <2>6
<1>10. ASSUME NEW t \in Task, PersistFails(t)
      PROVE  /\ \A r \in Room \ overtaken' :
                   \/ pg'[r] = redis'[r] \/ queued'[r] > 0
                   \/ \E u \in Task \ behind' : task'[u].pc # "idle" /\ task'[u].room = r
             /\ \A u \in Task \ behind' : task'[u].pc = "apply" =>
                   \/ task'[u].snap = redis'[task'[u].room]
                   \/ queued'[task'[u].room] > 0
             /\ \A u \in Task : task'[u].pc # "idle" => task'[u].attempt <= losses'.faults
    <2>1. /\ UNCHANGED <<redis, pg, queued, overtaken>> /\ task[t].pc = "apply"
          /\ losses' = [losses EXCEPT !.faults = @ + 1]
        BY <1>10 DEF PersistFails
    <2>2. losses'.faults = losses.faults + 1
        BY <2>1 DEF SeatsInv, RestOK
    <2>3. task[t].attempt <= losses.faults
        BY <1>2, <2>1
    <2>4. ~(task[t].attempt + 1 >= MaxAttempts)
        BY <1>1, <1>3, <2>2, <2>3, BoundAssumption
    <2>5. task' = [task EXCEPT ![t] = BackingOff(task[t])] /\ behind' = behind \ {t}
        BY <1>10, <2>4 DEF PersistFails, BackOff
    <2>6. /\ task'[t].pc = "backoff" /\ task'[t].room = task[t].room
          /\ task'[t].attempt = task[t].attempt + 1
          /\ \A u \in Task \ {t} : task'[u] = task[u]
        BY <1>3, <2>5 DEF BackingOff, TaskRecord
    <2>7. \A u \in Task : task'[u].pc # "idle" => task'[u].attempt <= losses'.faults
        BY <1>1, <1>2, <1>3, <2>2, <2>3, <2>6
    <2>8. ASSUME NEW u \in Task \ behind, task[u].pc # "idle"
          PROVE  u \notin behind' /\ task'[u].pc # "idle" /\ task'[u].room = task[u].room
        BY <2>5, <2>6, <2>8
    <2>9. \A u \in Task \ behind' : task'[u].pc = "apply" =>
             u \notin behind /\ task'[u] = task[u]
        BY <2>5, <2>6
    <2> QED BY <1>2, <2>1, <2>7, <2>8, <2>9
<1>11. CASE \E t \in Task : Persists(t)
    BY <1>6, <1>7, <1>8, <1>9, <1>10, <1>11 DEF Persists
<1> QED BY <1>4, <1>5, <1>11, CopyKinds

(* Once no task is scheduled or under way for a room, Postgres has what    *)
(* Redis has, as long as fewer transactions failed than a task has         *)
(* attempts: however requests and tasks overlap, only a commit that        *)
(* another task has overtaken leaves an old room (RoomSyncService).        *)
THEOREM OnlyOvertakenLagBehind == Spec => []SyncedWhenQuiet
<1>1. Init => CopyInv
    BY DEF Init, CopyInv, Resting
<1>2. SeatsInv /\ KnownInv /\ CopyInv /\ [Next]_vars => CopyInv'
    BY CopyStep
<1>3. SeatsInv /\ CopyInv => SyncedWhenQuiet
    BY BoundAssumption DEF CopyInv, Coming, SyncedWhenQuiet, Quiet
<1> QED BY <1>1, <1>2, <1>3, KnownHolds, PTL DEF Spec
-----------------------------------------------------------------------------
(* What a request that is not outdated will write, as long as Redis loses  *)
(* no room.                                                                *)

(* The players of a race are those of a room that races.                   *)
FitsRace(ids, snap) == ids # {} /\ snap.status = "RACING" => ids = UserIds(snap)

(* What such a request holds is what Redis has, and what it will write     *)
(* goes forward from that.                                                 *)
Current(c, now) ==
    /\ c.pc = "assert" /\ c.op = "join" => c.snap = now /\ now.status = "WAITING"
    /\ c.pc = "start" => c.snap = now /\ now.status = "WAITING"
    /\ c.pc = "load" /\ c.op = "setRacing" => now.status = "WAITING"
    /\ c.pc = "write" =>
          /\ now # NoRoom => Forward(now, c.snap)
          /\ c.snap.status = "RACING" =>
                c.op = "setRacing" /\ UserIds(c.snap) = UserIds(now)

(* Nobody has joined between the race it stored and the status it will set.*)
Started(c, now, ids) ==
    c.op = "setRacing" /\ c.pc \in {"load", "write"} => ids \in {{}, UserIds(now)}

CurrentInv ==
    losses.evictions = 0 =>
        /\ \A q \in Request \ outdated : Current(request[q], redis[request[q].room])
        /\ \A q \in Request \ outdated :
              request[q].room \notin mixed =>
                 Started(request[q], redis[request[q].room], race[request[q].room])
        /\ \A r \in Room \ mixed : redis[r] # NoRoom => FitsRace(race[r], redis[r])

(* No operation takes a user, a readiness or a status back.                *)
LEMMA ForwardSteps ==
    ASSUME NEW snap \in Snapshot
    PROVE  /\ Forward(snap, snap)
           /\ \A u \in User : /\ Forward(snap, WithReady(snap, u))
                              /\ WithReady(snap, u).status = snap.status
           /\ \A u \in User : /\ snap.status = "WAITING" => Forward(snap, WithMember(snap, u))
                              /\ WithMember(snap, u).status = snap.status
           /\ \A st \in Status : Rank(snap.status) <= Rank(st) =>
                 /\ Forward(snap, WithStatus(snap, st))
                 /\ UserIds(WithStatus(snap, st)) = UserIds(snap)
                 /\ WithStatus(snap, st).status = st
<1>1. snap.players \subseteq Member /\ snap.status \in Status
    BY DEF Snapshot
<1>2. \A st \in Status : Rank(st) \in Nat
    BY DEF Status, Rank
<1>3. ASSUME NEW new, new.status = snap.status, snap.players \subseteq new.players,
             snap.status = "WAITING" \/ new = snap
      PROVE  Forward(snap, new)
    BY <1>1, <1>2, <1>3 DEF Forward, UserIds, ReadyIds
<1>4. ASSUME NEW u \in User
      PROVE  /\ Forward(snap, WithReady(snap, u))
             /\ WithReady(snap, u).status = snap.status
    <2> DEFINE up(m) == IF m.userId = u THEN [m EXCEPT !.isReady = TRUE] ELSE m
               new == WithReady(snap, u)
    <2>1. new.status = snap.status /\ new.players = {up(m) : m \in snap.players}
        BY DEF WithReady, Snapshot
    <2>2. \A m \in Member : up(m).userId = m.userId /\ (m.isReady => up(m).isReady)
        BY DEF Member
    <2> HIDE DEF up, new
    <2>3. UserIds(snap) = UserIds(new)
        BY <1>1, <2>1, <2>2 DEF UserIds
    <2>4. ReadyIds(snap) \subseteq ReadyIds(new)
        BY <1>1, <2>1, <2>2 DEF ReadyIds
    <2>5. Forward(snap, new)
        BY <1>1, <1>2, <2>1, <2>3, <2>4 DEF Forward
    <2> QED BY <2>1, <2>5 DEF new
<1>5. ASSUME NEW u \in User
      PROVE  /\ snap.status = "WAITING" => Forward(snap, WithMember(snap, u))
             /\ WithMember(snap, u).status = snap.status
    <2>1. /\ WithMember(snap, u).status = snap.status
          /\ snap.players \subseteq WithMember(snap, u).players
        BY DEF WithMember, Snapshot
    <2> QED BY <1>3, <2>1
<1>6. ASSUME NEW st \in Status, Rank(snap.status) <= Rank(st)
      PROVE  /\ Forward(snap, WithStatus(snap, st))
             /\ UserIds(WithStatus(snap, st)) = UserIds(snap)
             /\ WithStatus(snap, st).status = st
    <2>1. /\ WithStatus(snap, st).status = st
          /\ WithStatus(snap, st).players = snap.players
        BY DEF WithStatus, Snapshot
    <2> QED BY <1>6, <2>1 DEF Forward, UserIds, ReadyIds
<1>7. Forward(snap, snap)
    BY <1>3
<1> QED BY <1>4, <1>5, <1>6, <1>7

(* While it is not outdated, Redis has what a request stands on.           *)
LEMMA StillCurrent ==
    ASSUME SeatsInv, KnownInv, HistoryInv, [Next]_vars, losses'.evictions = 0,
           NEW q \in Request, q \notin outdated', request'[q].pc # "idle",
           request[q].pc # "idle",
           request[q].snap # NoRoom \/ request[q].op = "setRacing"
    PROVE  redis' = redis \/ redis'[request[q].room] = redis[request[q].room]
<1>1. q \in Busy /\ request[q] \in RequestRecord /\ DOMAIN redis = Room
    BY DEF Busy, SeatsInv, RequestsOK, RoomsOK
<1>2. q \in StandingOn(request[q].room)
    BY <1>1 DEF StandingOn
<1>3. ASSUME NEW p \in Request, Restore(p) PROVE FALSE
    <2>1. request[p].pc = "restore" /\ RequestOK(request[p]) /\ RequestKnown(request[p])
        BY <1>3, NoneEvicted DEF Restore, SeatsInv, RequestsOK, KnownInv
    <2> QED BY <2>1 DEF RequestOK, RequestKnown
<1>4. ASSUME NEW p \in Request, Write(p) \/ RequestDies(p), redis' # redis
      PROVE  redis'[request[q].room] = redis[request[q].room]
    <2>1. request' = [request EXCEPT ![p] = Idle]
        BY <1>4 DEF Write, RequestDies
    <2>2. p # q
        BY <2>1 DEF Idle, SeatsInv, RequestsOK
    <2>3. /\ redis' = [redis EXCEPT ![request[p].room] = request[p].snap]
          /\ outdated' = (outdated \cup StandingOn(request[p].room)) \ {p}
        BY <1>4 DEF Write, RequestDies, Overwrites
    <2>4. request[p].room # request[q].room
        BY <1>2, <2>2, <2>3
    <2> QED BY <1>1, <2>3, <2>4
<1> QED BY <1>3, <1>4, NoneEvicted, StoreKinds

(* A request that is current has been so, or has just read the room.       *)
LEMMA WasCurrent ==
    ASSUME SeatsInv, HistoryInv, [Next]_vars, NEW q \in Request, q \notin outdated'
    PROVE  \/ q \notin outdated \/ request'[q] = Idle
           \/ Load(q) /\ request[q].op # "setRacing"
           \/ LoadRow(q) \/ Restore(q) \/ AssertCreate(q)
<1>1. ASSUME NEW p \in Request, Begins(p) \/ Continues(p) \/ Ends(p), q \in outdated
      PROVE  \/ request'[q] = Idle
             \/ Load(q) /\ request[q].op # "setRacing"
             \/ LoadRow(q) \/ Restore(q) \/ AssertCreate(q)
    BY <1>1, RequestHistory
<1>2. (\E t \in Task : Persists(t)) \/ (\E r \in Room : Evict(r)) \/ UNCHANGED vars
         => outdated' = outdated
    BY DEF Persists, PersistRead, PersistCommit, PersistFails, PersistRetry, Evict, vars,
       history
<1>3. Crash => request'[q] = Idle
    BY DEF Crash
<1> QED BY <1>1, <1>2, <1>3, NextKinds

(* Rooms stay mixed; a request that makes a race of a room or writes it    *)
(* and leaves it unmixed is not outdated.                                  *)
LEMMA MixedGrows ==
    ASSUME SeatsInv, HistoryInv, [Next]_vars
    PROVE  /\ mixed \subseteq mixed'
           /\ \A q \in Request : StoreRace(q) \/ Write(q) =>
                 request[q].room \in mixed' \/ q \notin outdated
           /\ \A q \in Request : RequestDies(q) =>
                 redis' = redis \/ request[q].room \in mixed' \/ q \notin outdated
<1>1. ASSUME NEW p \in Request, Begins(p) \/ Continues(p) \/ Ends(p)
      PROVE  mixed \subseteq mixed'
    BY <1>1, RequestHistory
<1>2. (\E t \in Task : Persists(t)) \/ (\E r \in Room : Evict(r)) \/ Crash \/ UNCHANGED vars
         => mixed' = mixed
    BY DEF Persists, PersistRead, PersistCommit, PersistFails, PersistRetry, Evict, vars,
       history, Crash
<1>3. \A q \in Request : StoreRace(q) \/ Write(q) =>
         request[q].room \in mixed' \/ q \notin outdated
    BY DEF StoreRace, Write, Overwrites, MixedIfOutdated
<1>4. \A q \in Request : RequestDies(q) =>
         redis' = redis \/ request[q].room \in mixed' \/ q \notin outdated
    BY DEF RequestDies, Overwrites, MixedIfOutdated
<1> QED BY <1>1, <1>2, <1>3, <1>4, NextKinds

(* What a race becomes, in a room that stays unmixed.                      *)
LEMMA RaceKinds ==
    ASSUME SeatsInv, KnownInv, HistoryInv, CurrentInv, [Next]_vars,
           losses'.evictions = 0, NEW r \in Room, r \notin mixed'
    PROVE  \/ race'[r] = race[r] \/ race'[r] = {}
           \/ /\ redis' = redis /\ redis[r].status = "WAITING"
              /\ race'[r] = UserIds(redis[r])
<1>1. ASSUME NEW q \in Request, StoreRace(q), race'[r] # race[r]
      PROVE  /\ redis' = redis /\ redis[r].status = "WAITING"
             /\ race'[r] = UserIds(redis[r])
    <2>1. /\ request[q].room = r /\ race'[r] = UserIds(request[q].snap)
          /\ redis' = redis /\ request[q].pc = "start"
        BY <1>1 DEF StoreRace, SeatsInv, RestOK
    <2>2. q \notin outdated
        BY <1>1, <2>1, MixedGrows
    <2>3. Current(request[q], redis[r])
        BY <2>1, <2>2, NoneEvicted DEF CurrentInv
    <2> QED BY <2>1, <2>3 DEF Current
<1>2. ASSUME NEW q \in Request, NEW s \in Room, EndRace(q, s)
      PROVE  race'[r] = race[r] \/ race'[r] = {}
    BY <1>2 DEF EndRace, SeatsInv, RestOK
<1> QED BY <1>1, <1>2, StoreKinds

LEMMA RosterStep ==
    ASSUME SeatsInv, KnownInv, HistoryInv, CurrentInv, [Next]_vars, losses'.evictions = 0,
           NEW r \in Room, r \notin mixed', redis'[r] # NoRoom
    PROVE  FitsRace(race'[r], redis'[r])
<1>1. r \notin mixed
    BY MixedGrows
<1>2. /\ redis[r] # NoRoom => FitsRace(race[r], redis[r])
      /\ \A q \in Request : RequestKnown(request[q]) /\ RequestOK(request[q])
    BY <1>1, NoneEvicted DEF CurrentInv, KnownInv, SeatsInv, RequestsOK
<1>3. CASE redis'[r] = redis[r]
    BY <1>2, <1>3, RaceKinds DEF FitsRace
<1>4. ASSUME NEW q \in Request, Write(q) \/ RequestDies(q), redis'[r] # redis[r]
      PROVE  FitsRace(race'[r], redis'[r])
    <2>1. /\ race' = race /\ request[q].pc \in {"write", "restore"}
          /\ redis' = [redis EXCEPT ![request[q].room] = request[q].snap]
        BY <1>4 DEF Write, RequestDies
    <2>2. request[q].pc = "write"
        BY <1>2, <2>1 DEF RequestKnown, RequestOK
    <2>3. request[q].room = r /\ redis'[r] = request[q].snap
        BY <1>4, <2>1 DEF SeatsInv, RoomsOK
    <2>4. q \notin outdated
        BY <1>4, <2>3, MixedGrows
    <2>5. /\ Current(request[q], redis[r])
          /\ Started(request[q], redis[r], race[r])
        BY <1>1, <2>3, <2>4, NoneEvicted DEF CurrentInv
    <2>6. redis'[r].status = "RACING" => race[r] \in {{}, UserIds(redis'[r])}
        BY <2>2, <2>3, <2>5 DEF Current, Started
    <2> QED BY <2>1, <2>6 DEF FitsRace
<1>5. ASSUME NEW q \in Request, Restore(q) PROVE FALSE
    BY <1>2, <1>5 DEF Restore, RequestKnown, RequestOK
<1> QED BY <1>3, <1>4, <1>5, NoneEvicted, StoreKinds

(* A request that keeps its await keeps what is known of it.               *)
LEMMA KeepsCurrent ==
    ASSUME SeatsInv, KnownInv, HistoryInv, CurrentInv, [Next]_vars,
           losses'.evictions = 0, NEW q \in Request, q \notin outdated',
           request'[q] = request[q], ~StoreRace(q), request[q].pc # "idle"
    PROVE  /\ Current(request[q], redis'[request[q].room])
           /\ request[q].room \notin mixed' =>
                 Started(request[q], redis'[request[q].room], race'[request[q].room])
<1> DEFINE c == request[q]
           r == c.room
<1>1. /\ c \in RequestRecord /\ RequestOK(c) /\ RequestKnown(c)
      /\ request \in [Request -> RequestRecord]
    BY NoneEvicted DEF KnownInv, SeatsInv, RequestsOK
<1>2. q \notin outdated
    <2>1. request'[q] # Idle
        BY DEF Idle
    <2>2. ~(Load(q) \/ LoadRow(q) \/ Restore(q) \/ AssertCreate(q))
        <3>1. ~LoadRow(q) /\ ~Restore(q)
            BY <1>1 DEF LoadRow, Restore, RequestKnown, RequestOK
        <3>2. ~AssertCreate(q)
            <4> SUFFICES ASSUME AssertCreate(q) PROVE FALSE
                OBVIOUS
            <4>1. c.pc = "assert"
                BY DEF AssertCreate
            <4>2. PICK s \in Unused : request'[q] =
                     [c EXCEPT !.pc = "write", !.room = s, !.snap = NewRoom(c.user)]
                BY <1>1, <2>1 DEF AssertCreate
            <4>3. request'[q].pc = "write"
                BY <1>1, <4>2 DEF RequestRecord
            <4> QED BY <4>1, <4>3
        <3>3. ~Load(q)
            <4>1. ASSUME Load(q), c.pc = "load"
                  PROVE  \/ request'[q] = Decided(c, redis[r])
                         \/ request'[q] = [c EXCEPT !.pc = "miss"]
                BY <1>1, <4>1 DEF Load
            <4>2. [c EXCEPT !.pc = "miss"].pc = "miss"
                BY <1>1 DEF RequestRecord
            <4>3. Decided(c, redis[r]) = Idle
                  \/ Decided(c, redis[r]).pc \in {"assert", "write", "start"}
                BY <1>1, DecidedKinds
            <4> QED BY <2>1, <4>1, <4>2, <4>3 DEF Load
        <3> QED BY <3>1, <3>2, <3>3
    <2> QED BY <2>1, <2>2, WasCurrent
<1>3. Current(c, redis[r])
    BY <1>2, NoneEvicted DEF CurrentInv
<1>4. CASE c.snap = NoRoom /\ c.op # "setRacing"
    <2>1. c.pc \notin {"start", "write"} /\ ~(c.pc = "assert" /\ c.op = "join")
        BY <1>1, <1>4 DEF RequestOK
    <2> QED BY <1>4, <2>1 DEF Current, Started
<1>5. CASE c.snap # NoRoom \/ c.op = "setRacing"
    <2>1. redis'[r] = redis[r]
        BY <1>5, StillCurrent
    <2>2. Current(c, redis'[r])
        BY <1>3, <2>1
    <2>3. ASSUME r \notin mixed', c.op = "setRacing", c.pc \in {"load", "write"}
          PROVE  race'[r] \in {{}, UserIds(redis'[r])}
        <3>1. r \in Room /\ r \notin mixed
            BY <1>1, <2>3, MixedGrows DEF RequestOK
        <3>2. Started(c, redis[r], race[r])
            BY <1>2, <3>1, NoneEvicted DEF CurrentInv
        <3>3. race[r] \in {{}, UserIds(redis[r])}
            BY <2>3, <3>2 DEF Started
        <3> QED BY <2>1, <2>3, <3>1, <3>3, RaceKinds
    <2> QED BY <2>2, <2>3 DEF Started
<1> QED BY <1>4, <1>5

LEMMA CurrentStep ==
    ASSUME SeatsInv, KnownInv, HistoryInv, CurrentInv, [Next]_vars,
           losses'.evictions = 0, NEW q \in Request, q \notin outdated'
    PROVE  /\ Current(request'[q], redis'[request'[q].room])
           /\ request'[q].room \notin mixed' =>
                 Started(request'[q], redis'[request'[q].room], race'[request'[q].room])
<1> DEFINE c == request[q]
           d == request'[q]
<1>1. /\ c \in RequestRecord /\ RequestOK(c) /\ RequestKnown(c)
      /\ request \in [Request -> RequestRecord]
    BY NoneEvicted DEF KnownInv, SeatsInv, RequestsOK
<1>2. c.pc # "idle" /\ c.op # "create" =>
         /\ c.room \in Room /\ redis[c.room] \in Snapshot
         /\ c.pc \notin {"miss", "restore"}
    BY <1>1 DEF RequestOK, RequestKnown, Known, SeatsInv, RoomsOK, Copy
<1>3. CASE d = Idle
    BY <1>3 DEF Idle, Current, Started
<1>4. CASE Begins(q)
    <2>1. \/ d.pc = "load" /\ d.op # "setRacing"
          \/ d.pc = "assert" /\ d.op = "create"
        BY <1>1, <1>4 DEF Begins, CreateRequest, RoomRequest, CountdownExpires,
           EndRace, Begin
    <2> QED BY <2>1 DEF Current, Started
<1>5. CASE d = c /\ ~StoreRace(q)
    <2>1. CASE c.pc = "idle"
        BY <1>5, <2>1 DEF Current, Started
    <2>2. CASE c.pc # "idle"
        BY <1>5, <2>2, KeepsCurrent
    <2> QED BY <2>1, <2>2
<1>6. \/ q \notin outdated \/ d = Idle
      \/ (Load(q) /\ c.op # "setRacing") \/ AssertCreate(q)
    <2>1. ~LoadRow(q) /\ ~Restore(q)
        BY <1>1 DEF LoadRow, Restore, RequestKnown, RequestOK
    <2> QED BY <2>1, WasCurrent
<1>7. CASE Load(q) /\ d # Idle
    <2> DEFINE now == redis[c.room]
    <2>1. /\ c.pc = "load" /\ c.op # "create" /\ race' = race /\ redis' = redis
          /\ mixed' = mixed
        BY <1>1, <1>7 DEF Load, RequestOK
    <2>2. now \in Snapshot /\ now # NoRoom
        BY <1>2, <2>1, NoRoomAssumption
    <2>3. d = Decided(c, now)
        BY <1>1, <1>7, <2>2 DEF Load
    <2>4. c.op \in {"join", "ready"} => c.user \in User
        BY <1>1 DEF RequestOK
    <2>5. c.op = "setRacing" =>
             /\ now.status = "WAITING"
             /\ c.room \notin mixed => race[c.room] \in {{}, UserIds(now)}
        <3>1. c.op = "setRacing" => q \notin outdated
            BY <1>6, <1>7, <2>1 DEF AssertCreate
        <3>2. c.op = "setRacing" => Current(c, now)
            BY <3>1, NoneEvicted DEF CurrentInv
        <3>3. c.op = "setRacing" /\ c.room \notin mixed => Started(c, now, race[c.room])
            BY <3>1, NoneEvicted DEF CurrentInv
        <3> QED BY <2>1, <3>2, <3>3 DEF Current, Started
    <2> HIDE DEF c, d, now
    <2>6. d.room = c.room /\ d.op = c.op
        BY <1>1, <1>7, <2>3, DecidedKinds
    <2>7. Current(d, now)
        <3>1. CASE d.pc \in {"assert", "start"}
            <4>1. d.snap = now /\ now.status = "WAITING"
                BY <1>1, <1>7, <2>3, <3>1, DecidedKinds DEF MayJoin, MayStart
            <4> QED BY <3>1, <4>1 DEF Current
        <3>2. CASE d.pc = "write" /\ c.op = "ready"
            <4>1. d.snap = WithReady(now, c.user) /\ now.status = "WAITING"
                BY <1>1, <1>7, <2>3, <3>2, DecidedKinds DEF MayBeReady
            <4> QED BY <2>2, <2>4, <3>2, <4>1, ForwardSteps DEF Current
        <3>3. CASE d.pc = "write" /\ c.op = "setRacing"
            <4>1. d.snap = WithStatus(now, "RACING")
                BY <1>1, <1>7, <2>3, <3>3, DecidedKinds
            <4>2. "RACING" \in Status /\ Rank(now.status) <= Rank("RACING")
                BY <2>5, <3>3 DEF Status, Rank
            <4> QED BY <2>2, <2>6, <3>3, <4>1, <4>2, ForwardSteps DEF Current
        <3>4. CASE d.pc = "write" /\ c.op = "setFinished"
            <4>1. d.snap = WithStatus(now, "FINISHED")
                BY <1>1, <1>7, <2>3, <3>4, DecidedKinds
            <4>2. "FINISHED" \in Status /\ Rank(now.status) <= Rank("FINISHED")
                BY <2>2 DEF Snapshot, Status, Rank
            <4> QED BY <2>2, <3>4, <4>1, <4>2, ForwardSteps DEF Current
        <3> QED BY <1>1, <1>7, <2>3, <3>1, <3>2, <3>3, <3>4, DecidedKinds
    <2>8. c.room \notin mixed' => Started(d, now, race[c.room])
        BY <2>1, <2>5, <2>6 DEF Started
    <2> QED BY <2>1, <2>6, <2>7, <2>8 DEF c, d, now
<1>8. CASE LoadRow(q) \/ Restore(q)
    BY <1>1, <1>2, <1>8 DEF LoadRow, Restore, RequestOK
<1>9. CASE AssertJoin(q) /\ d # Idle
    <2>1. /\ c.pc = "assert" /\ c.op = "join" /\ redis' = redis /\ c.snap # NoRoom
          /\ d.pc = "write" /\ d.snap = WithMember(c.snap, c.user) /\ d.room = c.room
          /\ d.op = c.op
        BY <1>1, <1>9 DEF AssertJoin, RequestRecord, RequestOK
    <2>2. q \notin outdated
        BY <1>6, <1>9, <2>1 DEF Load, AssertCreate
    <2>3. Current(c, redis[c.room])
        BY <2>2, NoneEvicted DEF CurrentInv
    <2>4. /\ c.snap = redis[c.room] /\ c.snap.status = "WAITING"
          /\ c.snap \in Snapshot /\ c.user \in User
        BY <1>1, <1>2, <2>1, <2>3 DEF Current, RequestOK
    <2>5. /\ Forward(c.snap, WithMember(c.snap, c.user))
          /\ WithMember(c.snap, c.user).status = "WAITING"
        BY <2>4, ForwardSteps
    <2> QED BY <2>1, <2>4, <2>5 DEF Current, Started
<1>10. CASE AssertCreate(q) /\ d # Idle
    <2>1. PICK r \in Unused : /\ d = [c EXCEPT !.pc = "write", !.room = r, !.snap = NewRoom(c.user)]
                              /\ redis' = redis /\ c.op = "create"
        BY <1>1, <1>10 DEF AssertCreate
    <2>2. d.pc = "write" /\ d.room = r /\ d.snap = NewRoom(c.user) /\ d.op = "create"
        BY <1>1, <2>1 DEF RequestRecord
    <2>3. redis'[r] = NoRoom /\ NewRoom(c.user).status = "WAITING"
        BY <2>1 DEF Unused, NewRoom
    <2> QED BY <2>2, <2>3 DEF Current, Started
<1>11. CASE StoreRace(q)
    <2>1. /\ c.pc = "start" /\ c.op # "create" /\ redis' = redis /\ c.snap # NoRoom
          /\ d.pc = "load" /\ d.op = "setRacing" /\ d.room = c.room
        BY <1>1, <1>11 DEF StoreRace, RequestRecord, RequestOK
    <2>2. q \notin outdated
        BY <1>6, <2>1 DEF Load, AssertCreate, Idle
    <2>3. Current(c, redis[c.room])
        BY <2>2, NoneEvicted DEF CurrentInv
    <2>4. c.snap = redis[c.room] /\ redis[c.room].status = "WAITING" /\ c.room \in Room
        BY <1>2, <2>1, <2>3 DEF Current
    <2>5. race'[c.room] = UserIds(c.snap)
        BY <1>11, <2>4 DEF StoreRace, SeatsInv, RestOK
    <2> QED BY <2>1, <2>4, <2>5 DEF Current, Started
<1> HIDE DEF c, d
<1> QED BY <1>3, <1>4, <1>5, <1>7, <1>8, <1>9, <1>10, <1>11, RequestKinds
        DEF Continues, c, d

LEMMA CurrentHolds == Spec => [](SeatsInv /\ KnownInv /\ HistoryInv /\ CurrentInv)
<1>1. Init => HistoryInv /\ CurrentInv
    BY DEF Init, HistoryInv, CurrentInv, Idle, Current, Started
<1>2. SeatsInv /\ KnownInv /\ HistoryInv /\ CurrentInv /\ [Next]_vars => CurrentInv'
    <2> SUFFICES ASSUME SeatsInv, KnownInv, HistoryInv, CurrentInv, [Next]_vars,
                        losses'.evictions = 0
                 PROVE  /\ \A q \in Request \ outdated' :
                              Current(request'[q], redis'[request'[q].room])
                        /\ \A q \in Request \ outdated' :
                              request'[q].room \notin mixed' =>
                                 Started(request'[q], redis'[request'[q].room],
                                         race'[request'[q].room])
                        /\ \A r \in Room \ mixed' :
                              redis'[r] # NoRoom => FitsRace(race'[r], redis'[r])
        BY DEF CurrentInv
    <2> QED BY CurrentStep, RosterStep
<1>3. SeatsInv /\ HistoryInv /\ [Next]_vars => HistoryInv'
    BY HistoryStep
<1> QED BY <1>1, <1>2, <1>3, KnownHolds, PTL DEF Spec

(* A room that races has exactly the players of its race, however requests *)
(* overlap, die and restart: unless an outdated one had a part in it, or   *)
(* somebody joined between the snapshot of startRace and the status it     *)
(* sets (rooms.service.ts, game.gateway.ts).                               *)
THEOREM RaceHasItsPlayers == Spec => []RaceRoster
<1>1. CurrentInv => RaceRoster
    BY DEF CurrentInv, RaceRoster, FitsRace
<1> QED BY <1>1, CurrentHolds, PTL

LEMMA ForwardStep ==
    ASSUME SeatsInv, KnownInv, HistoryInv, CurrentInv, [Next]_vars, losses'.evictions = 0,
           NEW r \in Room, redis[r] # NoRoom
    PROVE  \/ Forward(redis[r], redis'[r])
           \/ \E q \in outdated : request[q].room = r /\ redis'[r] = request[q].snap
<1>1. /\ \A q \in Request : RequestKnown(request[q]) /\ RequestOK(request[q])
      /\ redis[r] \in Snapshot /\ DOMAIN redis = Room
    BY NoneEvicted DEF KnownInv, SeatsInv, RequestsOK, RoomsOK, Copy
<1>2. CASE redis'[r] = redis[r]
    BY <1>1, <1>2, ForwardSteps
<1>3. ASSUME NEW q \in Request, Restore(q) \/ Write(q) \/ RequestDies(q),
             redis'[r] # redis[r]
      PROVE  \/ Forward(redis[r], redis'[r])
             \/ q \in outdated /\ request[q].room = r /\ redis'[r] = request[q].snap
    <2>1. /\ request[q].pc \in {"write", "restore"}
          /\ redis' = [redis EXCEPT ![request[q].room] = request[q].snap]
        BY <1>3 DEF Restore, Write, RequestDies
    <2>2. request[q].pc = "write"
        BY <1>1, <2>1 DEF RequestKnown, RequestOK
    <2>3. request[q].room = r /\ redis'[r] = request[q].snap
        BY <1>1, <1>3, <2>1 DEF SeatsInv, RoomsOK
    <2>4. q \notin outdated => Current(request[q], redis[r])
        BY <2>3, NoneEvicted DEF CurrentInv
    <2> QED BY <1>1, <2>2, <2>3, <2>4 DEF Current
<1> QED BY <1>2, <1>3, NoneEvicted, StoreKinds

(* Nobody leaves a room, nobody joins one that races, nobody who is ready  *)
(* stops being so, and a room never goes back from RACING or FINISHED,     *)
(* however requests overlap and die: only a write over a room that was     *)
(* written meanwhile takes anything back (join, markPlayerReady,           *)
(* setRoomStatus).                                                         *)
THEOREM OnlyOutdatedWritesGoBack == Spec => LobbyMovesForward
<1>1. SeatsInv /\ KnownInv /\ HistoryInv /\ CurrentInv /\ [Next]_vars =>
         [losses'.evictions = 0 =>
             \A r \in Room :
                redis[r] # NoRoom =>
                   \/ Forward(redis[r], redis'[r])
                   \/ \E q \in outdated : /\ request[q].room = r
                                          /\ redis'[r] = request[q].snap]_vars
    BY ForwardStep
<1> QED BY <1>1, CurrentHolds, PTL DEF Spec, LobbyMovesForward
=============================================================================
