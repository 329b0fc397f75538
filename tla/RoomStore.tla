----------------------------- MODULE RoomStore ------------------------------
(***************************************************************************)
(* RoomsService and RoomSyncService (apps/api/src/rooms): who is in which  *)
(* room, who is ready, and whether the room waits, races or is finished.   *)
(*                                                                         *)
(* A room is a JSON snapshot in a Redis hash.  Every operation reads the   *)
(* snapshot, decides, and writes a whole new one; in between it may wait   *)
(* for Postgres.  Each write schedules a task that copies what Redis then  *)
(* holds to Postgres, with retries.  Postgres is read back when Redis does *)
(* not have the room, and to keep a user out of two active rooms.          *)
(*                                                                         *)
(* An action is the code between two awaits.  A room's code stands for the *)
(* room: codes are unique here.                                            *)
(***************************************************************************)
EXTENDS Integers, FiniteSets, FiniteSetsExt

CONSTANTS
    User, Room,
    Request,        \* slots for HTTP requests, socket events and timer callbacks
    Task,           \* slots for persist tasks that have started
    NoRoom,         \* no snapshot, or no row
    MaxPlayers,     \* maxPlayers of every room
    MaxAttempts,    \* attempts of a persist task (6 in the code)
    MaxOverlap,     \* requests that may be served at once
    MaxQueued,      \* bound: persist tasks of a room scheduled and not started
    MaxFaults,      \* bound: transactions that fail
    MaxDeaths,      \* bound: requests that die and crashes of the process
    MaxEvictions    \* bound: snapshots that Redis loses

ASSUME BoundAssumption ==
    /\ MaxPlayers \in Nat \ {0} /\ MaxAttempts \in Nat \ {0}
    /\ MaxOverlap \in Nat /\ MaxQueued \in Nat
    /\ MaxFaults \in Nat /\ MaxDeaths \in Nat /\ MaxEvictions \in Nat

Status == {"WAITING", "RACING", "FINISHED"}
ActiveStatuses == {"WAITING", "RACING"}
Member == [userId : User, position : Nat, isReady : BOOLEAN]
Snapshot == [status : Status, players : SUBSET Member]

ASSUME NoRoomAssumption == NoRoom \notin Snapshot

VARIABLES
    redis,      \* room -> snapshot in room:{id}
    pg,         \* room -> Room row with its RoomPlayer rows
    created,    \* rooms whose creator was given the id and the code
    race,       \* room -> playerOrder of game:{id} as a set; {} when there is no race
    countdown,  \* rooms with a start timer running
    request,    \* slot -> request being served
    queued,     \* room -> persist tasks scheduled and not started
    task,       \* slot -> persist task that has read its snapshot
    losses,     \* faults, deaths and evictions so far
    \* Histories, which the code does not have and no guard reads:
    outdated,   \* requests whose room was written after they had read it
    mixed,      \* rooms that such a request has written, or made a race of
    behind,     \* tasks whose room was read by another task after them
    overtaken   \* rooms whose last commit was that of such a task

history == <<outdated, mixed, behind, overtaken>>

vars == <<redis, pg, created, race, countdown, request, queued, task, losses,
          outdated, mixed, behind, overtaken>>

-----------------------------------------------------------------------------
(* Snapshots and what the operations make of them. *)

UserIds(snap) == {m.userId : m \in snap.players}

AllReady(snap) == snap.players # {} /\ \A m \in snap.players : m.isReady

NewRoom(u) ==
    [status |-> "WAITING",
     players |-> {[userId |-> u, position |-> 0, isReady |-> FALSE]}]

(* One more than the highest position taken. *)
NextPosition(snap) == Max({m.position : m \in snap.players} \cup {-1}) + 1

WithMember(snap, u) ==
    [snap EXCEPT !.players = @ \cup
        {[userId |-> u, position |-> NextPosition(snap), isReady |-> FALSE]}]

(* Variant: the others' readiness is lost. *)
WithReadyOnly(snap, u) ==
    [snap EXCEPT !.players = {[m EXCEPT !.isReady = (m.userId = u)] : m \in @}]

WithReady(snap, u) ==
    [snap EXCEPT !.players =
        {IF m.userId = u THEN [m EXCEPT !.isReady = TRUE] ELSE m : m \in @}]

(* assertUserNotInActiveRoom: the rooms are those Postgres knows of. *)
InAnotherActiveRoom(u, exceptRoom) ==
    \E r \in Room \ {exceptRoom} :
        pg[r] # NoRoom /\ pg[r].status \in ActiveStatuses /\ u \in UserIds(pg[r])

-----------------------------------------------------------------------------
(* Requests.  pc: "load" - about to read the snapshot; "miss" - Redis had  *)
(* none; "restore" - Postgres had one; "assert" - about to ask Postgres    *)
(* for other active rooms; "write" - snap holds the snapshot to be         *)
(* written; "start" - about to store a new race.                           *)
Idle == [pc |-> "idle", op |-> "none", user |-> "none", room |-> "none",
         snap |-> NoRoom]

Busy == {q \in Request : request[q].pc # "idle"}

Begin(q, pc, op, u, r) ==
    /\ request[q].pc = "idle"
    /\ Cardinality(Busy) < MaxOverlap
    /\ request' = [request EXCEPT ![q] =
          [pc |-> pc, op |-> op, user |-> u, room |-> r, snap |-> NoRoom]]

Resting == [pc |-> "idle", room |-> "none", snap |-> NoRoom, attempt |-> 0]

Init ==
    /\ redis = [r \in Room |-> NoRoom]
    /\ pg = [r \in Room |-> NoRoom]
    /\ created = {}
    /\ race = [r \in Room |-> {}]
    /\ countdown = {}
    /\ request = [q \in Request |-> Idle]
    /\ queued = [r \in Room |-> 0]
    /\ task = [t \in Task |-> Resting]
    /\ losses = [faults |-> 0, deaths |-> 0, evictions |-> 0]
    /\ outdated = {} /\ mixed = {} /\ behind = {} /\ overtaken = {}

-----------------------------------------------------------------------------
(* What begins a request.  A ready event comes from a socket that joined   *)
(* the room; the countdown expires in the process that started it; a race  *)
(* ends with its last move, which deletes it and then sets the status.     *)
CreateRequest(q, u) ==
    /\ Begin(q, "assert", "create", u, "none")
    /\ UNCHANGED <<redis, pg, created, race, countdown, queued, task, losses, history>>

RoomRequest(q, op, u, r) ==
    /\ r \in created
    /\ Begin(q, "load", op, u, r)
    /\ UNCHANGED <<redis, pg, created, race, countdown, queued, task, losses, history>>

CountdownExpires(q, r) ==
    /\ r \in countdown
    /\ Begin(q, "load", "start", "none", r)
    /\ countdown' = countdown \ {r}
    /\ UNCHANGED <<redis, pg, created, race, queued, task, losses, history>>

EndRace(q, r) ==
    /\ race[r] # {}
    /\ Begin(q, "load", "setFinished", "none", r)
    /\ race' = [race EXCEPT ![r] = {}]
    /\ UNCHANGED <<redis, pg, created, countdown, queued, task, losses, history>>

-----------------------------------------------------------------------------
(* What a request makes of the snapshot it has loaded: a refusal, the next *)
(* thing to ask, or the snapshot to write.                                 *)

(* Variant: off by one at a full room. *)
MayJoinFull(c, snap) ==
    /\ c.user \notin UserIds(snap)
    /\ snap.status = "WAITING"
    /\ Cardinality(snap.players) <= MaxPlayers

(* Variant: the status is not looked at. *)
MayJoinAnytime(c, snap) ==
    /\ c.user \notin UserIds(snap)
    /\ Cardinality(snap.players) < MaxPlayers

MayJoin(c, snap) ==
    /\ c.user \notin UserIds(snap)
    /\ snap.status = "WAITING"
    /\ Cardinality(snap.players) < MaxPlayers

MayBeReady(c, snap) == snap.status = "WAITING" /\ c.user \in UserIds(snap)

MayStart(snap) == snap.status = "WAITING" /\ AllReady(snap)

Decided(c, snap) ==
    LET goto(pc, next) == [c EXCEPT !.pc = pc, !.snap = next] IN
    CASE c.op = "join" /\ MayJoin(c, snap) -> goto("assert", snap)
      [] c.op = "ready" /\ MayBeReady(c, snap) -> goto("write", WithReady(snap, c.user))
      [] c.op = "start" /\ MayStart(snap) -> goto("start", snap)
      [] c.op = "setRacing" -> goto("write", [snap EXCEPT !.status = "RACING"])
      [] c.op = "setFinished" -> goto("write", [snap EXCEPT !.status = "FINISHED"])
      [] OTHER -> Idle

(* History of a write by q: whoever stands on an older snapshot of the     *)
(* room is outdated.  startRace stands on the one it made its race from,   *)
(* although it reads the room again to set the status.                     *)
StandingOn(r) ==
    {p \in Busy : /\ request[p].room = r
                  /\ request[p].snap # NoRoom \/ request[p].op = "setRacing"}

MixedIfOutdated(q) ==
    mixed' = IF q \in outdated THEN mixed \cup {request[q].room} ELSE mixed

Overwrites(q) ==
    /\ outdated' = (outdated \cup StandingOn(request[q].room)) \ {q}
    /\ MixedIfOutdated(q)

(* loadSnapshot: Redis first, else the row in Postgres, written back.      *)
Load(q) ==
    LET c == request[q]
        snap == redis[c.room] IN
    /\ c.pc = "load"
    /\ request' = [request EXCEPT ![q] =
          IF snap # NoRoom THEN Decided(c, snap) ELSE [c EXCEPT !.pc = "miss"]]
    /\ outdated' = IF c.op = "setRacing" THEN outdated ELSE outdated \ {q}
    /\ UNCHANGED <<redis, pg, created, race, countdown, queued, task, losses,
                   mixed, behind, overtaken>>

LoadRow(q) ==
    LET c == request[q]
        row == pg[c.room] IN
    /\ c.pc = "miss"
    /\ request' = [request EXCEPT ![q] =
          IF row # NoRoom THEN [c EXCEPT !.pc = "restore", !.snap = row] ELSE Idle]
    /\ outdated' = outdated \ {q}
    /\ UNCHANGED <<redis, pg, created, race, countdown, queued, task, losses,
                   mixed, behind, overtaken>>

Restore(q) ==
    LET c == request[q] IN
    /\ c.pc = "restore"
    /\ redis' = [redis EXCEPT ![c.room] = c.snap]
    /\ request' = [request EXCEPT ![q] = Decided(c, c.snap)]
    /\ Overwrites(q)
    /\ UNCHANGED <<pg, created, race, countdown, queued, task, losses, behind, overtaken>>

-----------------------------------------------------------------------------
(* join, after the other active rooms were looked up in Postgres; the      *)
(* snapshot is still the one that was loaded before.                       *)
AssertJoin(q) ==
    LET c == request[q] IN
    /\ c.pc = "assert" /\ c.op = "join"
    /\ request' = [request EXCEPT ![q] =
          IF InAnotherActiveRoom(c.user, c.room) THEN Idle
          ELSE [c EXCEPT !.pc = "write", !.snap = WithMember(c.snap, c.user)]]
    /\ outdated' = IF InAnotherActiveRoom(c.user, c.room) THEN outdated \ {q} ELSE outdated
    /\ UNCHANGED <<redis, pg, created, race, countdown, queued, task, losses,
                   mixed, behind, overtaken>>

(* A new room gets an id and a code that no room has. *)
Unused == {r \in Room : redis[r] = NoRoom /\ pg[r] = NoRoom}
          \ (created \cup {request[q].room : q \in Request})

AssertCreate(q) ==
    LET c == request[q] IN
    /\ c.pc = "assert" /\ c.op = "create"
    /\ IF InAnotherActiveRoom(c.user, "none")
       THEN request' = [request EXCEPT ![q] = Idle]
       ELSE \E r \in Unused :
               request' = [request EXCEPT ![q] =
                     [c EXCEPT !.pc = "write", !.room = r, !.snap = NewRoom(c.user)]]
    /\ outdated' = outdated \ {q}
    /\ UNCHANGED <<redis, pg, created, race, countdown, queued, task, losses,
                   mixed, behind, overtaken>>

(* startRace stores the race, then sets the status from a fresh snapshot. *)
StoreRace(q) ==
    LET c == request[q] IN
    /\ c.pc = "start"
    /\ race' = [race EXCEPT ![c.room] = UserIds(c.snap)]
    /\ request' = [request EXCEPT ![q] =
          [c EXCEPT !.pc = "load", !.op = "setRacing", !.snap = NoRoom]]
    /\ MixedIfOutdated(q)
    /\ UNCHANGED <<redis, pg, created, countdown, queued, task, losses,
                   outdated, behind, overtaken>>

(* Variant: nothing is scheduled. *)
WriteUnscheduled(q) ==
    LET c == request[q] IN
    /\ c.pc = "write"
    /\ redis' = [redis EXCEPT ![c.room] = c.snap]
    /\ created' = created \cup {c.room}
    /\ request' = [request EXCEPT ![q] = Idle]
    /\ Overwrites(q)
    /\ UNCHANGED <<pg, race, countdown, queued, task, losses, behind, overtaken>>

(* writeSnapshot, schedulePersist and the answer.  The ready event that    *)
(* finds everyone ready in its own snapshot starts the countdown.          *)
Write(q) ==
    LET c == request[q] IN
    /\ c.pc = "write"
    /\ queued[c.room] < MaxQueued
    /\ redis' = [redis EXCEPT ![c.room] = c.snap]
    /\ queued' = [queued EXCEPT ![c.room] = @ + 1]
    /\ countdown' = IF c.op = "ready" /\ AllReady(c.snap)
                    THEN countdown \cup {c.room} ELSE countdown
    /\ created' = IF c.op = "create" THEN created \cup {c.room} ELSE created
    /\ request' = [request EXCEPT ![q] = Idle]
    /\ Overwrites(q)
    /\ UNCHANGED <<pg, race, task, losses, behind, overtaken>>

-----------------------------------------------------------------------------
(* RoomSyncService: a task copies the snapshot it reads; a transaction     *)
(* replaces the row and its players; a failed one is tried again from a    *)
(* fresh read, MaxAttempts times in all.                                   *)
Newest(t, r) ==      \* history: t is the last to read the room
    behind' = (behind \cup {u \in Task : task[u].pc = "apply" /\ task[u].room = r}) \ {t}

PersistRead(t, r) ==
    /\ task[t].pc = "idle"
    /\ queued[r] > 0
    /\ queued' = [queued EXCEPT ![r] = @ - 1]
    /\ IF redis[r] = NoRoom THEN UNCHANGED <<task, behind>>
       ELSE /\ task' = [task EXCEPT ![t] = [pc |-> "apply", room |-> r,
                                            snap |-> redis[r], attempt |-> 0]]
            /\ Newest(t, r)
    /\ UNCHANGED <<redis, pg, created, race, countdown, request, losses,
                   outdated, mixed, overtaken>>

Rest(t) ==
    /\ task' = [task EXCEPT ![t] = Resting]
    /\ behind' = behind \ {t}

PersistCommit(t) ==
    /\ task[t].pc = "apply"
    /\ pg' = [pg EXCEPT ![task[t].room] = task[t].snap]
    /\ Rest(t)
    /\ overtaken' = IF t \in behind THEN overtaken \cup {task[t].room}
                    ELSE overtaken \ {task[t].room}
    /\ UNCHANGED <<redis, created, race, countdown, request, queued, losses,
                   outdated, mixed>>

BackingOff(w) == [w EXCEPT !.pc = "backoff", !.attempt = @ + 1, !.snap = NoRoom]

BackOff(t) ==
    /\ task' = [task EXCEPT ![t] = BackingOff(task[t])]
    /\ behind' = behind \ {t}

(* Variant: one attempt too many. *)
PersistFailsOneMore(t) ==
    /\ task[t].pc = "apply"
    /\ losses.faults < MaxFaults
    /\ losses' = [losses EXCEPT !.faults = @ + 1]
    /\ IF task[t].attempt + 1 > MaxAttempts THEN Rest(t) ELSE BackOff(t)
    /\ UNCHANGED <<redis, pg, created, race, countdown, request, queued,
                   outdated, mixed, overtaken>>

(* Variant: no retry. *)
PersistGivesUp(t) ==
    /\ task[t].pc = "apply"
    /\ losses.faults < MaxFaults
    /\ losses' = [losses EXCEPT !.faults = @ + 1]
    /\ Rest(t)
    /\ UNCHANGED <<redis, pg, created, race, countdown, request, queued,
                   outdated, mixed, overtaken>>

PersistFails(t) ==
    /\ task[t].pc = "apply"
    /\ losses.faults < MaxFaults
    /\ losses' = [losses EXCEPT !.faults = @ + 1]
    /\ IF task[t].attempt + 1 >= MaxAttempts THEN Rest(t) ELSE BackOff(t)
    /\ UNCHANGED <<redis, pg, created, race, countdown, request, queued,
                   outdated, mixed, overtaken>>

PersistRetry(t) ==
    LET r == task[t].room IN
    /\ task[t].pc = "backoff"
    /\ IF redis[r] = NoRoom THEN Rest(t)
       ELSE /\ task' = [task EXCEPT ![t] = [@ EXCEPT !.pc = "apply", !.snap = redis[r]]]
            /\ Newest(t, r)
    /\ UNCHANGED <<redis, pg, created, race, countdown, request, queued, losses,
                   outdated, mixed, overtaken>>

-----------------------------------------------------------------------------
(* A request fails at an await: before its write, or between the two       *)
(* commands of writeSnapshot, and then nothing is scheduled.               *)
RequestDies(q) ==
    /\ request[q].pc # "idle"
    /\ losses.deaths < MaxDeaths
    /\ losses' = [losses EXCEPT !.deaths = @ + 1]
    /\ \/ /\ outdated' = outdated \ {q}
          /\ UNCHANGED <<redis, mixed>>
       \/ /\ request[q].pc \in {"write", "restore"}
          /\ redis' = [redis EXCEPT ![request[q].room] = request[q].snap]
          /\ Overwrites(q)
    /\ request' = [request EXCEPT ![q] = Idle]
    /\ UNCHANGED <<pg, created, race, countdown, queued, task, behind, overtaken>>

(* The process ends and comes back: what it had in memory is gone. *)
Crash ==
    /\ losses.deaths < MaxDeaths
    /\ losses' = [losses EXCEPT !.deaths = @ + 1]
    /\ request' = [q \in Request |-> Idle]
    /\ queued' = [r \in Room |-> 0]
    /\ task' = [t \in Task |-> Resting]
    /\ countdown' = {}
    /\ outdated' = {} /\ behind' = {}
    /\ UNCHANGED <<redis, pg, created, race, mixed, overtaken>>

(* Redis loses a room: it was restarted, or it evicted the key. *)
Evict(r) ==
    /\ redis[r] # NoRoom
    /\ losses.evictions < MaxEvictions
    /\ losses' = [losses EXCEPT !.evictions = @ + 1]
    /\ redis' = [redis EXCEPT ![r] = NoRoom]
    /\ UNCHANGED <<pg, created, race, countdown, request, queued, task, history>>

Next ==
    \/ \E q \in Request :
        \/ \E u \in User : \/ CreateRequest(q, u)
                           \/ \E r \in Room, op \in {"join", "ready"} :
                                 RoomRequest(q, op, u, r)
        \/ \E r \in Room : \/ RoomRequest(q, "view", "none", r)
                           \/ CountdownExpires(q, r) \/ EndRace(q, r)
        \/ Load(q) \/ LoadRow(q) \/ Restore(q)
        \/ AssertJoin(q) \/ AssertCreate(q) \/ StoreRace(q) \/ Write(q)
        \/ RequestDies(q)
    \/ \E t \in Task : \/ \E r \in Room : PersistRead(t, r)
                       \/ PersistCommit(t) \/ PersistFails(t) \/ PersistRetry(t)
    \/ \E r \in Room : Evict(r)
    \/ Crash

Spec == Init /\ [][Next]_vars

-----------------------------------------------------------------------------
Op == {"none", "create", "join", "ready", "view", "start", "setRacing", "setFinished"}
RequestRecord ==
    [pc : {"idle", "load", "miss", "restore", "assert", "write", "start"}, op : Op,
     user : User \cup {"none"}, room : Room \cup {"none"},
     snap : Snapshot \cup {NoRoom}]
TaskRecord ==
    [pc : {"idle", "apply", "backoff"}, room : Room \cup {"none"},
     snap : Snapshot \cup {NoRoom}, attempt : 0..(MaxAttempts - 1)]

(* Every variable holds what the code can put there. *)
TypeOK ==
    /\ redis \in [Room -> Snapshot \cup {NoRoom}]
    /\ pg \in [Room -> Snapshot \cup {NoRoom}]
    /\ created \subseteq Room
    /\ race \in [Room -> SUBSET User]
    /\ countdown \subseteq Room
    /\ request \in [Request -> RequestRecord]
    /\ queued \in [Room -> 0..MaxQueued]
    /\ task \in [Task -> TaskRecord]
    /\ losses \in [faults : 0..MaxFaults, deaths : 0..MaxDeaths,
                   evictions : 0..MaxEvictions]
    /\ outdated \subseteq Busy /\ mixed \subseteq Room
    /\ behind \subseteq {t \in Task : task[t].pc = "apply"} /\ overtaken \subseteq Room

(* Every snapshot there is: in Redis, in Postgres, in a handler, in a task. *)
Copies == {redis[r] : r \in Room} \cup {pg[r] : r \in Room}
          \cup {request[q].snap : q \in Request} \cup {task[t].snap : t \in Task}

(* The members of a snapshot are different users on the start positions    *)
(* 0, 1, ... without a gap, and no more than the room takes.               *)
Seated(snap) ==
    /\ \A m, n \in snap.players :
          m.userId = n.userId \/ m.position = n.position => m = n
    /\ \E k \in 1..MaxPlayers : {m.position : m \in snap.players} = 0..(k - 1)

(* Joins are checked on a copy and written over whatever is there by then, *)
(* a restored room may be an old one: still no copy of a room has a user   *)
(* or a start position twice, or one player too many (join, markReady).    *)
SeatsUnique == \A snap \in Copies : snap # NoRoom => Seated(snap)

-----------------------------------------------------------------------------
(* What holds as long as Redis keeps its rooms.  Nothing serialises the    *)
(* requests or the tasks of a room, so each property says which step over  *)
(* an older snapshot it has to leave out.                                  *)

Rank(st) == CASE st = "WAITING" -> 0 [] st = "RACING" -> 1 [] st = "FINISHED" -> 2

ReadyIds(snap) == {m.userId : m \in {n \in snap.players : n.isReady}}

Forward(old, new) ==
    /\ UserIds(old) \subseteq UserIds(new)
    /\ old.status # "WAITING" => UserIds(new) \subseteq UserIds(old)
    /\ ReadyIds(old) \subseteq ReadyIds(new)
    /\ Rank(old.status) <= Rank(new.status)

(* Nobody leaves a room, nobody joins one that races or is finished,       *)
(* nobody who is ready stops being so, and the status goes from WAITING to *)
(* RACING to FINISHED, however requests overlap: only one that writes over *)
(* a room which was written after it had read it takes anything back       *)
(* (join, markPlayerReady, setRoomStatus).                                 *)
LobbyMovesForward ==
    [][losses'.evictions = 0 =>
          \A r \in Room :
             redis[r] # NoRoom =>
                \/ Forward(redis[r], redis'[r])
                \/ \E q \in outdated : /\ request[q].room = r
                                       /\ redis'[r] = request[q].snap]_vars

(* A room that races has exactly the players of its race, however requests *)
(* overlap: unless a request that read the room too early wrote it or made *)
(* the race, or somebody joined between the snapshot startRace took and    *)
(* the one it gave the status RACING (the room is then in mixed).          *)
RaceRoster ==
    losses.evictions = 0 =>
        \A r \in Room \ mixed :
            redis[r] # NoRoom /\ race[r] # {} =>
                (redis[r].status = "RACING" => race[r] = UserIds(redis[r]))

(* Who said they are ready stays ready while the room waits: player_ready  *)
(* "marks player ready" (vector-racers-tasks.md, TASK-010).                *)
ReadyIsKept ==
    [][\A r \in Room :
          redis[r] # NoRoom => ReadyIds(redis[r]) \subseteq ReadyIds(redis'[r])]_vars

Undisturbed ==
    losses.deaths = 0 /\ losses.evictions = 0 /\ losses.faults < MaxAttempts

Quiet(r) ==
    /\ queued[r] = 0
    /\ \A t \in Task : task[t].room # r

(* Once no task is scheduled or under way for a room, Postgres has what    *)
(* Redis has, as long as fewer transactions failed than a task has         *)
(* attempts ("writes Postgres with exponential backoff on failure",        *)
(* room-sync.service.ts), and whatever happens to the order of its tasks   *)
(* but one thing: the last to commit is not the last that read the room.   *)
SyncedWhenQuiet ==
    Undisturbed => \A r \in Room \ overtaken : Quiet(r) => pg[r] = redis[r]

(* A setImmediate callback runs, a promise settles, a backoff timer fires. *)
(* The slots are the model's: a task that waits for one gets it.           *)
PersistFairness ==
    \A t \in Task : /\ \A r \in Room : SF_vars(PersistRead(t, r))
                    /\ WF_vars(PersistCommit(t) \/ PersistFails(t))
                    /\ WF_vars(PersistRetry(t))

FairSpec == Spec /\ PersistFairness

(* A room that was created comes into the public list, which is read from  *)
(* Postgres (create, listPublic), unless the process died first.           *)
RoomGetsListed ==
    \A r \in Room : redis[r] # NoRoom ~> (pg[r] # NoRoom \/ ~Undisturbed)
=============================================================================
