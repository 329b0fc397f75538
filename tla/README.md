# Verification of VECTOR RACERS

TLA+ models of the server and the web client of VECTOR RACERS, checked with TLC on small
instances and proved with TLAPS for every value of their constants. Paths are
relative to the repository; `api` is `apps/api/src`, `web` is `apps/web/src`.

## 1. The system

Players meet in a room, say they are ready, and after a countdown race in
turns: each move is a thrust vector, the server computes where the car goes and
tells everybody. Room and race live in Redis as JSON values, a copy of the room
and the log of the race (the replay) in Postgres.

| Component | State it keeps | Operations |
|---|---|---|
| `RoomsService` (api/rooms) | Redis `room:{id}`, `room:code:{code}` | create, join, findOne, listPublic, markPlayerReady, setRoomStatus |
| `RoomSyncService` | persist tasks in memory; `Room`, `RoomPlayer` rows | schedulePersist, persistWithRetry |
| `GameService` (api/game) | Redis `game:{id}`, `Replay` rows | finalizeScheduledRaceStart, startRace, applySubmitMove, tryResyncAfterJoin |
| `GameGateway` | start timers and turn deadlines, per process; sockets | join_room, player_ready, submit_move, disconnection, the two timers |
| `RedisIoAdapter` | socket rooms across processes | emit to a room |
| Physics (packages/shared) | none | applyMove, trackProgress |
| `AuthService`, `AuthTokensService` (api/auth) | `User` rows; refresh tokens in Redis or, after a failure outside production, in memory | register, login, refresh, logout |
| `CatalogService` | none (cars and tracks never change) | reads |
| Proxy routes and layouts (web/app) | the cookies of the session | login and register, forwarding, redirects |
| Login and register pages | a request under way, errors shown | submit |
| Lobby page | catalog, chosen car (and the stored one), public list, dialog, busy, error | loadCatalog, polls, create, join |
| Room page | what was fetched of the room; who is ready, who is offline, which panel | fetch, player_ready, the way to the lobby |
| Game client (web/lib/game-client.ts) | shown race, acknowledged moveSeq, state before an optimistic move, lobby list, shared socket | its socket's events, submitMove, sendPlayerReady |
| Track renderer | a drag and its arrow | the pointer handlers, painting |
| Schema, seed, designs | | declarations |

How they interact: HTTP requests reach `RoomsService`, socket events reach
`GameGateway`, which calls `GameService`, which calls `RoomsService` for the status of
the room. The browser reaches the API through the proxy routes, which turn the
session's cookie into a bearer token; only the socket goes to the API directly, with a
token it asks the web server for. Nothing locks: an operation reads a JSON value,
waits for other queries, and writes a whole new value. Handlers of a process
interleave at every `await`; with the Redis adapter several processes serve one room.

What is hard here:

* read, await, write on the race, the replay and the room;
* handlers that die half way, processes that restart, and timers that die with them;
* a Postgres copy that lags, is written out of order, and is read back;
* messages that come twice, late, or after the race is over;
* two processes with a timer each for one race;
* requests of a page that answer after it was left, fail, or never answer;
* a session that ends, or that another tab changes, while a page is on show;
* a store that is left for another one in the middle of things (refresh tokens);
* a lap rule on one pair of positions, for cars that may go any way.

`PROJECT.json` lists these at their lines, with the properties that watch them.

What makes each component correct:

* room: seats are unique and few enough, nobody and nothing that was agreed is
  lost, the status only moves forward, a race has exactly the room's players,
  Postgres ends up with what Redis has, a user is in one active room;
* race: turns go round, every move counts once and is logged, the race ends with
  the last lap of the last player and leaves nothing behind;
* gateway: a race always has somebody who will move it on;
* game client: what is shown is, in the end, what the server has;
* physics: a lap is counted when, and only when, it was driven; no arrow makes a
  move longer than one unit;
* auth: one account for an address and for a name; a refresh token that was
  answered works, one that was logged out does not, and every request is answered;
* pages: no page stays blocked or loading, the panel on show is that of the
  room, lists catch up, nobody is called offline who is there.

## 2. The modules

| Module | Models | Extends |
|---|---|---|
| `TurnRace` | what a race promises, without a server | |
| `RaceGame` | `GameService`: countdown, moves, replay, status of one room | |
| `RoomStore` | `RoomsService` and `RoomSyncService`: rooms in Redis and Postgres | |
| `Gateway` | `GameGateway`: what starts a race and keeps it going | |
| `GameClient` | `useGameSocket`: what a page shows of a race | |
| `Physics` | `physics.ts`: progress along the track, and one move | |
| `Drive` | a player's car, from the finger on the canvas to the lap counter | `Physics` |
| `Auth` | accounts and refresh tokens | |
| `Session` | cookies, proxy routes, layouts, the two forms | |
| `Lobby` | the lobby page | `Session` |
| `RoomPage` | the room page with the lobby messages of the game client | `Session` |
| `WebTab` | one browser tab: the pages and the navigation between them | `Lobby`, `RoomPage` |
| `MCRaceGame`, `MCRoomStore`, `MCGateway`, `MCGameClient`, `MCDrive`, `MCAuth`, `MCWebTab` | instances for TLC | the above |
| `RaceGameProofs`, `RaceSerialProofs`, `RoomStoreProofs`, `GatewayProofs`, `GameClientProofs`, `DriveProofs`, `AuthProofs`, `WebTabProofs` | theorems | the module they are about, `TLAPS`; `RaceSerialProofs` extends `RaceGameProofs` |

The unit of execution is the code from one `await` to the next: such a stretch
runs uninterrupted in its process, and anything may happen between two of them.
Every action is one stretch; a handler is a record with a `pc`. Writes of a
stretch that goes to Redis or Postgres happen where the command is sent.

**`RaceGame`.** `game` is the value of `game:{roomId}` (`turnIndex`, `moveSeq`,
lap count and number of moves of each car), `replays` the `Replay` rows,
`status` the room's. A *starter* is one expiry of the start countdown
(`CheckLobby`, `CreateReplay`, `StoreNewGame`, `MarkRacing`:
`finalizeScheduledRaceStart` and `startRace`). A *call* is one `submit_move` or
one expired deadline: `SendMove` or `DeadlineLoad` make it, `ReadGame` or
`RejectMove` are the checks of `applySubmitMove`, `ReadReplay` and
`WriteReplay` its `appendReplayMove`, `StoreGame` or `DeleteGame` and
`MarkFinished` its end. `CallDies` and `StarterDies` end a handler at any
await. The physics of a move is reduced to whether it finishes a lap. The
number of moves of a car is not in the code: it is a history the turn rule is
stated with. So are `late` and `revived`: when a call or a start has set or
deleted the race (`Overtakes`), every other one that stands on the race it had read
is late, and a race that a late one stores is revived until it is deleted.

**`TurnRace`** is the promise: a race is started, players move one after the
other, a move finishes at most one lap, and the last lap of the last player
ends the race. `RaceGame` implements it while calls do not overlap
(`ImplementsTurnRace`), with `racing <- game # NoGame` as the mapping.

**`RoomStore`.** `redis` and `pg` map a room to a snapshot (status and members
with position and readiness), `race` to the players of its race. A *request* is
a POST, a GET, a `player_ready`, an expired countdown or the end of a race; it
goes through `Load` (and on a miss `LoadRow`, `Restore`), the assertion against
Postgres where the code makes one, and `Write`, which schedules a persist task.
What an operation decides is one operator each (`MayJoin`, `MayBeReady`,
`MayStart`, `WithMember`, `WithReady`, ...). A *task* reads the snapshot
(`PersistRead`), commits it or fails (`PersistCommit`, `PersistFails`), waits
and reads again (`PersistRetry`), and gives up after `MaxAttempts`. Four histories
say who came too late: `outdated` has the requests whose room was written after
they had read it, `mixed` the rooms such a request has written (or made a race
of), `behind` the tasks whose room another task has read since, `overtaken` the
rooms whose last commit was that of such a task. No guard reads them.

**`Gateway`.** Per process a set of rooms with a countdown and a deadline
timer; there is one room, so `startTimers` and `deadline` are sets of
processes. Of the race only `moveSeq` is kept, so
who may move is `RaceGame`'s matter; `EnterRoom`, `MarkReady`, `MarkRacing` and
`MarkFinished` are one step each, because their awaits are `RoomStore`'s.
`StartCountdown` and `CountdownExpires` are `onPlayerReady` and its timer,
`CheckLobby`, `CreateRace`, `MarkRacing` the start, `DeadlineExpires` and
`DeadlineLoad` are `applyTurnDeadline`, `ReadRace`, `WriteRace`,
`MarkFinished` are `applySubmitMove`, `ScheduleTurnDeadline` and `ClearTimers`
what the callers do with the answer, `JoinRoom`, `ResyncLoad`, `Resync` are
`onJoinRoom`.

**`GameClient`.** One page, the tab's shared socket and a server that takes
moves one at a time. A game state is the sequence of the moves that led to it
(`"mine"`, `"zero"` for a move the deadline made, `"other"`), so that two states
that differ in a move differ, and `moveSeq` is its length. `up` and `down` are
the connection, in order; a `Drop` loses both. `shown`, `ack`, `pre`, `results`
are the hook's state and refs; `OnGameStart`, `OnStateUpdate`, `OnGameEnd`,
`OnRejected` and `OnError` its listeners (the last two are `onError`, for codes
that take a move back and for others), `SubmitMove` and `EmitMove` are
`submitMove` before and after its token request. `Replace` is what
`getGameSocket` does when the token is another one. `drawn` is `gameStateRef`,
which has what a click has set at once and what a listener has set only after a
`Render`: a click takes it for the state it moves from and goes back to. `blind`
is a history: a click came between a listener and its render, and nothing new
has been shown since. On the server side a move is stored (`Store`) and emitted
(`Emit`) in two steps, and a join reads the race (`ResyncLoad`) and sends it
(`ResyncSend`) in two, so that the one may overtake the other.

**`Physics`.** `applyMove` and `trackProgress` as operators on integers: `Grain`
of them are a world unit, the track is a polygon of horizontal and vertical
segments, a thrust points along an axis, and shares are percentages, so that
lengths, projections and comparisons are exact. The stats of the car enter as
`MaxThrust`, `MaxInertia`, `Mass` and `Acceleration`.

**`Drive`.** The pointer handlers of `TrackRenderer` (`OnPointerDown`,
`OnPointerMove`, `OnPointerUp`, `OnPointerCancel`) share `drag` and `preview`;
a release sends a move, `MoveCar`, which the server clamps (`ClampMoveInput`)
and applies. `Deadline` is the move (0,0) of an expired turn, `OthersMove` the
turns of everybody else. `Landing` is where `paint` draws the dot. `forward`,
`rounds`, `farthest` and `smooth` are histories of the progress: a move is taken
to have gone the shorter way round.

**`Auth`.** A request is a record with a place: before the insert of its account
(`create`), at Redis with a command `sent`, `run` or `cut`, or answered with a
status code. `Register`, `Create` and `CreateFails` are `register` on the two
sides of the hash; `Login`, `Refresh`, `Logout` and `Refused` the other
requests, `Access` a call of the store, `InMemory` and `Runs`/`OnData` its two
implementations, `Fails` the fallback (or 503 in production). `Closes` breaks a
connection under a command, which nothing listens for.

**`Session`, `Lobby`, `RoomPage`, `WebTab`.** One tab. `cookie` is the access
token, `page` the page on show, `leaving` where a handler has sent the router.
Requests under way are sets of records (`posts`, `loads`, `asks`, `polls`,
`fetched`) with the cookie they were sent with; `own` says that the page they
belong to is still there, because an answer to a page that was left does not
change its state any more but still navigates and stores. `Forwarded` says how a
request can end that a proxy route passes on. In `Lobby`, `LoadAnswered` is the
rest of `loadCatalog`, `Ask` and `AskAnswered` the two halves of the three
handlers that enter a room, `Poll`, `PollRead`, `PollAnswered` one request for
the public list. `RoomPage` has the room as far as a page sees it (`game`, `open`,
`ready` and `timer`: the race, the snapshot and the countdown; the other member's
socket), the handlers of the gateway that emit to it (`ReadyRead` and
`ReadyWritten`, `Announce`, `CountdownExpires`, `UpdateSent`, `JoinAnnounces`,
`JoinResyncs`, ...), the connection (`up`, `down`), and the listeners of
`useGameSocket`. Of a race it keeps whether there is a state and one to go back to
(`race`, `pre`), since `GameClient` has the states themselves; so it has the late
`state_update` and the rollback that put a finished race beside its results. `Drop`
loses the messages of a connection and leaves its handlers running
(`JoinGoesOn`): their `player_joined` reaches the page's next socket. In
`WebTab`, `Arrive` and `FollowLink` replace the page (`Mounts`), and `Surprise`
changes the cookie.

A definition that a comment calls *Variant* is no part of the specification: it
is a plausible mistake in the operator below it, kept to see that a property
notices it (`PROJECT.json`, "mutants").

## 3. What the runs show

| Run | Question | Answer |
|---|---|---|
| `race_overlap` | what of a race survives overlapping calls, two countdowns and a dying handler? | every copy of the race, also a lost or a revived one, obeys the turn rule (`TurnLockstep`), replay entries name the right player (`ReplayTurnOrder`), and only late calls and starts take moves back (`MovesAreKept`) or leave a race in a finished room (`FinishedRoomHasNoRace`) |
| `race_serial` | is the race right while calls do not overlap? | it implements `TurnRace`; the replay has every move (and at most one that was not made) |
| `room_overlap` | what of a room survives overlapping requests? | no copy has a user or a position twice, a gap, or one player too many (`SeatsUnique`); members and readiness only grow and the status moves forward (`LobbyMovesForward`), a race has exactly the room's players (`RaceRoster`), but for the writes of outdated requests |
| `room_sync` | does Postgres catch up, with two persist tasks at a time? | yes, unless the last commit was overtaken (`SyncedWhenQuiet`); the room comes into the list (`RoomGetsListed`) |
| `room_lost_update` | does a readiness survive overlapping requests? | no |
| `gateway` | does a ready room start, only once, and does no turn last for ever? | yes, within the limits of section 5: one race, stored once (`StartsOnce`), which starts (`RaceStarts`) and moves on (`RaceMovesOn`) |
| `client` | does a page show the race, whatever is lost, refused or late? | yes: the race as it stood, or that with one own move on top (`ShowsTheRace`), never less than the server has told it, a click before a render apart (`NothingTakenBack`), and it catches up (`SeesEveryTurn`) |
| `client_new_token` | does a page survive a new token of its session? | no |
| `drive` | what may an arrow do, and which moves count as a lap? | a move changes the speed by at most one unit, less off the track, and never by more than the dot showed (`ThrustIsLimited`); laps are the crossings of the line (`EveryCrossingCounts`) |
| `drive_free_lap` | is a lap a way round? | no |
| `auth` | do accounts and tokens stay right when requests overlap and Redis fails? | one account each; in production tokens are kept until they expire or are logged out; a logout is final; a request is answered unless its connection is cut |
| `web` | do the pages show what is, whatever is late, lost or refused? | yes, within the limits of section 5 |

The three runs that find a violation, in one sentence each:

* `ReadyIsKept` (`vector-racers-tasks.md:224`, "marks player ready"): a player
  becomes ready while another joins; the join, which had read the room before,
  writes it back (`rooms.service.ts:185`), and the player is unready again.
* `StaysInSync` (`game-client.ts:198`, "keeps state in sync"): a click after the
  session got a new token replaces the socket by one without listeners that has
  joined no room; the page never hears of the race again.
* `LapsAreRounds` (`vector-racers-tasks.md:195`, "Lap counter increments
  correctly after full lap"): a car that starts beside the line has progress 0
  from the server, near 1 after a first move that moves nothing, and a lap for
  its first drive over the line; `mid` does not prevent it, since every move
  computes it anew (`vector-racers-tasks.md:189-190` has a flag that stays set).

The models reach other states that the documents rule out; no run is spent on them:

* `moveSeq` is to be "monotonic per room" (`types.ts:42`): with two calls for one
  move the slower one writes its copy over moves made since (`RaceGame`,
  `MaxOverlap = 2`).
* Postgres is to be synchronised with retries (`vector-racers-tasks.md:215`): of
  two persist tasks of one room the one with the older snapshot may commit last
  (`RoomStore`, the rooms in `overtaken`).
* A user is to be in one active room (`vector-racers-tasks.md:213`): the check
  asks Postgres, which does not have the user's new room yet (`RoomStore` with
  two rooms and two requests).
* A turn is to last 60 seconds (`vector-racers-tasks.md:308`): when a deadline
  expires and the move it waited for is stored before `applyTurnDeadline` loads
  the race, the next player's turn is ended (`Gateway`).

### Bounds

| Bound | Value | Why it is enough |
|---|---|---|
| players, users | 2 (3 in `room_overlap`, 1 in `room_sync`) | a turn order with a wrap; a room for two with one user too many |
| `LapCount` | 1 | a second lap adds moves and no new branch |
| `Call`, `Request`, `Handler` slots, `MaxOverlap` | 2, or 1 in `race_serial` and `room_sync` | the losses come from pairs of read and write; two calls already rewind, resurrect and duplicate |
| `MaxMoveSeq`, `MaxReplay` | 2 in `race_overlap`, 3 elsewhere | a full round and its wrap; a race may end, or go on past the last bound |
| `Starter` | 2 in `race_overlap` | two processes, or two countdowns, that start one race |
| `MaxAttempts` | 2 (6 in the code) | one retry, and exhaustion by the second failure |
| `MaxQueued` | 1 | more pending tasks of a room read the same snapshot |
| `MaxFaults`, `MaxDeaths`, `MaxEvictions`, `MaxLosses` | at most 1 or 2 | each kind of loss, at any point (2 faults in `room_sync`: as many as a task has attempts); none in `room_overlap`, where they would not fit beside three users (evictions: section 4, `Seats`) |
| `Task` | 2 in `room_sync`, 1 elsewhere | two tasks that read and commit in either order |
| `RaceLength` | 2 | a move that goes on and one that ends the race |
| `GameClient`: `N`, `RaceLength` | 2, 3 | two own turns with another's between; the third move ends the race |
| `Click` | 1 | one move whose token is being fetched; messages of earlier moves may still be under way. With a second one the states double and no property changes its answer |
| `MaxDrops` | 1 | a connection lost with what is on it, and a second join |
| `Proc` | 1 | the liveness of the timers |
| `Drive`: the track | a rectangle of 20 grains, 3 of which are a unit, closed by a repeated waypoint | corners, a segment of length 0, the line in a corner; the last and first 18 percent are 3.6 grains long, a car moves up to 4 along an axis in a turn |
| `Mass`, `MaxInertia` | 30, 44 | a car with inertia, so that a move gives less than the arrow has |
| `MaxSpeed`, `MaxAway` | 4 and 2 grains | a car that flies off the track and returns; that crosses parts of the track |
| `MaxLaps`, `MaxRounds` | 2, 1 | a second lap, and a round backwards |
| `Pointer`, `Target` | 2 fingers; a tap, a short drag, drags beyond `MaxThrust` | one finger's arrow under the other's drag; arrows cut to `MaxThrust`, and shorter than a unit |
| `Auth`: `Request`, `MaxTokens` | 2, 2 | pairs of register, of login, of refresh and logout |
| `MaxRestarts` | 1 | memory lost, requests gone, Redis kept |
| `WebTab`: cars | one that can be chosen, one that is locked | a stored car that is locked, or none |
| `MaxChanges`, `MaxFailures` | 1 each | a list that changes under a poll, a poll that fails |
| `MaxPolls` | 2 | an older list that is answered after a newer one |
| `MaxLate` | 1, and 0 when a room opens | an answer for a page that was left; of a room page none has an effect but those of a lobby, which the lobby sees as well |
| `MaxTroubles` | 1 | a connection lost, of this page or of the other member |
| `MaxCalls` | 2 | a handler that starts at the server while another is under way: two readies, a ready and a join |
| `MaxUnread` | 1 | a side sends only when nothing it has sent is unread, so that the two directions cross; handlers wait meanwhile, they are not lost |

Four simplifications of `WebTab` besides: the room goes on only while its page is on
show, and no handler is under way in it when the page opens; cookies change only on
pages that read them (not in a room that has its socket; `GameClient` has the token
there), the stored car is chosen anew when a lobby mounts (other tabs may have set
it), and the public list is numbered since the page was opened.

A move or a request that a bound forbids is not made; deadlock is not checked,
because with its bounds used up, or a race over and its users gone, the system may stop.

### Fairness

* `PersistFairness` (`RoomStore`): a `setImmediate` callback runs, a transaction
  settles one way or the other, a backoff timer fires. A scheduled task waits
  for one of the model's slots; strong fairness says that it gets one.
* `GatewayFairness`: promises settle and timers fire (again with strong
  fairness for the slot a callback needs), and a client whose socket is gone
  connects and joins again (`game-client.ts`: `reconnectionAttempts: Infinity`,
  `join_room` on every connect). Nothing is assumed of the players: they need
  not say that they are ready, nor move, nor stay connected.
* `ClientFairness`: promises settle, what is on a connection that is up arrives,
  socket.io tries to connect for as long as it takes. No move and no start is assumed.
* `Auth`: the process takes its steps, and Redis answers a command or fails.
  Clients need do nothing, and that a connection breaks, which ends in neither,
  is never required.
* `WebTab`: the interval of the lobby fires as long as the lobby is on show, and
  a poll is answered or rejects. Nothing is assumed of the user, nor of the room.
* `CountdownExpires` has the one timing assumption: the four seconds of the
  countdown are longer than a handler that was under way in the process when it was set.

## 4. What is proved

TLAPS proves, for every value of the constants that meets the assumptions named
here, every invariant and every action property of the passing runs: what is left to
TLC alone is liveness. An invariant is proved from an inductive one, which is a conjunction
of named parts; TLC checked each of these on the constants of the module's run
before its proof was written. A theorem about a step has a lemma for each part,
and a case for each action that can disturb it; the other actions are covered by
lemmas about what a variable may do at all (`CallKinds`, `RequestKinds`,
`StoreKinds`, `Frames` and their like).

**`RaceGameProofs`**: `TypeCorrect`, `TurnOrder`, `ReplayOrder`, `FinishedMeansGone`,
`OnlyLateCallsLoseMoves`, that is `Spec => []TypeOK`, `[]TurnLockstep`,
`[]ReplayTurnOrder`, `[]FinishedRoomHasNoRace` and `MovesAreKept`, with any number of
overlapping calls and starts. `TypeOK` holds the facts that make it inductive: a call
past its read and a starter past `CreateReplay` point at an existing replay row.
`TurnLockstep` speaks of the stored race and of every copy in a call; the heart is
`AfterMoveLockstep`, that a move of the player at `turnIndex` leads from one copy in
lockstep to another. Because it is a statement about each copy alone, a SET of any
copy at any time preserves it, which is why overlap, rewind and resurrection do no
harm to it. `ReplayTurnOrder` gets its inductive form in `ReplayInv`: the list a call
will write back and the entry it will add obey the rule too. That the entry does comes
from the turn rule, by which `moveSeq` modulo the number of players is the turn index
(`MoverOfSeq`, on `ModUnique`). The last two rest on `LateInv`: a call that is not
late holds the race of Redis with one move of its mover on top (`StandsOnRace`), and a
start that is not through and not late finds that there has been no race yet
(`HasNoRace`).

**`RaceSerialProofs`**: `RaceIsTurnRace`, `ReplayIsComplete`, under `Serial`: one call
is between its read and its write (`MaxOverlap = 1`, with finitely many slots, so that
a cardinality of 1 says so), and one countdown runs out. Handlers may still die at
every await. `RaceIsTurnRace` is the refinement: initial states map to initial states
and every step to a step of `TurnRace` or a stutter. A step of the abstract race
happens at `StoreGame` or `DeleteGame`, far from the read that decided it, so the
invariant must say that nothing changed in between: `OneMoveAhead`, a call holds the
race of Redis with one move of its mover on top, which needs `Alone` and, for the
start, `BeforeRace`. `LogInStep` is what `ReplayLogsEveryMove` lacks: the list a call
writes back is still the one stored, and a call that stores a race has logged its
move.

**`RoomStoreProofs`**: `RoomTypes`, `Seats`, `OnlyOvertakenLagBehind`,
`RaceHasItsPlayers`, `OnlyOutdatedWritesGoBack`, all of them for any number of
overlapping requests and tasks. `SeatsUnique` is not inductive: a join between its
checks and its write depends on what it checked. `SeatsInv` adds, in `RequestOK`, that
such a join holds a seated copy with a free seat and without its user, and which steps
have a room and a snapshot. The lemmas under it are about the data: as many players as
positions and the next position is the first free one (`SeatedCount`), and a new room,
a new member, a new readiness and a new status leave a room seated (`NewRoomSeated`,
`WithMemberSeated`, `WithReadySeated`, `WithStatusSeated`). For
`OnlyOvertakenLagBehind`, `CopyInv` says where a change is that Postgres lacks: in the
queue, or in the task that was the last to read the room (`Coming`), which has made no
more attempts than transactions failed; `KnownInv`, that every room which anything
refers to is in Redis, so that no request restores an old row. The other two rest on
`CurrentInv`: what a request that is not outdated holds is what Redis has, what it
will write goes forward from that (`Current`), and nobody joins between the snapshot a
race is made of and the status it sets (`Started`), unless a history says so.

**`GatewayProofs`**: `TypeCorrect`; `RaceStartsOnce`, under `OneProcess`;
`OneStartAtATime`, for any number of processes. The code guards a start by
`startTimers.has` alone, and its entry is gone once the countdown expires; that there
is one start at a time rests on the length of the countdown (`CountdownWaits`: a
countdown that runs waits for any start it found under way). `NothingBefore` adds that
a WAITING room without a start to finish has no race, nor a move on its way to one,
and `CreatesInTime` that a start which will store the race still finds the room as it
has checked it. The attempt to prove this found an error of the model: a countdown of
one process overwrote what another's was waiting for. The action was corrected
(`StartCountdown`); the runs, with one process, could not see it.

**`GameClientProofs`**: `PageShowsTheRace` and `ToldIsKept`, for any number of
players, clicks and losses, and `TypeCorrect` for more than one player (who is alone
may put any number of own moves on top of one another). Both rest on `DataInv`: every
message on its way, the state the server is about to emit and the one a resync has
read are the race as it stood (`Told`), and `Telling`, which says so of a connection,
survives a move of the race (`Grown`). `SeenInv` says it of the page: `shown` is such
a state or one own move ahead of it, `pre` is such a state; that the page never moves
twice in a row follows, since a state that has its own move on top is not its turn
(`TurnIsTold`). What is `drawn` is such a state as well, but may be an older one; that
is why `NothingTakenBack` is silent while a page is `blind`.

**`DriveProofs`**: `TypeCorrect`, `LapsAreCrossings`, for every track and every car.
The invariant is their conjunction with `MidIsFar` (the flag of the last move): the
lap counter equals the crossings as long as the history says that no move was longer
than 18 percent of the track. The heart is `OverTheLine`: for such a move, being above
82 percent before and below 18 percent after is the same as having gone over the line
forwards by the shorter way, and beyond 82 percent `mid` is set by `MidIsFar`. Under
it lie `ProgressType` (a progress is less than the length of the track) and
`MoveResult` (what a move returns). `ThrustLimited`, for every track and the cars of
`CarStats`, is arithmetic with quotients: what `clampMoveInput` and `applyMove` make
of an arrow against what `paint` draws of it. `CarStats` covers the cars of the
catalog (seed.ts), as far as any car whose stats are multipliers up to 1: an
acceleration of 0.4 or more, with a grip of 1 (`MaxInertia` is then 44 percent), or
with any grip, a mass of at most 1 and a thrust of at least 16 grains. Outside of it
the integers of the model lose more to rounding than the fractions of the code.

**`AuthProofs`**: `TypeCorrect`, `AccountsUnique`, `TokensKept`, `LogoutFinal`.
Accounts need nothing besides `Create`, which alone inserts. Tokens need `Fresh`
(one that is being stored is in nobody's hands and in no other request) and
`Kept` (what Redis has stored is kept from there on, before it is answered). A
logout is final because of four facts: no SET for a token that was answered is
under way (`Fresh`), a process that has not failed over has an empty memory
(`MemoryIsSecond`), a token whose DEL has run is not in Redis (`Deleted`), and
the store a later refresh asks does not have it (`LoggedOut`), also
when the process turns from Redis to its memory between the two.

**`WebTabProofs`**: the types and the six other invariants of a tab. `TabOK` and
`RoomOK` are the types with what makes them inductive (a page that was left keeps no
state; what a room page fetches comes before its socket; who has joined is connected).
`SelectedIsUnlocked`, `BusyEnds` and `LoadingEnds` are inductive on top of these. The
other three speak of quiet pages, so that their invariants must say what the messages
on their way will do: `LastSays` and `Unsaid` are the last word of a queue about
something and its silence, with lemmas for a queue that grows (`MoreSays`), loses its
head (`TailSays`) or gets what a handler emits (`ToRoomSays`, `NewsSays`). `PanelInv`:
before the race (`BeforeTheRace`) nothing about one is on its way and nothing of one
is shown; while it is on (`RaceIsTold`), a page that has joined shows it or will be
told, and shows no results. `RosterInv`: the last list announced is the room's unless
it was read before a later write, and it is what the page shows or will show.
`OfflineInv`: whoever will be shown as gone is gone, or about to be announced.

Assumptions, besides those named with the theorems: the players of a race are a
non-empty sequence without repetitions (`PlayerOrderAssumption`), bounds are natural
numbers, a room takes at least one player, values that stand for nothing are none of
the things they stand besides (`NoGame`, `NoRoom`, `NothingAssumption`); a call is not
a starter (`SlotAssumption`); a track has two waypoints and a positive length
(`TrackAssumption`, `LengthAssumption`; the recursion of `PrefixLength` is out of the
provers' reach), arrows point along an axis (`PointerAssumption`; a length is then no
square root), and the rates of a car are natural numbers. `Serial` and `OneProcess`
are questions of load and deployment, not facts of the code (section 5); the three
theorems they belong to fail without them.

Model-checked only: `RoomGetsListed`, `RaceStarts`, `RaceMovesOn`,
`SeesEveryTurn`, `AnsweredUnlessCut`, `ListCatchesUp`. They are liveness under
fairness, which with `ENABLED` and induction over data is outside what
the prover does. The three properties of the violation runs are false.

## 5. Limits of the statements

* `race_serial` says what holds while calls of one room do not overlap. Nothing in
  the code prevents overlap; it is a question of load. `race_overlap` and
  `room_overlap` have it, and their properties name the one step each that the code
  leaves open: the write over a race or a room that was not read. Nothing in the code makes
  that step rare; how a room suffers from it is what `room_lost_update` shows.
* `StartsOnce` is about one process. With two, each may run a countdown for the room,
  and the start of the second stores a new race over the first (`game.service.ts:231`
  asks only whether the room is WAITING and all are ready); what holds of each process
  is `OneStartAtATime`. It also leaves out a start that was cut between storing the
  race and `RACING`.
* `RaceStarts` is stated for runs without a failure. A restart during the
  countdown loses it, and a ready player's page offers no way to say so again
  (`room-client.tsx:336`).
* `RaceMovesOn` tolerates a restart: the first member who joins again gets a
  deadline set. It does not tolerate a handler that fails (the deadline is not
  set again until somebody joins), nor a start that ended between storing the
  race and `RACING`: such a race lives in a room where a second countdown can
  run, and the end of the one race clears the deadline of the other.
* `SyncedWhenQuiet` and `RoomGetsListed` do not tolerate a crash: persist tasks
  live in memory. `SyncedWhenQuiet` leaves out a room whose last commit was overtaken.
* `SeesEveryTurn` leaves out a resync that a newer state has overtaken (the page then
  shows the older one until the next move), a socket that was refused or replaced, and
  the end of the race: a `game_end` lost with its connection is never repeated.
  `GameClient` and `RoomPage` also reach a page on which a finished race stands beside
  its results: `onGameEnd` keeps the state to go back to (`game-client.ts:314-322`),
  and a `state_update` that was on its way shows a race again (243). No document says
  that it must not; `PanelFitsTheRoom` is about rooms whose race is not over.
* `FinishedRoomHasNoRace` and `MovesAreKept` leave out late calls and starts: a slow
  SET after the DEL brings a finished race back (`StoreGame` after `DeleteGame`), and
  one after another call's SET takes its moves back. `NothingTakenBack` leaves out a
  click between a listener and its render (`game-client.ts:226`), which saves the
  older state.
  That a click is rendered before the next one is assumed: between
  them lie a press and a release of the pointer.
* The room page leaves out a revived race and a process that dies between storing
  the race and its `game_start`: `RaceGame` and `Gateway` have those.
* `EveryCrossingCounts` is about moves of at most 18 percent of the track. Nothing
  in the code limits a car's speed: it gains up to one unit a move, so that on a
  short track a long straight is enough to leap over the zone before the line.
  An absent player's car goes on with its speed for ever, since its moves are (0,0).
* `ThrustIsLimited` says that the dot never shows less than the move does. It
  shows far more: the arrow may be `82 * speed` long, the server takes one unit
  of it, so that `grip` and the length of the drag hardly matter.
* Of six start positions the outermost two lie beside the track (`game.service.ts:97`:
  35 units from the center line on a half width of 34, with `offTrack` false until the
  first move).
* `TokensAreKept` is about production. Outside of it the first failure of Redis
  turns the process to its memory for good; tokens issued before are unknown, and
  a logout from memory is undone by a restart (`LogoutIsFinal` excludes it).
* `AnsweredUnlessCut`: a connection that Redis closes under a command leaves the
  request open for ever (`auth.tokens.service.ts:423`), and since `connect`
  removes its only listener for errors, a connection that breaks with an error
  ends the process (`Restart`).
* Nothing in the web application reads the refresh cookie: a session ends with
  its access token after 15 minutes, remembered or not (`Session` has no refresh).
  Every refused login or registration clears the cookies, also those of a session
  that another tab is using (`OtherTab`).
* `LoadingEnds` leaves out a lobby whose `fetch` rejects: the exception is caught
  nowhere, and the page says "Loading lobby" until it is reloaded. It leaves out
  as well a lobby that a late sign-in called the tab back to (`stayed`), whose
  redirect to the login page that overrides.
* `PanelFitsTheRoom` does not say that a page which was away at the end of a race
  shows the results: it shows the race until it is reloaded.
* `RosterIsCurrent` leaves out a last list that had been read before a later write,
  `OfflineIsTrue` a connection of the other member that was given up after their
  return: the page then shows somebody unready who is ready, or absent who is there,
  until the next event. `RosterIsCurrent` is about the room's snapshot: a ready
  that was lost there (`room_lost_update`) is shown as lost.

Not modelled, with the reasons: `PROJECT.json`, "components". In short: room
codes (one room is modelled, so that they are unique), the ranking of results (a
sort nothing reads back), the figures and the ring of the race panel, what is
drawn on the canvas; guards and controllers that keep no state, the catalogue,
which never changes, the seed, the designs.

## 6. What is left

The models of the plan are written, and the safety properties of the runs are
proved. Next, in this order:

1. An abstract specification of a room (who sits where, who is ready, what state
   it is in) that `RoomStore` implements when requests are served one at a time, in the way
   `RaceGame` implements `TurnRace`.
2. The safety half of `RaceMovesOn` in one process: a race that is stored has a
   deadline, or a handler that will set one, or nobody in the room.
3. What of `RaceIsTurnRace` survives overlap. `MovesAreKept` names the steps that
   lose a move; an abstract race that such a step may rewind, and nothing else, would
   say what they can cost.
4. The two halves of `StartsOnce` with two processes: what a lock in Redis would
   have to guarantee for it to hold.
