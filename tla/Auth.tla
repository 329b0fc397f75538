-------------------------------- MODULE Auth --------------------------------
(***************************************************************************)
(* Accounts and refresh tokens: apps/api/src/auth.                         *)
(*                                                                         *)
(* A request runs in pieces between its awaits; requests of one process    *)
(* interleave there.  Refresh tokens are kept in Redis; outside production *)
(* the process turns to its own memory at the first failure of Redis, and  *)
(* stays there until it ends.  (RedisService lets no process start without *)
(* a REDIS_URL.)  Passwords are right or wrong, and signatures are never   *)
(* forged: whatever is not a refresh token is refused as one.  Access      *)
(* tokens are stateless; Session has what becomes of them.                 *)
(***************************************************************************)
EXTENDS Integers, FiniteSets

CONSTANTS
    Request,            \* slots for requests under way
    Written, Email,     \* addresses as typed; trimmed and in lower case
    Normal,             \* from the first to the second
    Name,               \* user names, trimmed
    MaxTokens,          \* bound: token pairs signed
    MaxRestarts         \* bound: ends of the process

ASSUME NormalAssumption == Normal \in [Written -> Email]
ASSUME BoundAssumption == MaxTokens \in Nat /\ MaxRestarts \in Nat

VARIABLES
    production,         \* NODE_ENV; never changes
    users,              \* the table User
    redis,              \* refresh tokens in Redis, under rt:{sub}:{jti}
    memory,             \* devRefreshEntries
    failover,           \* redisDevFailover
    reqs,               \* the requests
    signed,             \* token pairs signed so far: the next jti
    dead,               \* tokens past their exp
    held,               \* refresh tokens that were answered
    asked, ended,       \* history: tokens with a logout received, answered 200
    restarts

process == <<production, failover, restarts>>
history == <<held, asked, ended>>
vars == <<process, users, redis, memory, reqs, signed, dead, history>>

Account == [email : Email, name : Name]
Token == [sub : Account, jti : 0..(MaxTokens - 1)]

(* A request: answered with a status code, or gone; before the insert of   *)
(* its account; or at Redis with a command "sent", "run", or "cut" off.    *)
(* late: a refresh whose token had been logged out before it came.         *)
Answered == [at : {"200", "401", "409", "500", "503", "gone"}, late : BOOLEAN]
Creating == [at : {"create"}, who : Account]
Waiting == [at : {"sent", "run", "cut"}, op : {"SET", "GET", "DEL"}, token : Token,
            late : BOOLEAN, found : BOOLEAN]

Free(r) == reqs[r] \in Answered

-----------------------------------------------------------------------------
Init ==
    /\ production \in BOOLEAN
    /\ users = {} /\ redis = {} /\ memory = {} /\ failover = FALSE
    /\ reqs = [r \in Request |-> [at |-> "gone", late |-> FALSE]]
    /\ signed = 0 /\ dead = {}
    /\ held = {} /\ asked = {} /\ ended = {} /\ restarts = 0

Becomes(r, q) == reqs' = [reqs EXCEPT ![r] = q]
Reply(r, code, late) == Becomes(r, [at |-> code, late |-> late])

(* A command on a store. *)
After(store, op, t) ==
    CASE op = "SET" -> store \cup {t}
      [] op = "GET" -> store
      [] op = "DEL" -> store \ {t}

(* What the caller does with the store's answer: issueTokenPair,           *)
(* rotateAccessToken (with a new access token), invalidateRefreshToken.    *)
Finish(r, op, t, late, found) ==
    \/ /\ op = "SET"
       /\ Reply(r, "200", late)
       /\ held' = held \cup {t}
       /\ UNCHANGED ended
    \/ /\ op = "GET"
       /\ Reply(r, IF found THEN "200" ELSE "401", late)
       /\ UNCHANGED <<held, ended>>
    \/ /\ op = "DEL"
       /\ Reply(r, "200", late)
       /\ ended' = ended \cup {t}
       /\ UNCHANGED held

(* The process's own store.  An entry is as old as its token and is only   *)
(* read after the token was found alive, so that none is dropped for age.  *)
InMemory(r, op, t, late) ==
    /\ memory' = After(memory, op, t)
    /\ Finish(r, op, t, late, t \in memory)

(* setRefreshToken, getRefreshToken, deleteRefreshToken, up to the await. *)
Access(r, op, t, late) ==
    IF failover THEN InMemory(r, op, t, late)
    ELSE /\ Becomes(r, [at |-> "sent", op |-> op, token |-> t, late |-> late, found |-> FALSE])
         /\ UNCHANGED <<memory, held, ended>>

(* issueTokenPair: a jti nobody has, then the store. *)
Issue(r, who) ==
    /\ signed < MaxTokens
    /\ signed' = signed + 1
    /\ Access(r, "SET", [sub |-> who, jti |-> signed], FALSE)

-----------------------------------------------------------------------------
(* AuthService *)

(* A row with the e-mail or the name: both are unique. *)
Known(who) == \E u \in users : u.email = who.email \/ u.name = who.name

(* Variant: the address stays as it was typed. *)
TrimmedOnly(w, n) == [email |-> w, name |-> n]

Trimmed(w, n) == [email |-> Normal[w], name |-> n]

(* register, up to the hash: the e-mail and the name are looked up. *)
Register(r, w, n) ==
    /\ Free(r)
    /\ IF Known(Trimmed(w, n)) THEN Reply(r, "409", FALSE)
       ELSE Becomes(r, [at |-> "create", who |-> Trimmed(w, n)])
    /\ UNCHANGED <<process, users, redis, memory, signed, dead, history>>

(* Variant: the look-up is trusted. *)
CreateUnchecked(r) ==
    /\ reqs[r].at = "create"
    /\ users' = users \cup {reqs[r].who}
    /\ Issue(r, reqs[r].who)
    /\ UNCHANGED <<process, redis, dead, asked>>

(* register, from the hash on: the table takes no second row. *)
Create(r) ==
    /\ reqs[r].at = "create"
    /\ ~Known(reqs[r].who)
    /\ users' = users \cup {reqs[r].who}
    /\ Issue(r, reqs[r].who)
    /\ UNCHANGED <<process, redis, dead, asked>>

(* An account that came in between, and any failure of the database. *)
CreateFails(r) ==
    /\ reqs[r].at = "create"
    /\ Reply(r, "500", FALSE)
    /\ UNCHANGED <<process, users, redis, memory, signed, dead, history>>

(* login: accounts are never changed, so that nothing can happen between   *)
(* the look-up and the comparison of the password.                         *)
Login(r, w) ==
    /\ Free(r)
    /\ \E u \in users : u.email = Normal[w] /\ Issue(r, u)
    /\ UNCHANGED <<process, users, redis, dead, asked>>

(* No such account, the wrong password, or not a refresh token. *)
Refused(r) ==
    /\ Free(r)
    /\ Reply(r, "401", FALSE)
    /\ UNCHANGED <<process, users, redis, memory, signed, dead, history>>

(* refresh and logout, up to the store's answer. *)
Refresh(r, t) ==
    /\ Free(r) /\ t \notin dead
    /\ Access(r, "GET", t, t \in ended)
    /\ UNCHANGED <<process, users, redis, signed, dead, asked>>

Logout(r, t) ==
    /\ Free(r) /\ t \notin dead
    /\ Access(r, "DEL", t, FALSE)
    /\ asked' = asked \cup {t}
    /\ UNCHANGED <<process, users, redis, signed, dead>>

-----------------------------------------------------------------------------
(* RawRedisClient: a connection for every command. *)

(* Redis runs the command. *)
Runs(r) ==
    LET q == reqs[r]
    IN  /\ q.at = "sent"
        /\ redis' = After(redis, q.op, q.token)
        /\ Becomes(r, [q EXCEPT !.at = "run", !.found = q.token \in redis])
        /\ UNCHANGED <<process, users, memory, signed, dead, history>>

(* Variant: a null answer is taken for a beginning. *)
OnDataNil(r) ==
    LET q == reqs[r]
    IN  /\ q.at = "run"
        /\ q.op = "GET" => q.found
        /\ Finish(r, q.op, q.token, q.late, q.found)
        /\ UNCHANGED <<process, users, redis, memory, signed, dead, asked>>

(* tryParseResponse has a whole answer. *)
OnData(r) ==
    LET q == reqs[r]
    IN  /\ q.at = "run"
        /\ Finish(r, q.op, q.token, q.late, q.found)
        /\ UNCHANGED <<process, users, redis, memory, signed, dead, asked>>

(* Variant: only a refresh needs Redis to answer. *)
FailsForgiving(r) ==
    LET q == reqs[r]
    IN  /\ q.at = "sent"
        /\ IF production /\ q.op = "GET"
           THEN /\ Reply(r, "503", q.late)
                /\ UNCHANGED <<failover, memory, held, ended>>
           ELSE /\ failover' = ~production
                /\ InMemory(r, q.op, q.token, q.late)
        /\ UNCHANGED <<production, restarts, users, redis, signed, dead, asked>>

(* The connection is refused, or AUTH, SELECT or the command is answered   *)
(* with an error: 503, or this process's memory from now on.               *)
Fails(r) ==
    LET q == reqs[r]
    IN  /\ q.at = "sent"
        /\ IF production
           THEN /\ Reply(r, "503", q.late)
                /\ UNCHANGED <<failover, memory, held, ended>>
           ELSE /\ failover' = TRUE
                /\ InMemory(r, q.op, q.token, q.late)
        /\ UNCHANGED <<production, restarts, users, redis, signed, dead, asked>>

(* Redis closes a connection that has a command under way: there is no     *)
(* listener for it, and the promise never settles.                         *)
Closes(r) ==
    /\ reqs[r].at \in {"sent", "run"}
    /\ Becomes(r, [reqs[r] EXCEPT !.at = "cut"])
    /\ UNCHANGED <<process, users, redis, memory, signed, dead, history>>

(* The client of such a request goes away. *)
Abandon(r) ==
    /\ reqs[r].at = "cut"
    /\ Reply(r, "gone", FALSE)
    /\ UNCHANGED <<process, users, redis, memory, signed, dead, history>>

(* The process ends.  One way is its own: connect takes its listener for   *)
(* errors off once it is connected, and a connection that breaks later     *)
(* raises an error nobody handles.                                         *)
Restart ==
    /\ restarts < MaxRestarts
    /\ restarts' = restarts + 1
    /\ memory' = {} /\ failover' = FALSE
    /\ reqs' = [r \in Request |-> [at |-> "gone", late |-> FALSE]]
    /\ UNCHANGED <<production, users, redis, signed, dead, history>>

-----------------------------------------------------------------------------
(* A token's exp passes, and its key in Redis goes with it. *)
Expires(t) ==
    /\ t \notin dead
    /\ dead' = dead \cup {t}
    /\ redis' = redis \ {t}
    /\ UNCHANGED <<process, users, memory, reqs, signed, history>>

Client(r) ==
    \/ \E w \in Written, n \in Name : Register(r, w, n)
    \/ \E w \in Written : Login(r, w)
    \/ Refused(r)
    \/ \E t \in held : Refresh(r, t) \/ Logout(r, t)

Server(r) == Create(r) \/ CreateFails(r) \/ Runs(r) \/ OnData(r) \/ Fails(r)

Next ==
    \/ \E r \in Request : Client(r) \/ Server(r) \/ Closes(r) \/ Abandon(r)
    \/ Restart
    \/ \E t \in held : Expires(t)

(* The process takes its steps, and Redis answers or fails; clients may do *)
(* nothing, and nothing need break.                                        *)
Fairness == \A r \in Request : WF_vars(Server(r))

Spec == Init /\ [][Next]_vars /\ Fairness

-----------------------------------------------------------------------------
(* Every variable holds what the code can put there.                       *)
TypeOK ==
    /\ production \in BOOLEAN /\ failover \in BOOLEAN
    /\ users \subseteq Account
    /\ redis \subseteq Token /\ memory \subseteq Token
    /\ reqs \in [Request -> Answered \cup Creating \cup Waiting]
    /\ signed \in 0..MaxTokens /\ restarts \in 0..MaxRestarts
    /\ dead \subseteq Token /\ held \subseteq Token
    /\ ended \subseteq asked /\ asked \subseteq held

(* Registrations that overlap leave one account for an address, however it *)
(* was typed, and one for a name (AuthService.register, schema.prisma).    *)
OneAccountEach ==
    \A u, v \in users : u.email = v.email \/ u.name = v.name => u = v

(* In production a refresh token that was answered can be used until it    *)
(* expires or its owner asks to log out, whatever fails in between         *)
(* (issueTokenPair, setRefreshToken).                                      *)
TokensAreKept ==
    production => \A t \in held : t \in redis \/ t \in dead \/ t \in asked

(* "invalidates refresh token after logout" (auth.e2e-spec.ts:252): a      *)
(* refresh that comes after the logout was answered is not granted.        *)
(* Outside production this lasts as long as the process: what it answered  *)
(* from memory Redis never heard of.                                       *)
LogoutIsFinal ==
    production \/ restarts = 0
      => \A r \in Request : reqs[r] \in Answered /\ reqs[r].late => reqs[r].at # "200"

(* Every request is answered, unless Redis closes a connection under it    *)
(* (RawRedisClient.command).                                               *)
AnsweredUnlessCut ==
    \A r \in Request :
        reqs[r].at \in {"create", "sent", "run"} ~> Free(r) \/ reqs[r].at = "cut"
=============================================================================
