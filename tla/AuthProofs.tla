----------------------------- MODULE AuthProofs -----------------------------
(***************************************************************************)
(* Theorems about Auth, for any number of requests, addresses, names,      *)
(* tokens and restarts.                                                    *)
(***************************************************************************)
EXTENDS Auth, TLAPS

-----------------------------------------------------------------------------
(* What is known of a token while a command on it is under way.            *)

(* A command of request r is under way; and one whose answer will count.   *)
AtRedis(r) == reqs[r].at \in {"sent", "run", "cut"}
Live(r) == reqs[r].at \in {"sent", "run"}
Setting(r) == Live(r) /\ reqs[r].op = "SET"

(* Only a token that was answered is used, and only one whose logout was   *)
(* received is deleted.                                                    *)
UsesHeld ==
    \A r \in Request : AtRedis(r) =>
        /\ reqs[r].op \in {"GET", "DEL"} => reqs[r].token \in held
        /\ reqs[r].op = "DEL" => reqs[r].token \in asked

TypeInv == TypeOK /\ UsesHeld

(* No token is signed twice: one that is being stored is in nobody's hands *)
(* and in no other request.                                                *)
Fresh ==
    /\ \A t \in held : t.jti < signed
    /\ \A r \in Request : AtRedis(r) => reqs[r].token.jti < signed
    /\ \A r \in Request : Setting(r) => reqs[r].token \notin held
    /\ \A r, q \in Request :
          Setting(r) /\ Setting(q) /\ reqs[r].token = reqs[q].token => r = q

(* In production nothing is in memory; a token that Redis has stored but   *)
(* that was not yet answered is kept as well.                              *)
Kept ==
    /\ production => ~failover
    /\ production => \A r \in Request :
          reqs[r].at = "run" /\ reqs[r].op = "SET"
            => reqs[r].token \in redis \cup dead \cup asked

(* A process that has not failed over has nothing in memory, so that no    *)
(* token of which a command is at Redis is there.                          *)
MemoryIsSecond ==
    /\ ~failover => memory = {}
    /\ \A r \in Request :
          AtRedis(r) /\ reqs[r].op # "SET" => reqs[r].token \notin memory

(* A deleted token stays deleted, and one that was logged out is in no     *)
(* store that is still asked.                                              *)
Deleted ==
    \A r \in Request :
        reqs[r].at = "run" /\ reqs[r].op = "DEL" => reqs[r].token \notin redis

LoggedOut ==
    production \/ restarts = 0 =>
        /\ \A t \in ended : t \notin memory /\ (t \notin redis \/ failover)
        /\ \A r \in Request : AtRedis(r) /\ reqs[r].late =>
              /\ reqs[r].op = "GET" /\ ~reqs[r].found
              /\ reqs[r].token \notin redis \cup memory

-----------------------------------------------------------------------------
(* The two ways of a request to the store, for the types. *)

Commands == {"SET", "GET", "DEL"}

LEMMA RequestShapes ==
    /\ \A q \in Answered : q.at \in {"200", "401", "409", "500", "503", "gone"}
    /\ \A q \in Creating : q.at = "create" /\ q.who \in Account
    /\ \A q \in Waiting : /\ q.at \in {"sent", "run", "cut"} /\ q.op \in Commands
                           /\ q.token \in Token /\ q.late \in BOOLEAN /\ q.found \in BOOLEAN
  BY DEF Answered, Creating, Waiting, Commands

(* A command that has run. *)
Moved(q, found) == [q EXCEPT !.at = "run", !.found = found]

LEMMA MovedOn ==
    ASSUME NEW q \in Waiting, NEW found \in BOOLEAN
    PROVE  /\ Moved(q, found) \in Waiting
           /\ Moved(q, found).at = "run" /\ Moved(q, found).found = found
           /\ Moved(q, found).op = q.op /\ Moved(q, found).token = q.token
           /\ Moved(q, found).late = q.late
  BY DEF Waiting, Moved

LEMMA ReplyType ==
    ASSUME NEW r \in Request, TypeInv, NEW code \in {"200", "401", "409", "500", "503", "gone"},
           NEW late \in BOOLEAN, Reply(r, code, late), held \subseteq held', asked \subseteq asked'
    PROVE  /\ reqs' \in [Request -> Answered \cup Creating \cup Waiting]
           /\ UsesHeld'
  <1>1. [at |-> code, late |-> late] \in Answered
    BY DEF Answered
  <1>2. reqs' = [reqs EXCEPT ![r] = [at |-> code, late |-> late]]
    BY DEF Reply, Becomes
  <1>3. \A q \in Request : q # r => reqs'[q] = reqs[q]
    BY <1>2 DEF TypeInv, TypeOK
  <1>4. reqs'[r].at = code
    BY <1>2 DEF TypeInv, TypeOK
  <1>5. UsesHeld'
    BY <1>3, <1>4 DEF TypeInv, UsesHeld, AtRedis
  <1> QED
    BY <1>1, <1>2, <1>5 DEF TypeInv, TypeOK

LEMMA AskType ==
    ASSUME NEW r \in Request, TypeInv, NEW q \in Waiting, Becomes(r, q),
           held \subseteq held', asked \subseteq asked',
           q.op \in {"GET", "DEL"} => q.token \in held',
           q.op = "DEL" => q.token \in asked'
    PROVE  /\ reqs' \in [Request -> Answered \cup Creating \cup Waiting]
           /\ UsesHeld'
  <1>1. reqs' = [reqs EXCEPT ![r] = q]
    BY DEF Becomes
  <1>2. \A p \in Request : p # r => reqs'[p] = reqs[p]
    BY <1>1 DEF TypeInv, TypeOK
  <1>3. reqs'[r] = q
    BY <1>1 DEF TypeInv, TypeOK
  <1>4. UsesHeld'
    BY <1>2, <1>3 DEF TypeInv, UsesHeld, AtRedis
  <1> QED
    BY <1>1, <1>4 DEF TypeInv, TypeOK

LEMMA FinishType ==
    ASSUME NEW r \in Request, TypeInv, NEW op \in Commands, NEW t \in Token,
           NEW late \in BOOLEAN, NEW found \in BOOLEAN, Finish(r, op, t, late, found),
           asked \subseteq asked',
           op = "DEL" => t \in asked'
    PROVE  /\ reqs' \in [Request -> Answered \cup Creating \cup Waiting]
           /\ UsesHeld'
           /\ held' \subseteq Token /\ held \subseteq held'
           /\ ended' \subseteq asked'
  <1>1. /\ held' \subseteq Token /\ held \subseteq held'
        /\ ended' \subseteq asked'
    BY DEF Finish, TypeInv, TypeOK
  <1>2. \E code \in {"200", "401"} : Reply(r, code, late)
    BY DEF Finish
  <1> QED
    BY <1>1, <1>2, ReplyType
(* A request that goes to the store, from the process or from Redis. *)
LEMMA InMemoryType ==
    ASSUME NEW r \in Request, TypeInv, NEW op \in Commands, NEW t \in Token,
           NEW late \in BOOLEAN, InMemory(r, op, t, late),
           asked \subseteq asked', op = "DEL" => t \in asked'
    PROVE  /\ reqs' \in [Request -> Answered \cup Creating \cup Waiting]
           /\ UsesHeld'
           /\ held' \subseteq Token /\ held \subseteq held'
           /\ ended' \subseteq asked'
           /\ memory' \subseteq Token
  <1>1. memory' \subseteq Token
    BY DEF InMemory, After, Commands, TypeInv, TypeOK
  <1>2. Finish(r, op, t, late, t \in memory)
    BY DEF InMemory
  <1>3. (t \in memory) \in BOOLEAN
    OBVIOUS
  <1> QED
    BY <1>1, <1>2, <1>3, FinishType

LEMMA AccessType ==
    ASSUME NEW r \in Request, TypeInv, NEW op \in Commands, NEW t \in Token,
           NEW late \in BOOLEAN, Access(r, op, t, late),
           asked \subseteq asked', op = "DEL" => t \in asked',
           op \in {"GET", "DEL"} => t \in held
    PROVE  /\ reqs' \in [Request -> Answered \cup Creating \cup Waiting]
           /\ UsesHeld'
           /\ held' \subseteq Token /\ held \subseteq held'
           /\ ended' \subseteq asked'
           /\ memory' \subseteq Token
  <1>1. CASE failover
    BY <1>1, InMemoryType DEF Access
  <1>2. CASE ~failover
    <2> DEFINE q == [at |-> "sent", op |-> op, token |-> t, late |-> late, found |-> FALSE]
    <2>1. q \in Waiting /\ q.op = op /\ q.token = t
      BY DEF Waiting, Commands
    <2>2. Becomes(r, q) /\ memory' = memory /\ held' = held /\ ended' = ended
      BY <1>2 DEF Access
    <2> HIDE DEF q
    <2> QED
      BY <2>1, <2>2, AskType DEF TypeInv, TypeOK
  <1> QED
    BY <1>1, <1>2

LEMMA IssueType ==
    ASSUME NEW r \in Request, TypeInv, NEW who \in Account, Issue(r, who), asked' = asked
    PROVE  /\ reqs' \in [Request -> Answered \cup Creating \cup Waiting]
           /\ UsesHeld'
           /\ held' \subseteq Token /\ held \subseteq held'
           /\ ended' \subseteq asked'
           /\ memory' \subseteq Token
           /\ signed' \in 0..MaxTokens
  <1> DEFINE t == [sub |-> who, jti |-> signed]
  <1>1. t \in Token /\ signed' \in 0..MaxTokens
    BY BoundAssumption DEF Issue, Token, TypeInv, TypeOK
  <1>2. Access(r, "SET", t, FALSE)
    BY DEF Issue
  <1> HIDE DEF t
  <1> QED
    BY <1>1, <1>2, AccessType DEF Commands

(* What is in the table, in the stores and in the requests is of its type, *)
(* a logout concerns a token that was answered, and only what was asked    *)
(* for is ended (AuthTokensService).                                       *)
THEOREM TypesKept == Spec => []TypeInv
  <1>1. Init => TypeInv
    <2> DEFINE gone == [at |-> "gone", late |-> FALSE]
    <2>1. gone \in Answered /\ gone.at = "gone"
      BY DEF Answered
    <2> HIDE DEF gone
    <2>2. Init => reqs = [r \in Request |-> gone]
      BY DEF Init, gone
    <2>3. Init => UsesHeld /\ reqs \in [Request -> Answered \cup Creating \cup Waiting]
      BY <2>1, <2>2 DEF UsesHeld, AtRedis
    <2>4. 0 \in 0..MaxTokens /\ 0 \in 0..MaxRestarts
      BY BoundAssumption
    <2> QED
      BY <2>3, <2>4 DEF Init, TypeInv, TypeOK
  <1>2. TypeInv /\ [Next]_vars => TypeInv'
    <2> SUFFICES ASSUME TypeInv, [Next]_vars
                 PROVE  TypeInv'
      OBVIOUS
    <2> USE DEF TypeInv
    <2>1. ASSUME NEW r \in Request, NEW w \in Written, NEW n \in Name, Register(r, w, n)
          PROVE  TypeInv'
      <3>1. Trimmed(w, n) \in Account
        BY NormalAssumption DEF Trimmed, Account
      <3>2. CASE Known(Trimmed(w, n))
        BY <2>1, <3>2, ReplyType DEF Register, TypeOK, process, history
      <3>3. CASE ~Known(Trimmed(w, n))
        <4>1. [at |-> "create", who |-> Trimmed(w, n)] \in Creating
          BY <3>1 DEF Creating
        <4>2. reqs' = [reqs EXCEPT ![r] = [at |-> "create", who |-> Trimmed(w, n)]]
          BY <2>1, <3>3 DEF Register, Becomes
        <4>3. UsesHeld'
          BY <2>1, <4>2 DEF Register, TypeOK, UsesHeld, AtRedis, process, history
        <4> QED
          BY <2>1, <4>1, <4>2, <4>3 DEF Register, TypeOK, process, history
      <3> QED
        BY <3>2, <3>3
    <2>2. ASSUME NEW r \in Request, NEW w \in Written, Login(r, w)
          PROVE  TypeInv'
      <3>1. PICK u \in users : Issue(r, u)
        BY <2>2 DEF Login
      <3>2. u \in Account
        BY DEF TypeOK
      <3> QED
        BY <2>2, <3>1, <3>2, IssueType DEF Login, TypeOK, process
    <2>3. ASSUME NEW r \in Request, Refused(r)
          PROVE  TypeInv'
      BY <2>3, ReplyType DEF Refused, TypeOK, process, history
    <2>4. ASSUME NEW r \in Request, NEW t \in held, Refresh(r, t)
          PROVE  TypeInv'
      <3>1. t \in Token /\ (t \in ended) \in BOOLEAN
        BY DEF TypeOK
      <3> QED
        BY <2>4, <3>1, AccessType DEF Refresh, TypeOK, process, Commands
    <2>5. ASSUME NEW r \in Request, NEW t \in held, Logout(r, t)
          PROVE  TypeInv'
      <3>1. t \in Token /\ asked \subseteq asked' /\ t \in asked'
        BY <2>5 DEF Logout, TypeOK
      <3> QED
        BY <2>5, <3>1, AccessType DEF Logout, TypeOK, process, Commands
    <2>6. ASSUME NEW r \in Request, Create(r)
          PROVE  TypeInv'
      <3>1. reqs[r].who \in Account
        BY <2>6, RequestShapes DEF Create, TypeOK
      <3> QED
        BY <2>6, <3>1, IssueType DEF Create, TypeOK, process
    <2>7. ASSUME NEW r \in Request, CreateFails(r)
          PROVE  TypeInv'
      BY <2>7, ReplyType DEF CreateFails, TypeOK, process, history
    <2>8. ASSUME NEW r \in Request, Runs(r) \/ Closes(r)
          PROVE  TypeInv'
      <3>1. reqs[r] \in Waiting
        BY <2>8, RequestShapes DEF Runs, Closes, TypeOK
      <3>2. PICK q \in Waiting : Becomes(r, q) /\ q.op = reqs[r].op /\ q.token = reqs[r].token
        <4>1. CASE Runs(r)
          <5>1. Becomes(r, Moved(reqs[r], reqs[r].token \in redis))
            BY <4>1 DEF Runs, Moved
          <5>2. (reqs[r].token \in redis) \in BOOLEAN
            OBVIOUS
          <5> QED
            BY <3>1, <5>1, <5>2, MovedOn
        <4>2. CASE Closes(r)
          <5> DEFINE q == [reqs[r] EXCEPT !.at = "cut"]
          <5>1. q \in Waiting /\ q.op = reqs[r].op /\ q.token = reqs[r].token
            BY <3>1 DEF Waiting
          <5> QED
            BY <4>2, <5>1 DEF Closes
        <4> QED
          BY <2>8, <4>1, <4>2
      <3>3. held' = held /\ asked' = asked /\ ended' = ended
        BY <2>8 DEF Runs, Closes, history
      <3>4. /\ reqs' \in [Request -> Answered \cup Creating \cup Waiting]
            /\ UsesHeld'
        <4>1. AtRedis(r)
          BY <2>8 DEF Runs, Closes, AtRedis
        <4> QED
          BY <3>2, <3>3, <4>1, AskType DEF UsesHeld
      <3>5. redis' \subseteq Token
        BY <2>8, <3>1 DEF Runs, Closes, After, Waiting, TypeOK
      <3> QED
        BY <2>8, <3>3, <3>4, <3>5 DEF Runs, Closes, TypeOK, process
    <2>9. ASSUME NEW r \in Request, OnData(r)
          PROVE  TypeInv'
      <3>1. reqs[r] \in Waiting /\ AtRedis(r)
        BY <2>9, RequestShapes DEF OnData, TypeOK, AtRedis
      <3> QED
        BY <2>9, <3>1, RequestShapes, FinishType DEF OnData, TypeOK, process, UsesHeld
    <2>10. ASSUME NEW r \in Request, Fails(r)
           PROVE  TypeInv'
      <3>1. reqs[r] \in Waiting /\ AtRedis(r)
        BY <2>10, RequestShapes DEF Fails, TypeOK, AtRedis
      <3>2. CASE production
        BY <2>10, <3>1, <3>2, RequestShapes, ReplyType DEF Fails, TypeOK
      <3>3. CASE ~production
        BY <2>10, <3>1, <3>3, RequestShapes, InMemoryType DEF Fails, TypeOK, UsesHeld
      <3> QED
        BY <3>2, <3>3
    <2>11. ASSUME NEW r \in Request, Abandon(r)
           PROVE  TypeInv'
      BY <2>11, ReplyType DEF Abandon, TypeOK, process, history
    <2>12. CASE Restart
      <3> DEFINE gone == [at |-> "gone", late |-> FALSE]
      <3>1. gone \in Answered /\ gone.at = "gone"
        BY DEF Answered
      <3>2. reqs' = [r \in Request |-> gone]
        BY <2>12 DEF Restart
      <3> HIDE DEF gone
      <3>3. UsesHeld' /\ reqs' \in [Request -> Answered \cup Creating \cup Waiting]
        BY <3>1, <3>2 DEF UsesHeld, AtRedis
      <3>4. restarts' \in 0..MaxRestarts
        BY <2>12, BoundAssumption DEF Restart, TypeOK
      <3> QED
        BY <2>12, <3>3, <3>4 DEF Restart, TypeOK, history
    <2>13. ASSUME NEW t \in held, Expires(t)
           PROVE  TypeInv'
      BY <2>13 DEF Expires, TypeOK, UsesHeld, AtRedis, process, history
    <2>14. CASE UNCHANGED vars
      BY <2>14 DEF vars, TypeOK, UsesHeld, AtRedis, process, history
    <2> QED
      BY <2>1, <2>2, <2>3, <2>4, <2>5, <2>6, <2>7, <2>8, <2>9, <2>10, <2>11,
         <2>12, <2>13, <2>14 DEF Next, Client, Server
  <1> QED
    BY <1>1, <1>2, PTL DEF Spec

(* The types of the tables, the stores and the requests.                   *)
THEOREM TypeCorrect == Spec => []TypeOK
  BY TypesKept, PTL DEF TypeInv

-----------------------------------------------------------------------------
(* Registrations that overlap leave one account for an address and one for *)
(* a name: the row is inserted by Create alone, which the two unique       *)
(* columns refuse a second row (AuthService.register).                     *)
THEOREM AccountsUnique == Spec => []OneAccountEach
  <1>1. Init => OneAccountEach
    BY DEF Init, OneAccountEach
  <1>2. OneAccountEach /\ [Next]_vars => OneAccountEach'
    <2> SUFFICES ASSUME OneAccountEach, [Next]_vars
                 PROVE  OneAccountEach'
      OBVIOUS
    <2>1. ASSUME NEW r \in Request, Create(r)
          PROVE  OneAccountEach'
      BY <2>1 DEF Create, Known, OneAccountEach
    <2>2. CASE users' = users
      BY <2>2 DEF OneAccountEach
    <2>3. \/ \E r \in Request : Create(r)
          \/ users' = users
      BY DEF Next, Client, Server, Register, Login, Refused, Refresh, Logout, CreateFails,
             Runs, OnData, Fails, Closes, Abandon, Restart, Expires, vars
    <2> QED
      BY <2>1, <2>2, <2>3
  <1> QED
    BY <1>1, <1>2, PTL DEF Spec

-----------------------------------------------------------------------------
(* What the steps do to the requests and to the tokens, once for all the   *)
(* invariants below.                                                       *)

OthersSame(r) == \A q \in Request \ {r} : reqs'[q] = reqs[q]
TokensSame == UNCHANGED <<redis, memory, held, asked, ended, dead, signed, failover, restarts>>

LEMMA Replied ==
    ASSUME TypeInv, NEW r \in Request, NEW code, NEW late, Reply(r, code, late)
    PROVE  OthersSame(r) /\ reqs'[r].at = code /\ reqs'[r].late = late
  BY DEF TypeInv, TypeOK, Reply, Becomes, OthersSame

LEMMA Became ==
    ASSUME TypeInv, NEW r \in Request, NEW q, Becomes(r, q)
    PROVE  OthersSame(r) /\ reqs'[r] = q
  BY DEF TypeInv, TypeOK, Becomes, OthersSame

(* A request that is answered from a store. *)
LEMMA Finished ==
    ASSUME TypeInv, NEW r \in Request, NEW op \in Commands, NEW t, NEW late,
           NEW found \in BOOLEAN, Finish(r, op, t, late, found)
    PROVE  /\ OthersSame(r)
           /\ reqs'[r].at \in {"200", "401"} /\ reqs'[r].late = late
           /\ op = "GET" /\ ~found => reqs'[r].at = "401"
           /\ held' = IF op = "SET" THEN held \cup {t} ELSE held
           /\ ended' = IF op = "DEL" THEN ended \cup {t} ELSE ended
  <1>1. CASE op = "SET"
    BY <1>1, Replied DEF Finish
  <1>2. CASE op = "GET"
    BY <1>2, Replied DEF Finish
  <1>3. CASE op = "DEL"
    BY <1>3, Replied DEF Finish
  <1> QED
    BY <1>1, <1>2, <1>3 DEF Commands

LEMMA AnsweredInMemory ==
    ASSUME TypeInv, NEW r \in Request, NEW op \in Commands, NEW t, NEW late,
           InMemory(r, op, t, late)
    PROVE  /\ OthersSame(r)
           /\ reqs'[r].at \in {"200", "401"} /\ reqs'[r].late = late
           /\ op = "GET" /\ t \notin memory => reqs'[r].at = "401"
           /\ held' = IF op = "SET" THEN held \cup {t} ELSE held
           /\ ended' = IF op = "DEL" THEN ended \cup {t} ELSE ended
           /\ memory' = After(memory, op, t)
  <1> DEFINE found == t \in memory
  <1>1. Finish(r, op, t, late, found) /\ memory' = After(memory, op, t)
    BY DEF InMemory
  <1>2. found \in BOOLEAN /\ (t \notin memory => ~found)
    OBVIOUS
  <1> HIDE DEF found
  <1> QED
    BY <1>1, <1>2, Finished

(* Steps that concern no token. *)
Quiet(r) ==
    \/ \E w \in Written, n \in Name : Register(r, w, n)
    \/ Refused(r) \/ CreateFails(r) \/ Abandon(r)

LEMMA QuietStep ==
    ASSUME TypeInv, NEW r \in Request, Quiet(r)
    PROVE  /\ OthersSame(r) /\ TokensSame
           /\ reqs'[r].at \in {"create", "401", "409", "500", "gone"}
  <1>1. ASSUME NEW w \in Written, NEW n \in Name, Register(r, w, n)
        PROVE  /\ OthersSame(r) /\ TokensSame
               /\ reqs'[r].at \in {"create", "409"}
    <2>1. CASE Known(Trimmed(w, n))
      BY <1>1, <2>1, Replied DEF Register, TokensSame, process, history
    <2>2. CASE ~Known(Trimmed(w, n))
      BY <1>1, <2>2, Became DEF Register, TokensSame, process, history
    <2> QED
      BY <2>1, <2>2
  <1>2. CASE Refused(r)
    BY <1>2, Replied DEF Refused, TokensSame, process, history
  <1>3. CASE CreateFails(r)
    BY <1>3, Replied DEF CreateFails, TokensSame, process, history
  <1>4. CASE Abandon(r)
    BY <1>4, Replied DEF Abandon, TokensSame, process, history
  <1> QED
    BY <1>1, <1>2, <1>3, <1>4 DEF Quiet

(* A command that is sent, and what a request answered from memory does.   *)
LEMMA Accessed ==
    ASSUME TypeInv, NEW r \in Request, NEW op \in Commands, NEW t, NEW late,
           Access(r, op, t, late)
    PROVE  /\ OthersSame(r) /\ reqs'[r].late = late
           /\ \/ /\ failover
                 /\ reqs'[r].at \in {"200", "401"}
                 /\ op = "GET" /\ t \notin memory => reqs'[r].at = "401"
                 /\ held' = IF op = "SET" THEN held \cup {t} ELSE held
                 /\ ended' = IF op = "DEL" THEN ended \cup {t} ELSE ended
                 /\ memory' = After(memory, op, t)
              \/ /\ ~failover
                 /\ reqs'[r].at = "sent" /\ reqs'[r].op = op
                 /\ reqs'[r].token = t /\ ~reqs'[r].found
                 /\ UNCHANGED <<memory, held, ended>>
  <1>1. CASE failover
    BY <1>1, AnsweredInMemory DEF Access
  <1>2. CASE ~failover
    BY <1>2, Became DEF Access
  <1> QED
    BY <1>1, <1>2
(* A new token is asked to be stored, or is stored in memory. *)
Issuing(r) == (\E w \in Written : Login(r, w)) \/ Create(r)

LEMMA IssueStep ==
    ASSUME TypeInv, NEW r \in Request, Issuing(r)
    PROVE  \E t \in Token :
              /\ t.jti = signed /\ signed' = signed + 1
              /\ Access(r, "SET", t, FALSE)
              /\ UNCHANGED <<production, failover, restarts, redis, dead, asked>>
  <1>1. PICK who \in Account :
            Issue(r, who) /\ UNCHANGED <<production, failover, restarts, redis, dead, asked>>
    <2>1. ASSUME NEW w \in Written, Login(r, w)
          PROVE  \E u \in users : Issue(r, u)
      BY <2>1 DEF Login
    <2>2. CASE \E w \in Written : Login(r, w)
      <3>1. UNCHANGED <<production, failover, restarts, redis, dead, asked>>
        BY <2>2 DEF Login, process
      <3> QED
        BY <2>1, <2>2, <3>1 DEF TypeInv, TypeOK
    <2>3. CASE Create(r)
      <3>1. reqs[r].who \in Account
        BY <2>3, RequestShapes DEF Create, TypeInv, TypeOK
      <3> QED
        BY <2>3, <3>1 DEF Create, process
    <2> QED
      BY <2>2, <2>3 DEF Issuing
  <1> DEFINE t == [sub |-> who, jti |-> signed]
  <1>2. t \in Token /\ t.jti = signed
    BY <1>1, BoundAssumption DEF Issue, Token, TypeInv, TypeOK
  <1>3. signed' = signed + 1 /\ Access(r, "SET", t, FALSE)
    BY <1>1 DEF Issue
  <1> HIDE DEF t
  <1> QED
    BY <1>1, <1>2, <1>3

LEMMA RefreshStep ==
    ASSUME TypeInv, NEW r \in Request, NEW t \in held, Refresh(r, t)
    PROVE  /\ OthersSame(r) /\ TokensSame /\ production' = production
           /\ reqs'[r].late <=> t \in ended
           /\ \/ /\ failover /\ reqs'[r].at \in {"200", "401"}
                 /\ t \notin memory => reqs'[r].at = "401"
              \/ /\ ~failover /\ reqs'[r].at = "sent" /\ reqs'[r].op = "GET"
                 /\ reqs'[r].token = t /\ ~reqs'[r].found
  <1> DEFINE late == t \in ended
  <1>1. /\ Access(r, "GET", t, late)
        /\ UNCHANGED <<production, redis, asked, dead, signed, failover, restarts>>
    BY DEF Refresh, process
  <1> HIDE DEF late
  <1>2. /\ OthersSame(r) /\ UNCHANGED <<memory, held, ended>> /\ reqs'[r].late = late
        /\ \/ /\ failover /\ reqs'[r].at \in {"200", "401"}
              /\ t \notin memory => reqs'[r].at = "401"
           \/ /\ ~failover /\ reqs'[r].at = "sent" /\ reqs'[r].op = "GET"
              /\ reqs'[r].token = t /\ ~reqs'[r].found
    BY <1>1, Accessed DEF Commands, After
  <1> QED
    BY <1>1, <1>2 DEF TokensSame, late

LEMMA LogoutStep ==
    ASSUME TypeInv, NEW r \in Request, NEW t \in held, Logout(r, t)
    PROVE  /\ OthersSame(r) /\ ~reqs'[r].late
           /\ asked' = asked \cup {t}
           /\ UNCHANGED <<production, redis, held, dead, signed, failover, restarts>>
           /\ \/ /\ failover /\ reqs'[r].at \in {"200", "401"}
                 /\ ended' = ended \cup {t} /\ memory' = memory \ {t}
              \/ /\ ~failover /\ reqs'[r].at = "sent" /\ reqs'[r].op = "DEL"
                 /\ reqs'[r].token = t
                 /\ UNCHANGED <<memory, ended>>
  <1>1. /\ Access(r, "DEL", t, FALSE) /\ asked' = asked \cup {t}
        /\ UNCHANGED <<production, redis, dead, signed, failover, restarts>>
    BY DEF Logout, process
  <1> QED
    BY <1>1, Accessed DEF Commands, After

LEMMA RunsStep ==
    ASSUME TypeInv, NEW r \in Request, Runs(r)
    PROVE  /\ OthersSame(r)
           /\ reqs[r].at = "sent" /\ reqs'[r].at = "run"
           /\ reqs'[r].op = reqs[r].op /\ reqs'[r].token = reqs[r].token
           /\ reqs'[r].late = reqs[r].late /\ reqs[r].late \in BOOLEAN
           /\ reqs'[r].found <=> reqs[r].token \in redis
           /\ reqs[r].op \in Commands
           /\ redis' = After(redis, reqs[r].op, reqs[r].token)
           /\ UNCHANGED <<production, memory, held, asked, ended, dead, signed, failover, restarts>>
  <1> DEFINE found == reqs[r].token \in redis
  <1>1. reqs[r] \in Waiting /\ found \in BOOLEAN
    BY RequestShapes DEF Runs, TypeInv, TypeOK
  <1>2. Becomes(r, Moved(reqs[r], found))
    BY DEF Runs, Moved
  <1>3. OthersSame(r) /\ reqs'[r] = Moved(reqs[r], found)
    BY <1>2, Became
  <1> HIDE DEF found
  <1>4. /\ reqs'[r].at = "run" /\ reqs'[r].op = reqs[r].op
        /\ reqs'[r].token = reqs[r].token /\ reqs'[r].late = reqs[r].late
        /\ reqs'[r].found = found
    BY <1>1, <1>3, MovedOn
  <1>5. reqs[r].op \in Commands /\ reqs[r].late \in BOOLEAN
    BY <1>1, RequestShapes
  <1>6. /\ reqs[r].at = "sent" /\ redis' = After(redis, reqs[r].op, reqs[r].token)
        /\ UNCHANGED <<production, memory, held, asked, ended, dead, signed, failover, restarts>>
    BY DEF Runs, process, history
  <1> QED
    BY <1>3, <1>4, <1>5, <1>6 DEF found

LEMMA DataStep ==
    ASSUME TypeInv, NEW r \in Request, OnData(r)
    PROVE  /\ OthersSame(r)
           /\ reqs[r].at = "run" /\ reqs[r].op \in Commands
           /\ reqs'[r].at \in {"200", "401"} /\ reqs'[r].late = reqs[r].late
           /\ reqs[r].op = "GET" /\ ~reqs[r].found => reqs'[r].at = "401"
           /\ held' = IF reqs[r].op = "SET" THEN held \cup {reqs[r].token} ELSE held
           /\ ended' = IF reqs[r].op = "DEL" THEN ended \cup {reqs[r].token} ELSE ended
           /\ UNCHANGED <<production, redis, memory, asked, dead, signed, failover, restarts>>
  <1>1. reqs[r].at = "run" /\ reqs[r] \in Waiting
    BY RequestShapes DEF OnData, TypeInv, TypeOK
  <1>2. reqs[r].op \in Commands /\ reqs[r].found \in BOOLEAN
    BY <1>1, RequestShapes
  <1>3. Finish(r, reqs[r].op, reqs[r].token, reqs[r].late, reqs[r].found)
    BY DEF OnData
  <1>4. UNCHANGED <<production, redis, memory, asked, dead, signed, failover, restarts>>
    BY DEF OnData, process
  <1> QED
    BY <1>1, <1>2, <1>3, <1>4, Finished

LEMMA FailStep ==
    ASSUME TypeInv, NEW r \in Request, Fails(r)
    PROVE  /\ OthersSame(r)
           /\ reqs[r].at = "sent" /\ reqs[r].op \in Commands
           /\ reqs'[r].late = reqs[r].late
           /\ \/ /\ production /\ reqs'[r].at = "503"
                 /\ UNCHANGED <<failover, memory, held, ended>>
              \/ /\ ~production /\ failover'
                 /\ reqs'[r].at \in {"200", "401"}
                 /\ reqs[r].op = "GET" /\ reqs[r].token \notin memory => reqs'[r].at = "401"
                 /\ held' = IF reqs[r].op = "SET" THEN held \cup {reqs[r].token} ELSE held
                 /\ ended' = IF reqs[r].op = "DEL" THEN ended \cup {reqs[r].token} ELSE ended
                 /\ memory' = After(memory, reqs[r].op, reqs[r].token)
           /\ UNCHANGED <<production, redis, asked, dead, signed, restarts>>
  <1>1. reqs[r].at = "sent" /\ reqs[r] \in Waiting
    BY RequestShapes DEF Fails, TypeInv, TypeOK
  <1>2. reqs[r].op \in Commands
    BY <1>1, RequestShapes
  <1>3. UNCHANGED <<production, redis, asked, dead, signed, restarts>>
    BY DEF Fails
  <1>4. CASE production
    BY <1>1, <1>2, <1>3, <1>4, Replied DEF Fails
  <1>5. CASE ~production
    <2>1. InMemory(r, reqs[r].op, reqs[r].token, reqs[r].late) /\ failover'
      BY <1>5 DEF Fails
    <2>2. /\ OthersSame(r)
          /\ reqs'[r].at \in {"200", "401"} /\ reqs'[r].late = reqs[r].late
          /\ reqs[r].op = "GET" /\ reqs[r].token \notin memory => reqs'[r].at = "401"
          /\ held' = IF reqs[r].op = "SET" THEN held \cup {reqs[r].token} ELSE held
          /\ ended' = IF reqs[r].op = "DEL" THEN ended \cup {reqs[r].token} ELSE ended
          /\ memory' = After(memory, reqs[r].op, reqs[r].token)
      BY <1>2, <2>1, AnsweredInMemory
    <2> QED
      BY <1>1, <1>2, <1>3, <1>5, <2>1, <2>2
  <1> QED
    BY <1>4, <1>5

LEMMA CloseStep ==
    ASSUME TypeInv, NEW r \in Request, Closes(r)
    PROVE  /\ OthersSame(r) /\ TokensSame /\ production' = production
           /\ Live(r) /\ reqs'[r].at = "cut"
           /\ reqs'[r].op = reqs[r].op /\ reqs'[r].token = reqs[r].token
           /\ reqs'[r].late = reqs[r].late /\ reqs'[r].found = reqs[r].found
  <1>1. reqs[r] \in Waiting
    BY RequestShapes DEF Closes, TypeInv, TypeOK
  <1>2. Becomes(r, [reqs[r] EXCEPT !.at = "cut"])
    BY DEF Closes
  <1>3. OthersSame(r) /\ reqs'[r] = [reqs[r] EXCEPT !.at = "cut"]
    BY <1>2, Became
  <1>4. /\ reqs'[r].at = "cut" /\ reqs'[r].op = reqs[r].op
        /\ reqs'[r].token = reqs[r].token
        /\ reqs'[r].late = reqs[r].late /\ reqs'[r].found = reqs[r].found
    BY <1>1, <1>3 DEF Waiting
  <1>5. TokensSame /\ production' = production /\ Live(r)
    BY DEF Closes, TokensSame, process, history, Live
  <1> QED
    BY <1>3, <1>4, <1>5
(* The next-state relation in these terms. *)
LEMMA StepKinds ==
    ASSUME [Next]_vars
    PROVE  \/ \E r \in Request : \/ Quiet(r) \/ Issuing(r) \/ Runs(r) \/ OnData(r)
                                 \/ Fails(r) \/ Closes(r)
                                 \/ \E t \in held : Refresh(r, t) \/ Logout(r, t)
           \/ Restart
           \/ \E t \in held : Expires(t)
           \/ UNCHANGED vars
  BY DEF Next, Client, Server, Quiet, Issuing

-----------------------------------------------------------------------------
(* A token is signed once (issueTokenPair): while it is being stored,      *)
(* nobody has it, and no other request does.                               *)
THEOREM TokensAreFresh == Spec => []Fresh
  <1>1. Init => Fresh
    <2>1. Init => \A r \in Request : reqs[r].at = "gone"
      BY DEF Init
    <2> QED
      BY <2>1 DEF Init, Fresh, AtRedis, Setting, Live
  <1>2. TypeInv /\ Fresh /\ [Next]_vars => Fresh'
    <2> SUFFICES ASSUME TypeInv, Fresh, [Next]_vars
                 PROVE  Fresh'
      OBVIOUS
    <2>0. /\ held \subseteq Token /\ signed \in Nat
          /\ \A t \in Token : t.jti \in Nat
      BY BoundAssumption DEF TypeInv, TypeOK, Token
    <2>1. ASSUME NEW r \in Request, Quiet(r)
          PROVE  Fresh'
      <3>1. OthersSame(r) /\ TokensSame /\ ~AtRedis(r)' /\ ~Setting(r)'
        BY <2>1, QuietStep DEF AtRedis, Setting, Live
      <3> QED
        BY <3>1 DEF OthersSame, TokensSame, Fresh, AtRedis, Setting, Live
    <2>2. ASSUME NEW r \in Request, Issuing(r)
          PROVE  Fresh'
      <3>1. PICK t \in Token : /\ t.jti = signed /\ signed' = signed + 1
                               /\ Access(r, "SET", t, FALSE)
        BY <2>2, IssueStep
      <3>2. /\ OthersSame(r)
            /\ \/ ~AtRedis(r)' /\ ~Setting(r)' /\ held' = held \cup {t}
               \/ reqs'[r].at = "sent" /\ reqs'[r].token = t /\ held' = held
        BY <3>1, Accessed DEF Commands, AtRedis, Setting, Live
      <3>3. t \notin held /\ \A q \in Request : Setting(q) => reqs[q].token # t
        BY <2>0, <3>1 DEF Fresh, Setting, Live, AtRedis
      <3>4. \A q \in Request : AtRedis(q) => reqs[q].token \in Token
        BY RequestShapes DEF TypeInv, TypeOK, AtRedis
      <3> QED
        BY <2>0, <3>1, <3>2, <3>3, <3>4 DEF Fresh, OthersSame, AtRedis, Setting, Live
    <2>3. ASSUME NEW r \in Request, NEW t \in held, Refresh(r, t) \/ Logout(r, t)
          PROVE  Fresh'
      <3>1. /\ OthersSame(r) /\ held' = held /\ signed' = signed
            /\ ~Setting(r)'
            /\ AtRedis(r)' => reqs'[r].token = t
        BY <2>3, RefreshStep, LogoutStep DEF TokensSame, AtRedis, Setting, Live
      <3> QED
        BY <3>1 DEF Fresh, OthersSame, AtRedis, Setting, Live
    <2>4. ASSUME NEW r \in Request, Runs(r)
          PROVE  Fresh'
      BY <2>4, RunsStep DEF Fresh, OthersSame, AtRedis, Setting, Live
    <2>5. ASSUME NEW r \in Request, OnData(r)
          PROVE  Fresh'
      <3>1. OthersSame(r) /\ signed' = signed /\ ~AtRedis(r)' /\ ~Setting(r)' /\ AtRedis(r)
        BY <2>5, DataStep DEF AtRedis, Setting, Live
      <3>2. held' = held \/ (Setting(r) /\ held' = held \cup {reqs[r].token})
        BY <2>5, DataStep DEF Setting, Live
      <3> QED
        BY <3>1, <3>2 DEF Fresh, OthersSame, AtRedis, Setting, Live
    <2>6. ASSUME NEW r \in Request, Fails(r)
          PROVE  Fresh'
      <3>1. OthersSame(r) /\ signed' = signed /\ ~AtRedis(r)' /\ ~Setting(r)' /\ AtRedis(r)
        BY <2>6, FailStep DEF AtRedis, Setting, Live
      <3>2. held' = held \/ (Setting(r) /\ held' = held \cup {reqs[r].token})
        BY <2>6, FailStep DEF Setting, Live
      <3> QED
        BY <3>1, <3>2 DEF Fresh, OthersSame, AtRedis, Setting, Live
    <2>7. ASSUME NEW r \in Request, Closes(r)
          PROVE  Fresh'
      BY <2>7, CloseStep DEF Fresh, OthersSame, TokensSame, AtRedis, Setting, Live
    <2>8. CASE Restart
      <3>1. \A r \in Request : reqs'[r].at = "gone"
        BY <2>8 DEF Restart
      <3> QED
        BY <2>8, <3>1 DEF Restart, Fresh, AtRedis, Setting, Live, history
    <2>9. ASSUME NEW t \in held, Expires(t)
          PROVE  Fresh'
      BY <2>9 DEF Expires, Fresh, AtRedis, Setting, Live, history
    <2>10. CASE UNCHANGED vars
      BY <2>10 DEF vars, Fresh, AtRedis, Setting, Live, history
    <2> QED
      BY <2>1, <2>2, <2>3, <2>4, <2>5, <2>6, <2>7, <2>8, <2>9, <2>10, StepKinds
  <1> QED
    BY <1>1, <1>2, TypesKept, PTL DEF Spec
-----------------------------------------------------------------------------
(* In production a token that was answered stays in Redis until it expires *)
(* or a logout for it came (setRefreshToken): the invariant adds that a    *)
(* production process never leaves Redis, and that the token is there from *)
(* the moment the SET has run.                                             *)
KeptInv == Kept /\ TokensAreKept

LEMMA KeptHolds == Spec => []KeptInv
  <1>1. Init => KeptInv
    <2>1. Init => \A r \in Request : reqs[r].at = "gone"
      BY DEF Init
    <2> QED
      BY <2>1 DEF Init, KeptInv, Kept, TokensAreKept
  <1>2. TypeInv /\ KeptInv /\ [Next]_vars => KeptInv'
    <2> SUFFICES ASSUME TypeInv, KeptInv, [Next]_vars
                 PROVE  KeptInv'
      OBVIOUS
    <2> USE DEF KeptInv, Kept, TokensAreKept
    <2>1. ASSUME NEW r \in Request, Quiet(r)
          PROVE  KeptInv'
      <3>1. production' = production
        BY <2>1 DEF Quiet, Register, Refused, CreateFails, Abandon, process
      <3> QED
        BY <2>1, <3>1, QuietStep DEF OthersSame, TokensSame
    <2>2. ASSUME NEW r \in Request, Issuing(r)
          PROVE  KeptInv'
      <3>1. PICK t \in Token :
               /\ Access(r, "SET", t, FALSE)
               /\ UNCHANGED <<production, failover, restarts, redis, dead, asked>>
        BY <2>2, IssueStep
      <3>2. /\ OthersSame(r) /\ reqs'[r].at # "run"
            /\ failover \/ held' = held
        BY <3>1, Accessed DEF Commands
      <3> QED
        BY <3>1, <3>2 DEF OthersSame
    <2>3. ASSUME NEW r \in Request, NEW t \in held, Refresh(r, t)
          PROVE  KeptInv'
      BY <2>3, RefreshStep DEF OthersSame, TokensSame
    <2>4. ASSUME NEW r \in Request, NEW t \in held, Logout(r, t)
          PROVE  KeptInv'
      BY <2>4, LogoutStep DEF OthersSame
    <2>5. ASSUME NEW r \in Request, Runs(r)
          PROVE  KeptInv'
      <3>1. CASE reqs[r].op = "DEL"
        <4>1. reqs[r].token \in asked /\ redis' = redis \ {reqs[r].token}
          BY <2>5, <3>1, RunsStep DEF TypeInv, UsesHeld, AtRedis, After
        <4> QED
          BY <2>5, <3>1, <4>1, RunsStep DEF OthersSame
      <3>2. CASE reqs[r].op # "DEL"
        <4>1. redis \subseteq redis' /\ (reqs[r].op = "SET" => reqs[r].token \in redis')
          BY <2>5, <3>2, RunsStep DEF After, Commands
        <4> QED
          BY <2>5, <4>1, RunsStep DEF OthersSame
      <3> QED
        BY <3>1, <3>2
    <2>6. ASSUME NEW r \in Request, OnData(r)
          PROVE  KeptInv'
      BY <2>6, DataStep DEF OthersSame
    <2>7. ASSUME NEW r \in Request, Fails(r)
          PROVE  KeptInv'
      BY <2>7, FailStep DEF OthersSame
    <2>8. ASSUME NEW r \in Request, Closes(r)
          PROVE  KeptInv'
      BY <2>8, CloseStep DEF OthersSame, TokensSame
    <2>9. CASE Restart
      <3>1. \A r \in Request : reqs'[r].at = "gone"
        BY <2>9 DEF Restart
      <3> QED
        BY <2>9, <3>1 DEF Restart, history
    <2>10. ASSUME NEW t \in held, Expires(t)
           PROVE  KeptInv'
      BY <2>10 DEF Expires, history, process
    <2>11. CASE UNCHANGED vars
      BY <2>11 DEF vars, history, process
    <2> QED
      BY <2>1, <2>2, <2>3, <2>4, <2>5, <2>6, <2>7, <2>8, <2>9, <2>10, <2>11, StepKinds
  <1> QED
    BY <1>1, <1>2, TypesKept, PTL DEF Spec

(* In production an answered token is kept, whatever fails in between.     *)
THEOREM TokensKept == Spec => []TokensAreKept
  BY KeptHolds, PTL DEF KeptInv

-----------------------------------------------------------------------------
(* A refresh that comes after its logout was answered is not granted       *)
(* (invalidateRefreshToken, rotateAccessToken), also while the process     *)
(* turns from Redis to its memory.  The token was answered before, so no   *)
(* SET for it is under way any more (Fresh): once deleted it does not come *)
(* back, and it is deleted from the store that a refresh will ask.         *)
LogoutInv == MemoryIsSecond /\ Deleted /\ LoggedOut /\ LogoutIsFinal

THEOREM LogoutFinal == Spec => []LogoutIsFinal
  <1>1. Init => LogoutInv
    <2>1. Init => \A r \in Request : reqs[r].at = "gone"
      BY DEF Init
    <2> QED
      BY <2>1 DEF Init, LogoutInv, MemoryIsSecond, Deleted, LoggedOut, LogoutIsFinal, AtRedis
  <1>2. TypeInv /\ Fresh /\ KeptInv /\ LogoutInv /\ [Next]_vars => LogoutInv'
    <2> SUFFICES ASSUME TypeInv, Fresh, KeptInv, LogoutInv, [Next]_vars
                 PROVE  LogoutInv'
      OBVIOUS
    <2> USE DEF LogoutInv, MemoryIsSecond, Deleted, LoggedOut, AtRedis
    <2>0. /\ ended \subseteq held
          /\ \A q \in Request : AtRedis(q) =>
                reqs[q].op \in Commands /\ (reqs[q].op # "SET" => reqs[q].token \in held)
      BY RequestShapes DEF TypeInv, TypeOK, UsesHeld, Commands
    (* LogoutIsFinal without the set that a request belongs to. *)
    <2>A. ASSUME (production \/ restarts = 0)' =>
                     \A q \in Request : reqs'[q].at = "200" => ~reqs'[q].late
          PROVE  LogoutIsFinal'
      BY <2>A DEF LogoutIsFinal
    <2>B. production \/ restarts = 0 =>
              \A q \in Request : reqs[q].at = "200" => ~reqs[q].late
      <3>1. \A q \in Request : reqs[q].at = "200" => reqs[q] \in Answered
        BY RequestShapes DEF TypeInv, TypeOK
      <3> QED
        BY <3>1 DEF LogoutIsFinal
    <2>1. ASSUME NEW r \in Request, Quiet(r)
          PROVE  LogoutInv'
      <3>1. production' = production
        BY <2>1 DEF Quiet, Register, Refused, CreateFails, Abandon, process
      <3> QED
        BY <2>1, <3>1, <2>A, <2>B, QuietStep DEF OthersSame, TokensSame
    <2>2. ASSUME NEW r \in Request, Issuing(r)
          PROVE  LogoutInv'
      <3>1. PICK t \in Token :
               /\ t.jti = signed
               /\ Access(r, "SET", t, FALSE)
               /\ UNCHANGED <<production, failover, restarts, redis, dead, asked>>
        BY <2>2, IssueStep
      <3>2. /\ OthersSame(r) /\ ~reqs'[r].late /\ ended' = ended
            /\ \/ failover /\ reqs'[r].at \in {"200", "401"} /\ memory' = memory \cup {t}
               \/ /\ ~failover /\ reqs'[r].at = "sent" /\ reqs'[r].op = "SET"
                  /\ memory' = memory
        BY <3>1, Accessed DEF Commands, After
      <3>3. t \notin held
        BY <3>1 DEF Fresh, TypeInv, TypeOK
      <3> QED
        BY <2>0, <2>A, <2>B, <3>1, <3>2, <3>3 DEF OthersSame
    <2>3. ASSUME NEW r \in Request, NEW t \in held, Refresh(r, t)
          PROVE  LogoutInv'
      BY <2>3, <2>A, <2>B, RefreshStep DEF OthersSame, TokensSame
    <2>4. ASSUME NEW r \in Request, NEW t \in held, Logout(r, t)
          PROVE  LogoutInv'
      BY <2>4, <2>A, <2>B, LogoutStep DEF OthersSame
    <2>5. ASSUME NEW r \in Request, Runs(r)
          PROVE  LogoutInv'
      <3>1. reqs[r].op = "SET" => reqs[r].token \notin held
        BY <2>5, RunsStep DEF Fresh, Setting, Live
      <3>2. \A t \in held : t \in redis' => t \in redis
        BY <2>5, <3>1, RunsStep DEF After, Commands
      <3>3. reqs[r].op = "DEL" => reqs[r].token \notin redis'
        BY <2>5, RunsStep DEF After
      <3> QED
        BY <2>5, <2>0, <2>A, <2>B, <3>2, <3>3, RunsStep DEF OthersSame
    <2>6. ASSUME NEW r \in Request, OnData(r)
          PROVE  LogoutInv'
      BY <2>6, <2>0, <2>A, <2>B, DataStep DEF OthersSame
    <2>7. ASSUME NEW r \in Request, Fails(r)
          PROVE  LogoutInv'
      <3>1. reqs[r].op = "SET" => reqs[r].token \notin held
        BY <2>7, FailStep DEF Fresh, Setting, Live
      <3>2. \A t \in held : t \in memory' => t \in memory
        BY <2>7, <3>1, FailStep DEF After, Commands
      <3>3. reqs[r].op = "DEL" => memory' = memory \/ reqs[r].token \notin memory'
        BY <2>7, FailStep DEF After
      <3> QED
        BY <2>7, <2>0, <2>A, <2>B, <3>2, <3>3, FailStep DEF OthersSame
    <2>8. ASSUME NEW r \in Request, Closes(r)
          PROVE  LogoutInv'
      BY <2>8, <2>A, <2>B, CloseStep DEF OthersSame, TokensSame, Live
    <2>9. CASE Restart
      <3>1. \A r \in Request : reqs'[r].at = "gone"
        BY <2>9 DEF Restart
      <3>2. (production \/ restarts = 0)' => production /\ ~failover
        BY <2>9 DEF Restart, TypeInv, TypeOK, KeptInv, Kept
      <3>3. memory' = {} /\ redis' = redis /\ ended' = ended /\ ~failover'
        BY <2>9 DEF Restart, history
      <3> QED
        BY <2>A, <3>1, <3>2, <3>3
    <2>10. ASSUME NEW t \in held, Expires(t)
           PROVE  LogoutInv'
      BY <2>10, <2>A, <2>B DEF Expires, history, process
    <2>11. CASE UNCHANGED vars
      BY <2>11, <2>A, <2>B DEF vars, history, process
    <2> QED
      BY <2>1, <2>2, <2>3, <2>4, <2>5, <2>6, <2>7, <2>8, <2>9, <2>10, <2>11, StepKinds
  <1> QED
    BY <1>1, <1>2, TypesKept, TokensAreFresh, KeptHolds, PTL DEF Spec, LogoutInv
=============================================================================
