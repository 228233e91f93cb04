---------------------------- MODULE LogicServer -----------------------------
(***************************************************************************)
(* The message path of the logic server: LogicServiceImpl::Login, SendMsg  *)
(* and SyncMsg (logic_server/main.cc) over the tables t_user, t_friend and *)
(* t_chat_msg (pool_db_client.cc) and the session keys in Redis            *)
(* (pool_redis_client.cc).                                                 *)
(*                                                                         *)
(* Every statement sent to PostgreSQL or Redis is one action, because      *)
(* handlers of other gateways run in between; the handler serving gateway  *)
(* g keeps its place in h[g].  With Faulty a statement can fail: no        *)
(* connection from the pool, an error reply, or a connection lost before   *)
(* or after the statement took effect.                                     *)
(*                                                                         *)
(* The content of a message is put between quotes in the INSERT as it is   *)
(* (pool_db_client.cc:38-39).  A content that has a quote in it ends the   *)
(* literal, and what is executed is not the statement the code meant:      *)
(* Quoted are such contents, OtherRows what else the table may then have.  *)
(***************************************************************************)
EXTENDS Wire

CONSTANTS
    NoGw,           \* no Redis value
    LocalGw,        \* the gateway that listens at 0.0.0.0:50052, the address
                    \* written by Login (main.cc:71)
    UserPassword,   \* t_user: the password of each user
    NoPassword,     \* the empty string GetUserPassword returns on failure
    Quoted,         \* contents with a quote in them
    OtherRows,      \* rows a statement broken by its content may leave
    Friends,        \* t_friend: pairs <<uid, friend_uid>>
    SeedRows,       \* rows of t_chat_msg at the start
    SeedRoutes,     \* users whose documented route key is set at the start
    Limit,          \* LIMIT of GetofflineMsgs (100 in the code)
    Epoch,          \* the system clock at the start, in nanoseconds since
                    \* 1970: far above any serial key
    MaxClock,       \* bound: the last reading of the system clock
    Faulty          \* statements may fail and the process may crash

ASSUME LogicAssumption ==
    /\ LocalGw \in Gateways
    /\ NoGw \notin Gateways
    /\ UserPassword \in [Uids -> Tokens \cup {NoPassword}]
    /\ Quoted \subseteq Bodies
    /\ OtherRows \subseteq ChatRow
    /\ Friends \subseteq Uids \X Uids
    /\ SeedRows \subseteq ChatRow
    /\ IsFiniteSet(SeedRows)
    /\ \A r \in SeedRows : <<r.from, r.to>> \in Friends
    /\ SeedRoutes \subseteq Uids
    /\ Limit \in Nat \ {0}
    /\ Epoch \in Nat
    /\ MaxClock \in Nat
    /\ \A r \in SeedRows : r.id <= Cardinality(SeedRows)
    /\ \A r \in SeedRows : r.id < Epoch /\ r.mid < Epoch
    /\ Faulty \in BOOLEAN

VARIABLES
    h,          \* h[g]: the handler serving gateway g: its next step and
                \* the local variable msg_id of SendMsg
    rows,       \* t_chat_msg
    nextId,     \* the next value of its serial key
    redis,      \* redis[k][u]: the value of key k followed by u
    clock,      \* system_clock::now()
    proved,     \* history: users whose password a Login has presented
    unsaved     \* history: messages SaveMessage has returned false for

dbVars == <<rows, nextId, redis, proved, unsaved>>
logicVars == <<h, rows, nextId, redis, clock, proved, unsaved>>

(* The key Login writes (main.cc:70) and the key SendMsg reads             *)
(* (main.cc:101); the decimal uid follows.                                 *)
LoginKey == "IM:USER:SESS"
RouteKey == "IM:USER:SESS:"

Handler == [pc  : {"start", "session", "insert", "route", "pushing"},
            mid : Nat]

AtStart == [pc |-> "start", mid |-> 0]

(* A message as SaveMessage is given it.                                   *)
Entry == [mid : Nat, from : AnyUid, to : Uids, body : Bodies]

LogicInit ==
    /\ h = [g \in Gateways |-> AtStart]
    /\ rows = SeedRows
    /\ nextId = Cardinality(SeedRows) + 1
    /\ redis = [k \in {LoginKey, RouteKey} |->
                  [u \in Uids |-> IF k = RouteKey /\ u \in SeedRoutes
                                  THEN LocalGw ELSE NoGw]]
    /\ clock = Epoch
    /\ proved = {}
    /\ unsaved = {}

-----------------------------------------------------------------------------
(* The handler serving g is about to do step where of operation op.        *)
Serving(g, op, where) ==
    /\ rpc[g].st = "call"
    /\ rpc[g].req.op = op
    /\ h[g].pc = where

(* The handler continues at step where with the given msg_id.              *)
Goto(g, where, mid) ==
    /\ h' = [h EXCEPT ![g] = [pc |-> where, mid |-> mid]]
    /\ UNCHANGED rpc

(* The handler returns Status::OK with the given reply.                    *)
Answer(g, err, mid, msgs) ==
    /\ rpc' = [rpc EXCEPT ![g] =
                 Ok(@.req, [err |-> err, msg_id |-> mid, msgs |-> msgs])]
    /\ h' = [h EXCEPT ![g] = AtStart]

(* What GetUserPassword may return: the stored password, or the empty      *)
(* string if the query fails.                                              *)
GetUserPassword(u) ==
    {UserPassword[u]} \cup (IF Faulty THEN {NoPassword} ELSE {})

(* What AreFriends may return: a failed query counts as "not friends".     *)
AreFriends(u, v) ==
    {(<<u, v>> \in Friends)} \cup (IF Faulty THEN {FALSE} ELSE {})

(* What Get of the Redis client may return: no value if the command fails. *)
Get(key, u) == {redis[key][u]} \cup (IF Faulty THEN {NoGw} ELSE {})

(* Set of the Redis client.                                                *)
Set(key, u, gw) ==
    \/ redis' = [redis EXCEPT ![key][u] = gw]
    \/ Faulty /\ UNCHANGED redis

(* The token of a login is the password of the user it names.              *)
Proves(req) ==
    UserPassword[req.uid] # NoPassword /\ req.token = UserPassword[req.uid]

(* Faulty variant of LoginAuth: the empty password is compared, too.       *)
LoginAuthEmptyMatches(g) ==
    LET req == rpc[g].req IN
    /\ Serving(g, "Login", "start")
    /\ \E pw \in GetUserPassword(req.uid) :
          \/ pw = req.token /\ Goto(g, "session", 0)
          \/ pw # req.token /\ Answer(g, "ERR_AUTH_FAIL", 0, {})
    /\ proved' = proved \cup {u \in {req.uid} : Proves(req)}
    /\ UNCHANGED <<rows, nextId, redis, clock, unsaved, pushq>>

(* Login: the password is compared with the token.  The empty password,    *)
(* which is also what a failed query gives, never matches: not even the    *)
(* empty token.                                                            *)
LoginAuth(g) ==
    LET req == rpc[g].req IN
    /\ Serving(g, "Login", "start")
    /\ \E pw \in GetUserPassword(req.uid) :
          \/ /\ pw # NoPassword
             /\ pw = req.token
             /\ Goto(g, "session", 0)
          \/ /\ pw = NoPassword \/ pw # req.token
             /\ Answer(g, "ERR_AUTH_FAIL", 0, {})
    /\ proved' = proved \cup {u \in {req.uid} : Proves(req)}
    /\ UNCHANGED <<rows, nextId, redis, clock, unsaved, pushq>>

(* Login: the route is written to Redis; the reply is success even if the  *)
(* write failed.                                                           *)
LoginSession(g) ==
    /\ Serving(g, "Login", "session")
    /\ Set(LoginKey, rpc[g].req.uid, LocalGw)
    /\ Answer(g, "ERR_SUCCESS", 0, {})
    /\ UNCHANGED <<rows, nextId, clock, proved, unsaved, pushq>>

(* Faulty variant of SendCheck: the friendship is not looked up.           *)
SendCheckNothing(g) ==
    /\ Serving(g, "SendMsg", "start")
    /\ Goto(g, "insert", clock)
    /\ UNCHANGED <<clock, dbVars, pushq>>

(* Faulty variant of SendCheck: the message is pushed before it is saved.  *)
SendCheckThenRoute(g) ==
    /\ Serving(g, "SendMsg", "start")
    /\ <<rpc[g].req.from, rpc[g].req.to>> \in Friends
    /\ Goto(g, "route", clock)
    /\ UNCHANGED <<clock, dbVars, pushq>>

(* SendMsg: the check of the sender's friend list, and the clock reading   *)
(* that becomes the msg_id.                                                *)
SendCheck(g) ==
    /\ Serving(g, "SendMsg", "start")
    /\ \E friends \in AreFriends(rpc[g].req.from, rpc[g].req.to) :
          \/ friends /\ Goto(g, "insert", clock)
          \/ ~friends /\ Answer(g, "ERR_NOT_FRIEND", 0, {})
    /\ UNCHANGED <<clock, dbVars, pushq>>

(* The message the handler serving g is to save.                           *)
ToSave(g) ==
    LET req == rpc[g].req IN
    [mid |-> h[g].mid, from |-> req.from, to |-> req.to, body |-> req.body]

(* The INSERT as it is meant: it takes effect or not, and is reported      *)
(* successful or not; it is not reported successful without effect.        *)
InsertMsg(m, saved) ==
    \/ /\ rows' = rows \cup {[id |-> nextId, mid |-> m.mid, from |-> m.from,
                              to |-> m.to, body |-> m.body]}
       /\ nextId' = nextId + 1
       /\ saved \/ Faulty
    \/ ~saved /\ Faulty /\ UNCHANGED <<rows, nextId>>

(* The INSERT broken by its content: a syntax error, or a statement that   *)
(* leaves any of the rows there were and any others, reported either way.  *)
OtherStatement ==
    /\ rows' \in SUBSET (rows \cup OtherRows)
    /\ nextId' \in {nextId, nextId + 1}

(* SendMsg: SaveMessage.  The result is only logged.                       *)
SaveMessage(g) ==
    LET m == ToSave(g) IN
    /\ Serving(g, "SendMsg", "insert")
    /\ \E saved \in BOOLEAN :
          /\ \/ m.body \notin Quoted /\ InsertMsg(m, saved)
             \/ m.body \in Quoted /\ OtherStatement
          /\ unsaved' = unsaved \cup {x \in {m} : ~saved}
    /\ Goto(g, "route", h[g].mid)
    /\ UNCHANGED <<redis, clock, proved, pushq>>

(* The PushMsg call of the handler serving g to the gateway found.  The    *)
(* packet holds the message as the client sent it: the msg_id made by the  *)
(* server is not put in.                                                   *)
PackPushMsg(g, gw) ==
    LET req == rpc[g].req IN
    [by |-> g, gw |-> gw, mid |-> h[g].mid, from |-> req.from,
     to |-> req.to, body |-> req.body]

(* Faulty variant of LookupRoute: the value is used without has_value().   *)
LookupRouteUnchecked(g) ==
    /\ Serving(g, "SendMsg", "route")
    /\ \E gw \in Get(RouteKey, rpc[g].req.to) :
          /\ Goto(g, "pushing", h[g].mid)
          /\ pushq' = pushq \cup {PackPushMsg(g, gw)}
    /\ UNCHANGED <<clock, dbVars>>

(* SendMsg: the receiver's gateway is looked up in Redis.  If it is found  *)
(* the message is pushed there, otherwise the handler is done.             *)
LookupRoute(g) ==
    /\ Serving(g, "SendMsg", "route")
    /\ \E gw \in Get(RouteKey, rpc[g].req.to) :
          \/ /\ gw # NoGw
             /\ Goto(g, "pushing", h[g].mid)
             /\ pushq' = pushq \cup {PackPushMsg(g, gw)}
          \/ /\ gw = NoGw
             /\ Answer(g, "ERR_SUCCESS", h[g].mid, {})
             /\ UNCHANGED pushq
    /\ UNCHANGED <<clock, dbVars>>

(* Faulty variant of PushReturns: the call to the gateway has no deadline. *)
PushReturnsNoDeadline(g) ==
    LET mine == {p \in pushq : p.by = g /\ p.mid = h[g].mid} IN
    /\ Serving(g, "SendMsg", "pushing")
    /\ mine = {}
    /\ Answer(g, "ERR_SUCCESS", h[g].mid, {})
    /\ UNCHANGED <<clock, dbVars, pushq>>

(* SendMsg: PushMsg has returned, or its deadline of two seconds is over   *)
(* and the request is lost or still on its way.  The handler replies       *)
(* success in every case.                                                  *)
PushReturns(g) ==
    LET mine == {p \in pushq : p.by = g /\ p.mid = h[g].mid} IN
    /\ Serving(g, "SendMsg", "pushing")
    /\ pushq' \in {pushq, pushq \ mine}
    /\ Answer(g, "ERR_SUCCESS", h[g].mid, {})
    /\ UNCHANGED <<clock, dbVars>>

(* Faulty variant of OfflineRows: the rows the user has sent, too.         *)
OfflineRowsBothWays(uid, last) ==
    LET found == {r \in rows : (r.to = uid \/ r.from = uid) /\ r.id > last}
    IN  {r \in found : Cardinality({q \in found : q.id < r.id}) < Limit}

(* GetofflineMsgs: the first Limit rows for the user after the cursor.     *)
OfflineRows(uid, last) ==
    LET found == {r \in rows : r.to = uid /\ r.id > last}
    IN  {r \in found : Cardinality({q \in found : q.id < r.id}) < Limit}

(* The rows as ChatMsg; the msg_id field is never set.                     *)
ToChatMsg(r) ==
    [id |-> r.id, msg_id |-> 0, from |-> r.from, to |-> r.to, body |-> r.body]

(* SyncMsg: one query; a failed query is an empty list and success.        *)
SyncMsg(g) ==
    LET req == rpc[g].req IN
    /\ Serving(g, "SyncMsg", "start")
    /\ \/ Answer(g, "ERR_SUCCESS", 0,
                 {ToChatMsg(r) : r \in OfflineRows(req.uid, req.last)})
       \/ Faulty /\ Answer(g, "ERR_SUCCESS", 0, {})
    /\ UNCHANGED <<clock, dbVars, pushq>>

(* Faulty variant of LogicCrash: the calls are served again from the start *)
(* by the new process.                                                     *)
LogicCrashRetries ==
    /\ Faulty
    /\ \E g \in Gateways : rpc[g].st = "call"
    /\ h' = [g \in Gateways |-> AtStart]
    /\ UNCHANGED <<clock, dbVars, rpc, pushq>>

(* The process dies and is started again: its handlers are gone, the calls *)
(* under way fail at the gateways, the databases keep what was done.       *)
LogicCrash ==
    /\ Faulty
    /\ \E g \in Gateways : rpc[g].st = "call"
    /\ rpc' = [g \in Gateways |-> IF rpc[g].st = "call"
                                  THEN Fail(rpc[g].req) ELSE rpc[g]]
    /\ h' = [g \in Gateways |-> AtStart]
    /\ UNCHANGED <<clock, dbVars, pushq>>

(* Time passes. *)
Tick ==
    /\ clock < MaxClock
    /\ clock' = clock + 1
    /\ UNCHANGED <<h, dbVars, rpc, pushq>>

HandlerStep(g) ==
    \/ LoginAuth(g) \/ LoginSession(g)
    \/ SendCheck(g) \/ SaveMessage(g) \/ LookupRoute(g) \/ PushReturns(g)
    \/ SyncMsg(g)

LogicNext ==
    \/ \E g \in Gateways : HandlerStep(g)
    \/ LogicCrash
    \/ Tick

-----------------------------------------------------------------------------
(* The type invariant of the logic server.                                 *)
LogicTypeOK ==
    /\ h \in [Gateways -> Handler]
    /\ rows \in SUBSET ChatRow
    /\ nextId \in Nat
    /\ redis \in [{LoginKey, RouteKey} -> [Uids -> Gateways \cup {NoGw}]]
    /\ clock \in Nat
    /\ proved \in SUBSET Uids
    /\ unsaved \in SUBSET Entry

(* Messages are stored only from a user to a user who is in the sender's   *)
(* friend list ("You must be friend to send message", main.cc:88).         *)
StoredBetweenFriends == \A r \in rows : <<r.from, r.to>> \in Friends

(* "0x1004 MsgSendRes: ACK from the server (receipt)" (readme.md:75): a     *)
(* successful reply is sent only for a message that is stored, so that the *)
(* receiver can still get it later.                                        *)
AckImpliesStored ==
    \A g \in Gateways :
        (rpc[g].st = "ok" /\ rpc[g].req.op = "SendMsg"
            /\ rpc[g].res.err = "ERR_SUCCESS") =>
        \E r \in rows : /\ r.mid = rpc[g].res.msg_id
                        /\ r.from = rpc[g].req.from /\ r.to = rpc[g].req.to

=============================================================================
