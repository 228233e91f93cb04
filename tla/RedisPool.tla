----------------------------- MODULE RedisPool ------------------------------
(***************************************************************************)
(* The Redis connection pool (redis_pool.cc).  Its constructor, Acquire    *)
(* and Release are those of DbPool, so the actions of ConnPool are used    *)
(* for them.  What differs is CreateConn: with a password the context that *)
(* redisConnect has opened is sent through AUTH before it is returned, and *)
(* is freed if AUTH fails.  Without a password this is DbPool.             *)
(*                                                                         *)
(* opened follows the calls of redisConnect and redisFree.                 *)
(***************************************************************************)
EXTENDS ConnPool

VARIABLES
    password,   \* password_ is not empty
    raw,        \* raw[t]: the context thread t has connected and not yet
                \* authenticated
    opened      \* contexts opened and not yet freed

redisVars == <<vars, password, raw, opened>>

Unauthenticated == {raw[t] : t \in Threads} \ {NoConn}

RedisInit ==
    /\ Init
    /\ password \in BOOLEAN
    /\ raw = [t \in Threads |-> NoConn]
    /\ opened = Range(idle)

-----------------------------------------------------------------------------
(* redisConnect has succeeded and AUTH is sent.                            *)
Connect(t) ==
    /\ password
    /\ pc[t] = "creating"
    /\ raw[t] = NoConn
    /\ \E c \in Conns \ opened :
          raw' = [raw EXCEPT ![t] = c] /\ opened' = opened \cup {c}
    /\ UNCHANGED <<vars, password>>

(* AUTH is accepted: CreateConn returns the context.                       *)
AuthOk(t) ==
    /\ raw[t] # NoConn
    /\ CreateOk(t)
    /\ conn'[t] = raw[t]
    /\ raw' = [raw EXCEPT ![t] = NoConn]
    /\ UNCHANGED <<password, opened>>

(* Faulty variant of ConnectOrAuthFails: the context is not freed.         *)
AuthFailsLeaks(t) ==
    /\ CreateFails(t)
    /\ raw' = [raw EXCEPT ![t] = NoConn]
    /\ UNCHANGED <<password, opened>>

(* redisConnect fails, or AUTH gets an error or no reply and the context   *)
(* is freed: CreateConn returns nullptr.                                   *)
ConnectOrAuthFails(t) ==
    /\ CreateFails(t)
    /\ raw' = [raw EXCEPT ![t] = NoConn]
    /\ opened' = opened \ {raw[t]}
    /\ UNCHANGED password

(* CreateConn without a password.                                          *)
ConnectNoAuth(t) ==
    /\ ~password
    /\ CreateOk(t)
    /\ opened' = opened \cup {conn'[t]}
    /\ UNCHANGED <<password, raw>>

(* A step of Acquire under the mutex: the loop frees the unhealthy         *)
(* contexts it has popped.                                                 *)
Loop(t) ==
    /\ TakeIdle(t) \/ StartCreate(t) \/ Wait(t)
    /\ opened' = opened \ {c \in Range(idle) : ~IsHealthy(c) /\ c \notin Range(idle')}
    /\ UNCHANGED <<password, raw>>

(* Release, which frees an unhealthy context.                              *)
RedisRelease(t) ==
    /\ Release(t)
    /\ opened' = IF IsHealthy(conn[t]) THEN opened ELSE opened \ {conn[t]}
    /\ UNCHANGED <<password, raw>>

(* Steps that open and free nothing.                                       *)
Other(t) ==
    /\ \/ Acquire(t) \/ DeadlinePasses(t)
       \/ WaitTimesOut(t) \/ WakesSpuriously(t) \/ GiveUp(t)
       \/ Exec(t) \/ NotifyOne(t)
    /\ UNCHANGED <<password, raw, opened>>

RedisNext ==
    \/ \E t \in Threads :
          \/ Connect(t) \/ AuthOk(t) \/ ConnectOrAuthFails(t)
          \/ ConnectNoAuth(t) \/ Loop(t) \/ RedisRelease(t) \/ Other(t)
    \/ \E c \in Conns : ServerDrops(c) /\ UNCHANGED <<password, raw, opened>>

RedisSpec == RedisInit /\ [][RedisNext]_redisVars

(* The steps of a thread in the loop and the wait of Acquire are taken     *)
(* (threads are scheduled) and time passes.  Connecting and AUTH need not  *)
(* end: neither CreateConn sets a timeout (db_pool.cc:28,                  *)
(* redis_pool.cc:28, 39) and the deadline of Acquire does not cover them.  *)
(* Nor is anything assumed of the other handlers: they may keep their      *)
(* contexts for ever.                                                      *)
AcquireStep(t) ==
    \/ Loop(t)
    \/ (WaitTimesOut(t) \/ GiveUp(t)) /\ UNCHANGED <<password, raw, opened>>

RedisFairness ==
    \A t \in Threads :
        /\ WF_redisVars(AcquireStep(t))
        /\ WF_redisVars(DeadlinePasses(t) /\ UNCHANGED <<password, raw, opened>>)

RedisFairSpec == RedisSpec /\ RedisFairness

-----------------------------------------------------------------------------
(* No context leaks and none is used after it was freed: the contexts that *)
(* are open are the idle ones, the held ones, and those in AUTH, and each  *)
(* of these has one place, on every path through CreateConn, Acquire and   *)
(* Release (redis_pool.cc:27-49, 55-89, 91-101).                           *)
ContextsOwned ==
    /\ opened = Live \cup Unauthenticated
    /\ Live \cap Unauthenticated = {}
    /\ \A t, u \in Threads : raw[t] = raw[u] /\ t # u => raw[t] = NoConn
    /\ \A t \in Threads : raw[t] # NoConn => password /\ pc[t] = "creating"

=============================================================================
