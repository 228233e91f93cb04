------------------------------ MODULE ConnPool ------------------------------
(***************************************************************************)
(* The bounded connection pool of the logic server.                        *)
(*                                                                         *)
(* DbPool (db_pool.cc) and RedisPool (redis_pool.cc) are the same monitor: *)
(* a deque of idle connections and a counter of existing ones, both under  *)
(* the mutex mu_, and a condition variable cv_ on which Acquire waits.     *)
(* This module follows DbPool; RedisPool adds what the Redis pool does     *)
(* differently.                                                            *)
(*                                                                         *)
(* The threads are the request handlers of the gRPC server.  A critical    *)
(* section under mu_ is one action; Acquire leaves the mutex twice, while  *)
(* it connects (db_pool.cc:64-66) and while it waits (db_pool.cc:75), and  *)
(* Release leaves it before it notifies (db_pool.cc:89-90), so these are   *)
(* separate actions.                                                       *)
(*                                                                         *)
(* A connection that the server has closed is not known to be bad before   *)
(* it is used: PQstatus and redisContext::err are client-side fields.      *)
(***************************************************************************)
EXTENDS Integers, Sequences, FiniteSets, Functions

CONSTANTS
    Threads,    \* request-handler threads of the server
    Conns,      \* names for connection handles; a freed name may be reused
    NoConn,     \* the null handle
    MinPool,    \* min_pool_: connections opened by the constructor
    MaxPool     \* max_pool_: the limit Acquire compares total_created_ with

ASSUME PoolAssumption ==
    /\ IsFiniteSet(Threads)
    /\ NoConn \notin Conns
    /\ MinPool \in Nat
    /\ MaxPool \in Nat
    /\ MinPool <= MaxPool

VARIABLES
    idle,       \* idle_: the deque of idle connections
    total,      \* total_created_
    pc,         \* where each thread is in Acquire, in the query or in Release
    conn,       \* the connection held by the thread's ConnGuard
    expired,    \* threads whose Acquire deadline has passed
    dropped,    \* connections closed by the database server
    bad,        \* connections whose client-side status is not OK
    missed      \* history: some thread slept or gave up without the recheck
                \* that would have used a free connection

vars == <<idle, total, pc, conn, expired, dropped, bad, missed>>

PC == {"out", "lock", "creating", "waiting", "woken", "held", "used", "notify"}

At(where) == {t \in Threads : pc[t] \in where}

(* Threads that own a connection through a ConnGuard. *)
Holders == At({"held", "used"})

(* Every connection that exists: idle ones and held ones. *)
Live == Range(idle) \cup {conn[t] : t \in Holders}

-----------------------------------------------------------------------------
(* IsHealthy. *)
IsHealthy(c) == c \notin bad

(* The part of a deque that the loop of Acquire still sees after it has    *)
(* freed the unhealthy connections at the front.                           *)
FromFirstHealthy(s) ==
    IF \E k \in 1..Len(s) : IsHealthy(s[k])
    THEN LET first == CHOOSE k \in 1..Len(s) :
                         /\ IsHealthy(s[k])
                         /\ \A j \in 1..(k-1) : ~IsHealthy(s[j])
         IN  SubSeq(s, first, Len(s))
    ELSE <<>>

(* The constructor: MinPool attempts to connect, each of which may fail.   *)
Init ==
    /\ \E n \in 0..MinPool : idle \in Injection(1..n, Conns)
    /\ total = Len(idle)
    /\ pc = [t \in Threads |-> "out"]
    /\ conn = [t \in Threads |-> NoConn]
    /\ expired = {}
    /\ dropped = {}
    /\ bad = {}
    /\ missed = FALSE

(* A handler calls Acquire: the deadline is set, the mutex is requested.   *)
Acquire(t) ==
    /\ pc[t] = "out"
    /\ pc' = [pc EXCEPT ![t] = "lock"]
    /\ UNCHANGED <<idle, total, conn, expired, dropped, bad, missed>>

(* The deadline of a pending Acquire passes.                               *)
DeadlinePasses(t) ==
    /\ pc[t] \in {"lock", "creating", "waiting", "woken"}
    /\ t \notin expired
    /\ expired' = expired \cup {t}
    /\ UNCHANGED <<idle, total, pc, conn, dropped, bad, missed>>

(* The thread is at the head of the loop with the mutex: it has just       *)
(* entered Acquire, or wait_until has returned before the deadline.        *)
AtLoopHead(t) == pc[t] = "lock" \/ (pc[t] = "woken" /\ t \notin expired)

(* Faulty variant of TakeIdle: the front is read but not popped.           *)
TakeIdleNoPop(t) ==
    /\ AtLoopHead(t)
    /\ idle # <<>>
    /\ pc' = [pc EXCEPT ![t] = "held"]
    /\ conn' = [conn EXCEPT ![t] = Head(idle)]
    /\ expired' = expired \ {t}
    /\ UNCHANGED <<idle, total, dropped, bad, missed>>

(* The loop finds a healthy idle connection and returns a guard for it.    *)
TakeIdle(t) ==
    LET rest == FromFirstHealthy(idle) IN
    /\ AtLoopHead(t)
    /\ rest # <<>>
    /\ idle' = Tail(rest)
    /\ total' = total - (Len(idle) - Len(rest))
    /\ pc' = [pc EXCEPT ![t] = "held"]
    /\ conn' = [conn EXCEPT ![t] = Head(rest)]
    /\ expired' = expired \ {t}
    /\ UNCHANGED <<dropped, bad, missed>>

(* Faulty variant of StartCreate: idle connections are not looked for.     *)
StartCreateAlways(t) ==
    /\ AtLoopHead(t)
    /\ total < MaxPool
    /\ pc' = [pc EXCEPT ![t] = "creating"]
    /\ UNCHANGED <<idle, total, conn, expired, dropped, bad, missed>>

(* No idle connection, and the counter is below the limit: the thread      *)
(* leaves the mutex and connects.  The counter is not yet incremented.     *)
StartCreate(t) ==
    LET rest == FromFirstHealthy(idle)
        left == total - (Len(idle) - Len(rest)) IN
    /\ AtLoopHead(t)
    /\ rest = <<>>
    /\ left < MaxPool
    /\ idle' = rest
    /\ total' = left
    /\ pc' = [pc EXCEPT ![t] = "creating"]
    /\ UNCHANGED <<conn, expired, dropped, bad, missed>>

(* No idle connection and the limit is reached: wait_until.                *)
Wait(t) ==
    LET rest == FromFirstHealthy(idle)
        left == total - (Len(idle) - Len(rest)) IN
    /\ AtLoopHead(t)
    /\ rest = <<>>
    /\ left >= MaxPool
    /\ idle' = rest
    /\ total' = left
    /\ pc' = [pc EXCEPT ![t] = "waiting"]
    /\ UNCHANGED <<conn, expired, dropped, bad, missed>>

(* CreateConn succeeds; the mutex is taken again, the connection counted   *)
(* and returned.  The limit is not compared a second time.                 *)
CreateOk(t) ==
    /\ pc[t] = "creating"
    /\ \E c \in Conns \ Live : conn' = [conn EXCEPT ![t] = c]
    /\ total' = total + 1
    /\ pc' = [pc EXCEPT ![t] = "held"]
    /\ expired' = expired \ {t}
    /\ UNCHANGED <<idle, dropped, bad, missed>>

(* CreateConn fails; the thread goes straight to wait_until, without a new *)
(* look at the deque.                                                      *)
CreateFails(t) ==
    /\ pc[t] = "creating"
    /\ pc' = [pc EXCEPT ![t] = "waiting"]
    /\ missed' = TRUE
    /\ UNCHANGED <<idle, total, conn, expired, dropped, bad>>

(* wait_until stops blocking because the deadline is over ...              *)
WaitTimesOut(t) ==
    /\ pc[t] = "waiting"
    /\ t \in expired
    /\ pc' = [pc EXCEPT ![t] = "woken"]
    /\ UNCHANGED <<idle, total, conn, expired, dropped, bad, missed>>

(* ... or spuriously.                                                      *)
WakesSpuriously(t) ==
    /\ pc[t] = "waiting"
    /\ t \notin expired
    /\ pc' = [pc EXCEPT ![t] = "woken"]
    /\ UNCHANGED <<idle, total, conn, expired, dropped, bad, missed>>

(* Faulty variant of GiveUp: the timeout status is ignored.                *)
GiveUpNever(t) ==
    /\ pc[t] = "woken"
    /\ t \in expired
    /\ pc' = [pc EXCEPT ![t] = "waiting"]
    /\ UNCHANGED <<idle, total, conn, expired, dropped, bad, missed>>

(* The mutex is reacquired after the deadline: wait_until reports timeout, *)
(* even to a thread that was notified, and Acquire returns nullptr without *)
(* another look at the deque.                                              *)
GiveUp(t) ==
    /\ pc[t] = "woken"
    /\ t \in expired
    /\ pc' = [pc EXCEPT ![t] = "out"]
    /\ expired' = expired \ {t}
    /\ missed' = TRUE
    /\ UNCHANGED <<idle, total, conn, dropped, bad>>

(* The database server closes a connection (restart, idle timeout).        *)
ServerDrops(c) ==
    /\ c \in Live \ dropped
    /\ dropped' = dropped \cup {c}
    /\ UNCHANGED <<idle, total, pc, conn, expired, bad, missed>>

(* The handler runs a statement; on a dropped connection it fails and the  *)
(* client library records the bad status.                                  *)
Exec(t) ==
    /\ pc[t] \in {"held", "used"}
    /\ pc' = [pc EXCEPT ![t] = "used"]
    /\ bad' = IF conn[t] \in dropped THEN bad \cup {conn[t]} ELSE bad
    /\ UNCHANGED <<idle, total, conn, expired, dropped, missed>>

(* Faulty variants of Release: a closed connection stays counted; a failed *)
(* connection goes back to the deque; the guard is reset before the push.  *)
ReleaseKeepsCount(t) ==
    /\ pc[t] = "used"
    /\ idle' = IF IsHealthy(conn[t]) THEN Append(idle, conn[t]) ELSE idle
    /\ pc' = [pc EXCEPT ![t] = "notify"]
    /\ conn' = [conn EXCEPT ![t] = NoConn]
    /\ UNCHANGED <<total, expired, dropped, bad, missed>>

ReleaseUnchecked(t) ==
    /\ pc[t] = "used"
    /\ idle' = Append(idle, conn[t])
    /\ pc' = [pc EXCEPT ![t] = "notify"]
    /\ conn' = [conn EXCEPT ![t] = NoConn]
    /\ UNCHANGED <<total, expired, dropped, bad, missed>>

ReleaseAfterReset(t) ==
    /\ pc[t] = "used"
    /\ conn' = [conn EXCEPT ![t] = NoConn]
    /\ idle' = Append(idle, conn'[t])
    /\ pc' = [pc EXCEPT ![t] = "notify"]
    /\ UNCHANGED <<total, expired, dropped, bad, missed>>

(* ~ConnGuard: the critical section of Release.                            *)
Release(t) ==
    LET c == conn[t] IN
    /\ pc[t] = "used"
    /\ IF IsHealthy(c)
       THEN /\ idle' = Append(idle, c)
            /\ UNCHANGED <<total, dropped, bad>>
       ELSE /\ total' = IF total > 0 THEN total - 1 ELSE total
            /\ dropped' = dropped \ {c}     \* the handle is freed
            /\ bad' = bad \ {c}
            /\ UNCHANGED idle
    /\ pc' = [pc EXCEPT ![t] = "notify"]
    /\ conn' = [conn EXCEPT ![t] = NoConn]
    /\ UNCHANGED <<expired, missed>>

(* Faulty variant: the connection is returned without a notification.      *)
NotifyNobody(t) ==
    /\ pc[t] = "notify"
    /\ pc' = [pc EXCEPT ![t] = "out"]
    /\ UNCHANGED <<idle, total, conn, expired, dropped, bad, missed>>

(* cv_.notify_one(), after the mutex has been left.                        *)
NotifyOne(t) ==
    /\ pc[t] = "notify"
    /\ IF At({"waiting"}) = {}
       THEN pc' = [pc EXCEPT ![t] = "out"]
       ELSE \E w \in At({"waiting"}) :
               pc' = [pc EXCEPT ![t] = "out", ![w] = "woken"]
    /\ UNCHANGED <<idle, total, conn, expired, dropped, bad, missed>>

(* What a thread does once it has called Acquire.                          *)
ThreadStep(t) ==
    \/ TakeIdle(t)     \/ StartCreate(t) \/ Wait(t)
    \/ CreateOk(t)     \/ CreateFails(t)
    \/ WaitTimesOut(t) \/ GiveUp(t)
    \/ Exec(t)         \/ Release(t)     \/ NotifyOne(t)

Next ==
    \/ \E t \in Threads : Acquire(t) \/ ThreadStep(t)
    \/ \E t \in Threads : DeadlinePasses(t) \/ WakesSpuriously(t)
    \/ \E c \in Conns : ServerDrops(c)

Spec == Init /\ [][Next]_vars

-----------------------------------------------------------------------------
(* The variables have their types.                                         *)
TypeOK ==
    /\ idle \in Seq(Conns)
    /\ total \in Int
    /\ pc \in [Threads -> PC]
    /\ conn \in [Threads -> Conns \cup {NoConn}]
    /\ expired \in SUBSET Threads
    /\ dropped \in SUBSET Conns
    /\ bad \in SUBSET Conns
    /\ missed \in BOOLEAN

(* total_created_ counts exactly the connections that exist, idle or held. *)
(* With it the unguarded --total_created_ of Acquire (db_pool.cc:55) never *)
(* wraps the size_t around, and the guard in Release (db_pool.cc:85) is    *)
(* never needed.                                                           *)
Accounting == total = Len(idle) + Cardinality(Holders)

(* A connection is never used by two handlers, nor idle while in use, nor  *)
(* twice in the deque: what the ConnGuard is for (db_pool.h:14-18).        *)
ExclusiveUse ==
    /\ \A t \in Threads : t \in Holders <=> conn[t] # NoConn
    /\ \A t, u \in Holders : conn[t] = conn[u] => t = u
    /\ \A t \in Holders : conn[t] \notin Range(idle)
    /\ IsInjective(idle)

(* A connection whose failure has been seen is never in the deque, so it   *)
(* is never handed out again: Acquire's own health check finds nothing to  *)
(* discard, it is Release that keeps failed connections out.               *)
IdleHealthy == \A i \in 1..Len(idle) : IsHealthy(idle[i])

(* What really bounds the pool.  Threads that connect at the same time all *)
(* pass the comparison with MaxPool, so MaxPool does not bound the number  *)
(* of connections; but a thread connects only when the deque is empty, so  *)
(* existing and coming connections never outnumber the threads (or the     *)
(* connections of the constructor).                                        *)
PoolBound ==
    LET coming == total + Cardinality(At({"creating"})) IN
    coming <= MinPool \/ coming <= Cardinality(Threads)

(* No lost wakeup: while a thread waits, every free connection and every   *)
(* free place below the limit has a thread on its way to it (woken up,     *)
(* connecting, or about to notify) -- unless some CreateConn failed or     *)
(* some Acquire ended after its deadline.  Those are the two ways in which *)
(* a thread can be left waiting next to an idle connection: after a failed *)
(* CreateConn Acquire waits without looking at the deque again, and a      *)
(* thread notified at its deadline drops the notification.                 *)
NoLostWakeup ==
    (~missed /\ At({"waiting"}) # {}) =>
        Len(idle) + (MaxPool - total)
            <= Cardinality(At({"woken", "creating", "notify"}))

(* No thread stays in the loop or the wait of Acquire beyond its deadline: *)
(* it returns, with a connection or with nullptr ("nullptr means timeout   *)
(* or failure", db_pool.h:20), or it starts to connect itself -- even if   *)
(* every other thread keeps its connection, or hangs in CreateConn, for    *)
(* ever.  (Connecting has no timeout and the deadline does not cover it,   *)
(* so that an Acquire which connects may never return.)                    *)
AcquireReturns ==
    \A t \in Threads : pc[t] \in {"lock", "waiting", "woken"}
                           ~> pc[t] \in {"held", "out", "creating"}

-----------------------------------------------------------------------------
(* The pool seen by its users: free connections, held ones, and pending    *)
(* calls of Acquire.                                                       *)
Alloc == INSTANCE ConnAlloc WITH
            free   <- Range(idle),
            held   <- conn,
            asking <- At({"lock", "creating", "waiting", "woken"})

(* The pool implements the abstract allocator: whatever the interleaving   *)
(* of connecting, waiting, timing out and releasing, a returned guard owns *)
(* a connection no other handler owns (db_pool.h:9-21).                    *)
ImplementsAlloc == Alloc!Spec

=============================================================================
