--------------------------- MODULE RedisPoolProofs --------------------------
(***************************************************************************)
(* The Redis pool is the pool of ConnPool as far as ConnPool goes, so that *)
(* all that is proved of DbPool holds of it; and it leaks no context.      *)
(***************************************************************************)
EXTENDS RedisPool, ConnPoolProofs

(* The refinement is the identity: opening and AUTH are stutters.          *)
LEMMA RedisStepRefines ==
    ASSUME RedisNext
    PROVE  Next \/ UNCHANGED vars
<1>1. ASSUME NEW t \in Threads, Connect(t) PROVE UNCHANGED vars
  BY <1>1 DEF Connect, vars
<1>2. ASSUME NEW t \in Threads, AuthOk(t) \/ ConnectNoAuth(t) PROVE Next
  <2>1. CreateOk(t)
    BY <1>2 DEF AuthOk, ConnectNoAuth
  <2>. QED  BY <2>1 DEF Next, ThreadStep
<1>3. ASSUME NEW t \in Threads, ConnectOrAuthFails(t) PROVE Next
  BY <1>3 DEF ConnectOrAuthFails, Next, ThreadStep
<1>4. ASSUME NEW t \in Threads, Loop(t) PROVE Next
  BY <1>4 DEF Loop, Next, ThreadStep
<1>5. ASSUME NEW t \in Threads, RedisRelease(t) PROVE Next
  BY <1>5 DEF RedisRelease, Next, ThreadStep
<1>6. ASSUME NEW t \in Threads, Other(t) PROVE Next
  BY <1>6 DEF Other, Next, ThreadStep
<1>7. ASSUME NEW c \in Conns, ServerDrops(c) PROVE Next
  BY <1>7 DEF Next
<1>. QED  BY <1>1, <1>2, <1>3, <1>4, <1>5, <1>6, <1>7 DEF RedisNext

(* RedisPool is written with the actions of ConnPool, so its behaviours    *)
(* are behaviours of ConnPool.                                             *)
LEMMA RedisImplementsPool == RedisSpec => Spec
<1>1. RedisInit => Init
  BY DEF RedisInit
<1>2. [RedisNext]_redisVars => [Next]_vars
  BY RedisStepRefines DEF redisVars, vars
<1>. QED  BY <1>1, <1>2, PTL DEF RedisSpec, Spec

(* The invariant of DbPool holds of the Redis pool.                        *)
THEOREM RedisPoolInvariant == RedisSpec => []IInv
BY RedisImplementsPool, PoolInvariant, PTL

-----------------------------------------------------------------------------
(* No context leaks.                                                       *)

(* Where a context can be.                                                 *)
Has(f, c) == c # NoConn /\ \E t \in Threads : f[t] = c

Owned(c) == c \in Range(idle) \/ Has(conn, c)

(* The live connections, without a look at the program counters.           *)
LEMMA LiveOwned ==
    ASSUME IInv
    PROVE  \A c : c \in Live <=> Owned(c)
<1>1. \A t \in Threads : t \in Holders <=> conn[t] # NoConn
  BY DEF IInv, ExclusiveUse
<1>2. Holders \subseteq Threads
  BY DEF Holders, At
<1>. QED  BY <1>1, <1>2, Zenon DEF Live, Owned, Has

(* The contexts in AUTH.                                                   *)
LEMMA RawHas == \A c : c \in Unauthenticated <=> Has(raw, c)
BY Zenon DEF Unauthenticated, Has

(* ContextsOwned, context by context.                                      *)
Separate ==
    /\ \A c : c \in opened <=> Owned(c) \/ Has(raw, c)
    /\ \A c : ~(Owned(c) /\ Has(raw, c))
    /\ \A t, u \in Threads : raw[t] = raw[u] /\ t # u => raw[t] = NoConn
    /\ \A t \in Threads : raw[t] # NoConn => password /\ pc[t] = "creating"

RInv ==
    /\ IInv
    /\ raw \in [Threads -> Conns \cup {NoConn}]
    /\ Separate

(* Separate says the same.                                                 *)
LEMMA OwnedSeparate ==
    ASSUME IInv
    PROVE  ContextsOwned <=> Separate
<1>1. /\ \A c : c \in Live <=> Owned(c)
      /\ \A c : c \in Unauthenticated <=> Has(raw, c)
  BY LiveOwned, RawHas
<1>2. opened = Live \cup Unauthenticated
        <=> \A c : c \in opened <=> Owned(c) \/ Has(raw, c)
  BY <1>1, Zenon
<1>3. Live \cap Unauthenticated = {} <=> \A c : ~(Owned(c) /\ Has(raw, c))
  BY <1>1, Zenon
<1>. QED  BY <1>2, <1>3, Zenon DEF ContextsOwned, Separate

(* A step that moves no context and leaves the connecting threads alone.   *)
LEMMA QuietKeeps ==
    ASSUME Separate, UNCHANGED <<idle, conn, raw, opened, password>>,
           \A t \in Threads : pc[t] = "creating" => pc'[t] = "creating"
    PROVE  Separate'
<1>1. \A c : Owned(c)' <=> Owned(c)
  BY DEF Owned, Has, Range
<1>2. \A c : Has(raw, c)' <=> Has(raw, c)
  BY DEF Has
<1>. QED  BY <1>1, <1>2 DEF Separate

(* The steps that open and free nothing.                                   *)
LEMMA OtherKeeps ==
    ASSUME RInv, NEW t \in Threads, Other(t)
    PROVE  Separate'
<1>1. pc \in [Threads -> PC]
  BY DEF RInv, IInv, TypeOK
<1>2. UNCHANGED <<idle, conn, raw, opened, password>>
  BY DEF Other, Acquire, DeadlinePasses, WaitTimesOut, WakesSpuriously,
         GiveUp, Exec, NotifyOne
<1>3. \A u \in Threads : pc[u] = "creating" => pc'[u] = "creating"
  <2>1. CASE NotifyOne(t)
    BY <1>1, <2>1 DEF NotifyOne, At
  <2>2. CASE ~NotifyOne(t)
    BY <1>1, <2>2 DEF Other, Acquire, DeadlinePasses, WaitTimesOut,
                      WakesSpuriously, GiveUp, Exec
  <2>. QED  BY <2>1, <2>2
<1>. QED  BY <1>2, <1>3, QuietKeeps DEF RInv

(* Acquire's loop frees nothing, because idle contexts are healthy.        *)
LEMMA LoopKeeps ==
    ASSUME RInv, NEW t \in Threads, Loop(t)
    PROVE  Separate'
<1>0. /\ IInv /\ TypeOK /\ pc \in [Threads -> PC] /\ idle \in Seq(Conns)
      /\ conn \in [Threads -> Conns \cup {NoConn}]
  BY DEF RInv, IInv, TypeOK
<1>1. opened' = opened /\ UNCHANGED <<password, raw>>
  <2>1. \A c \in Range(idle) : IsHealthy(c)
    BY <1>0, LenProperties DEF IInv, IdleHealthy, Range
  <2>2. {c \in Range(idle) : ~IsHealthy(c) /\ c \notin Range(idle')} = {}
    BY <2>1
  <2>. QED  BY <2>2 DEF Loop
<1>2. CASE StartCreate(t) \/ Wait(t)
  <2>1. UNCHANGED <<idle, conn>>
    BY <1>0, <1>2, FindsEmpty DEF StartCreate, Wait
  <2>2. \A u \in Threads : pc[u] = "creating" => pc'[u] = "creating"
    BY <1>0, <1>2 DEF StartCreate, Wait, AtLoopHead
  <2>. QED  BY <1>1, <2>1, <2>2, QuietKeeps DEF RInv
<1>3. CASE TakeIdle(t)
  <2>1. FromFirstHealthy(idle) = idle
    BY <1>0, NothingToDiscard DEF IInv
  <2>2. /\ idle # <<>> /\ idle' = Tail(idle)
        /\ conn' = [conn EXCEPT ![t] = Head(idle)]
        /\ pc' = [pc EXCEPT ![t] = "held"]
        /\ pc[t] # "creating"
    BY <1>3, <2>1 DEF TakeIdle, AtLoopHead
  <2>3. /\ Range(Tail(idle)) = Range(idle) \ {Head(idle)}
        /\ Head(idle) \in Range(idle) /\ Head(idle) \in Conns
    BY <1>0, <2>2, PopFront DEF IInv, ExclusiveUse
  <2>4. conn[t] = NoConn /\ Head(idle) # NoConn
    BY <1>0, <2>2, <2>3, <1>3, PoolAssumption
       DEF IInv, ExclusiveUse, Holders, At, TakeIdle, AtLoopHead
  <2>5. \A c : Has(conn', c) <=> Has(conn, c) \/ c = Head(idle)
    BY <1>0, <2>2, <2>4 DEF Has
  <2>6. \A c : Owned(c)' <=> Owned(c)
    BY <2>2, <2>3, <2>5 DEF Owned, Has
  <2>7. \A c : Has(raw, c)' <=> Has(raw, c)
    BY <1>1 DEF Has
  <2>8. \A u \in Threads : pc[u] = "creating" => pc'[u] = "creating"
    BY <1>0, <2>2
  <2>. QED  BY <1>1, <2>6, <2>7, <2>8 DEF RInv, Separate
<1>. QED  BY <1>2, <1>3 DEF Loop

(* The pool's invariant along a step of the Redis pool.                    *)
LEMMA PoolKept ==
    ASSUME IInv, RedisNext \/ UNCHANGED redisVars
    PROVE  IInv'
<1>1. Next \/ UNCHANGED vars
  BY RedisStepRefines DEF redisVars
<1>. QED  BY <1>1, PoolStep

(* Facts of a thread that is connecting.                                   *)
LEMMA Connecting ==
    ASSUME RInv, NEW t \in Threads, pc[t] = "creating"
    PROVE  /\ conn[t] = NoConn
           /\ pc \in [Threads -> PC]
           /\ conn \in [Threads -> Conns \cup {NoConn}]
           /\ raw \in [Threads -> Conns \cup {NoConn}]
           /\ \A c : c \in Live <=> Owned(c)
BY LiveOwned DEF RInv, IInv, TypeOK, ExclusiveUse, Holders, At

(* redisConnect returns a context no one has.                              *)
LEMMA ConnectKeeps ==
    ASSUME RInv, NEW t \in Threads, Connect(t)
    PROVE  Separate'
<1>1. PICK n \in Conns \ opened : /\ raw' = [raw EXCEPT ![t] = n]
                                 /\ opened' = opened \cup {n}
  BY DEF Connect
<1>2. UNCHANGED <<idle, conn, pc, password>> /\ raw[t] = NoConn
      /\ pc[t] = "creating" /\ password
  BY DEF Connect, vars
<1>3. raw \in [Threads -> Conns \cup {NoConn}] /\ n # NoConn
  BY PoolAssumption DEF RInv
<1>4. \A c : Has(raw', c) <=> Has(raw, c) \/ c = n
  BY <1>1, <1>2, <1>3 DEF Has
<1>5. \A c : Owned(c)' <=> Owned(c)
  BY <1>2 DEF Owned, Has, Range
<1>6. ~Owned(n) /\ ~Has(raw, n)
  BY <1>1 DEF RInv, Separate
<1>7. /\ \A c : c \in opened' <=> Owned(c)' \/ Has(raw', c)
      /\ \A c : ~(Owned(c)' /\ Has(raw', c))
  BY <1>1, <1>4, <1>5, <1>6 DEF RInv, Separate
<1>8. \A u \in Threads : raw[u] # n
  BY <1>3, <1>6 DEF Has
<1>9. /\ \A u, w \in Threads : raw'[u] = raw'[w] /\ u # w => raw'[u] = NoConn
      /\ \A u \in Threads : raw'[u] # NoConn => password' /\ pc'[u] = "creating"
  BY <1>1, <1>2, <1>3, <1>8 DEF RInv, Separate
<1>. QED  BY <1>7, <1>9 DEF RInv, Separate, Has

(* AUTH succeeds: the context passes from raw to the guard.                *)
LEMMA AuthOkKeeps ==
    ASSUME RInv, NEW t \in Threads, AuthOk(t)
    PROVE  Separate'
<1> DEFINE n == raw[t]
<1>1. /\ n # NoConn /\ CreateOk(t) /\ conn'[t] = n
      /\ raw' = [raw EXCEPT ![t] = NoConn]
      /\ UNCHANGED <<password, opened>>
  BY DEF AuthOk
<1>2. /\ pc[t] = "creating" /\ UNCHANGED idle
      /\ pc' = [pc EXCEPT ![t] = "held"]
  BY <1>1 DEF CreateOk
<1>3. /\ conn[t] = NoConn
      /\ pc \in [Threads -> PC]
      /\ conn \in [Threads -> Conns \cup {NoConn}]
      /\ raw \in [Threads -> Conns \cup {NoConn}]
  BY <1>2, Connecting
<1>4. conn' = [conn EXCEPT ![t] = n]
  BY <1>1, <1>3 DEF CreateOk
<1>5. \A c : Has(conn', c) <=> Has(conn, c) \/ c = n
  BY <1>1, <1>3, <1>4 DEF Has
<1>6. \A c : Owned(c)' <=> Owned(c) \/ c = n
  BY <1>2, <1>5 DEF Owned, Has
<1>7. \A u \in Threads : u # t => raw[u] # n
  BY <1>1 DEF RInv, Separate
<1>8. \A c : Has(raw', c) <=> Has(raw, c) /\ c # n
  BY <1>1, <1>3, <1>7 DEF Has
<1>9. Has(raw, n)
  BY <1>1 DEF Has
<1>10. /\ \A c : c \in opened' <=> Owned(c)' \/ Has(raw', c)
       /\ \A c : ~(Owned(c)' /\ Has(raw', c))
  <2> HIDE DEF n
  <2>. QED  BY <1>1, <1>6, <1>8, <1>9 DEF RInv, Separate
<1>11. /\ \A u, w \in Threads : raw'[u] = raw'[w] /\ u # w => raw'[u] = NoConn
       /\ \A u \in Threads : raw'[u] # NoConn => password' /\ pc'[u] = "creating"
  BY <1>1, <1>2, <1>3 DEF RInv, Separate
<1>. QED  BY <1>10, <1>11 DEF RInv, Separate, Has

(* The null handle is never idle.                                          *)
LEMMA IdleConns ==
    ASSUME RInv
    PROVE  \A c \in Range(idle) : c \in Conns
BY LenProperties DEF RInv, IInv, TypeOK, Range

(* A failed connection: the context of a failed AUTH is freed.             *)
LEMMA FailKeeps ==
    ASSUME RInv, NEW t \in Threads, ConnectOrAuthFails(t)
    PROVE  Separate'
<1> DEFINE n == raw[t]
<1>1. /\ pc[t] = "creating" /\ pc' = [pc EXCEPT ![t] = "waiting"]
      /\ raw' = [raw EXCEPT ![t] = NoConn] /\ opened' = opened \ {n}
      /\ UNCHANGED <<idle, conn, password>>
  BY DEF ConnectOrAuthFails, CreateFails
<1>2. /\ pc \in [Threads -> PC]
      /\ raw \in [Threads -> Conns \cup {NoConn}]
  BY <1>1, Connecting
<1>3. \A c : Owned(c)' <=> Owned(c)
  BY <1>1 DEF Owned, Has, Range
<1>4. \A u \in Threads : u # t /\ raw[u] = n => n = NoConn
  BY DEF RInv, Separate
<1>5. \A c : Has(raw', c) <=> Has(raw, c) /\ c # n
  BY <1>1, <1>2, <1>4 DEF Has
<1>6. n # NoConn => Has(raw, n)
  BY DEF Has
<1>7. ~Owned(NoConn)
  BY PoolAssumption, IdleConns DEF Owned, Has
<1>8. /\ \A c : c \in opened' <=> Owned(c)' \/ Has(raw', c)
      /\ \A c : ~(Owned(c)' /\ Has(raw', c))
  <2> HIDE DEF n
  <2>. QED  BY <1>1, <1>3, <1>5, <1>6, <1>7 DEF RInv, Separate
<1>9. /\ \A u, w \in Threads : raw'[u] = raw'[w] /\ u # w => raw'[u] = NoConn
      /\ \A u \in Threads : raw'[u] # NoConn => password' /\ pc'[u] = "creating"
  BY <1>1, <1>2 DEF RInv, Separate
<1>. QED  BY <1>8, <1>9 DEF RInv, Separate, Has

(* Without a password nothing is ever in AUTH.                             *)
LEMMA NoAuthKeeps ==
    ASSUME RInv, NEW t \in Threads, ConnectNoAuth(t)
    PROVE  Separate'
<1>1. /\ ~password /\ CreateOk(t) /\ opened' = opened \cup {conn'[t]}
      /\ UNCHANGED <<password, raw>>
  BY DEF ConnectNoAuth
<1>2. PICK n \in Conns \ Live : conn' = [conn EXCEPT ![t] = n]
  BY <1>1 DEF CreateOk
<1>3. pc[t] = "creating" /\ UNCHANGED idle
  BY <1>1 DEF CreateOk
<1>4. /\ conn[t] = NoConn
      /\ conn \in [Threads -> Conns \cup {NoConn}]
      /\ \A c : c \in Live <=> Owned(c)
  BY <1>3, Connecting
<1>5. n # NoConn /\ conn'[t] = n
  BY <1>2, <1>4, PoolAssumption
<1>6. \A c : Has(conn', c) <=> Has(conn, c) \/ c = n
  BY <1>2, <1>4, <1>5 DEF Has
<1>7. \A c : Owned(c)' <=> Owned(c) \/ c = n
  BY <1>3, <1>6 DEF Owned, Has
<1>8. \A u \in Threads : raw[u] = NoConn
  BY <1>1 DEF RInv, Separate
<1>9. \A c : ~Has(raw, c) /\ ~Has(raw', c)
  BY <1>1, <1>8 DEF Has
<1>10. /\ \A c : c \in opened' <=> Owned(c)' \/ Has(raw', c)
       /\ \A c : ~(Owned(c)' /\ Has(raw', c))
  BY <1>1, <1>5, <1>7, <1>9 DEF RInv, Separate
<1>. QED  BY <1>1, <1>8, <1>10 DEF RInv, Separate, Has

(* Release puts the context back or frees it.                              *)
LEMMA RedisReleaseKeeps ==
    ASSUME RInv, NEW t \in Threads, RedisRelease(t)
    PROVE  Separate'
<1> DEFINE n == conn[t]
<1>1. /\ Release(t) /\ UNCHANGED <<password, raw>>
      /\ opened' = IF IsHealthy(n) THEN opened ELSE opened \ {n}
  BY DEF RedisRelease
<1>2. /\ pc[t] = "used" /\ pc' = [pc EXCEPT ![t] = "notify"]
      /\ conn' = [conn EXCEPT ![t] = NoConn]
      /\ idle' = IF IsHealthy(n) THEN Append(idle, n) ELSE idle
  BY <1>1 DEF Release
<1>3. /\ pc \in [Threads -> PC] /\ idle \in Seq(Conns)
      /\ conn \in [Threads -> Conns \cup {NoConn}]
  BY DEF RInv, IInv, TypeOK
<1>4. /\ n # NoConn /\ n \in Conns /\ n \notin Range(idle) /\ IsInjective(idle)
      /\ \A u \in Threads : u # t => conn[u] # n
  BY <1>2, <1>3 DEF RInv, IInv, ExclusiveUse, Holders, At
<1>5. \A c : Has(conn', c) <=> Has(conn, c) /\ c # n
  BY <1>2, <1>3, <1>4 DEF Has
<1>6. Has(conn, n)
  BY <1>4 DEF Has
<1>7. Range(idle') = IF IsHealthy(n) THEN Range(idle) \cup {n} ELSE Range(idle)
  BY <1>2, <1>3, <1>4, PushBack
<1>8. \A c : Owned(c)' <=> Owned(c) /\ (c = n => IsHealthy(n))
  <2> HIDE DEF n
  <2>. QED  BY <1>4, <1>5, <1>6, <1>7 DEF Owned, Has
<1>9. \A c : Has(raw, c)' <=> Has(raw, c)
  BY <1>1 DEF Has
<1>10. Owned(n)
  BY <1>6 DEF Owned
<1>11. /\ \A c : c \in opened' <=> Owned(c)' \/ Has(raw, c)'
       /\ \A c : ~(Owned(c)' /\ Has(raw, c)')
  <2> HIDE DEF n
  <2>. QED  BY <1>1, <1>8, <1>9, <1>10 DEF RInv, Separate
<1>12. \A u \in Threads : pc[u] = "creating" => pc'[u] = "creating"
  BY <1>2, <1>3
<1>. QED  BY <1>1, <1>11, <1>12 DEF RInv, Separate

(* All steps of the Redis pool.                                            *)
LEMMA RedisStepKeeps ==
    ASSUME RInv, RedisNext \/ UNCHANGED redisVars
    PROVE  RInv'
<1>1. IInv' /\ Separate
  BY PoolKept DEF RInv
<1>2. raw' \in [Threads -> Conns \cup {NoConn}]
  BY DEF RInv, RedisNext, redisVars, Connect, AuthOk, ConnectOrAuthFails,
         ConnectNoAuth, Loop, RedisRelease, Other
<1>3. Separate'
  <2>1. CASE UNCHANGED redisVars
    BY <1>1, <2>1, QuietKeeps DEF redisVars, vars
  <2>2. ASSUME NEW c \in Conns, ServerDrops(c), UNCHANGED <<password, raw, opened>>
        PROVE  Separate'
    BY <1>1, <2>2, QuietKeeps DEF ServerDrops
  <2>. QED  BY <1>1, <2>1, <2>2, ConnectKeeps, AuthOkKeeps, FailKeeps,
               NoAuthKeeps, LoopKeeps, RedisReleaseKeeps, OtherKeeps
            DEF RedisNext
<1>. QED  BY <1>1, <1>2, <1>3 DEF RInv

(* The inductive invariant of the Redis pool.                              *)
THEOREM RedisInvariant == RedisSpec => []RInv
<1>1. RedisInit => RInv
  <2> SUFFICES ASSUME RedisInit PROVE RInv
    OBVIOUS
  <2>1. IInv
    BY InitInv DEF RedisInit
  <2>2. \A c : Owned(c) <=> c \in Range(idle)
    BY DEF Owned, Has, RedisInit, Init
  <2>3. \A c : ~Has(raw, c)
    BY DEF Has, RedisInit
  <2>4. Separate
    BY <2>2, <2>3 DEF Separate, RedisInit
  <2>. QED  BY <2>1, <2>4 DEF RInv, RedisInit
<1>2. RInv /\ [RedisNext]_redisVars => RInv'
  BY RedisStepKeeps
<1>. QED  BY <1>1, <1>2, PTL DEF RedisSpec

(* No context leaks or is used after redisFree, on any path through        *)
(* CreateConn, Acquire and Release (redis_pool.cc:27-101).                 *)
THEOREM ContextsNeverLeak == RedisSpec => []ContextsOwned
<1>1. RInv => ContextsOwned
  BY OwnedSeparate DEF RInv
<1>. QED  BY <1>1, RedisInvariant, PTL

=============================================================================
