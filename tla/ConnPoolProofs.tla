--------------------------- MODULE ConnPoolProofs ---------------------------
(***************************************************************************)
(* Proofs about the connection pool, for every finite set of threads,      *)
(* every set of connection handles and every MinPool <= MaxPool.           *)
(*                                                                         *)
(* IInv is inductive as a conjunction: the accounting of connections needs *)
(* exclusive use, the health of the deque needs exclusive use (a           *)
(* connection that fails is not in the deque), and the bounds need the     *)
(* accounting.                                                             *)
(***************************************************************************)
EXTENDS ConnPool, TLAPS, FiniteSetTheorems, SequenceTheorems

IInv == /\ TypeOK
        /\ Accounting
        /\ ExclusiveUse
        /\ IdleHealthy
        /\ PoolBound
        /\ NoLostWakeup

-----------------------------------------------------------------------------
(* The deque.                                                              *)

(* What pop_front does to a deque without repetitions.                     *)
LEMMA PopFront ==
    ASSUME NEW s \in Seq(Conns), s # <<>>, IsInjective(s)
    PROVE  /\ Head(s) \in Conns
           /\ Head(s) \in Range(s)
           /\ Tail(s) \in Seq(Conns)
           /\ Len(Tail(s)) = Len(s) - 1
           /\ Range(Tail(s)) = Range(s) \ {Head(s)}
           /\ IsInjective(Tail(s))
<1>1. /\ Head(s) \in Conns
      /\ Tail(s) \in Seq(Conns)
      /\ Len(Tail(s)) = Len(s) - 1
      /\ \A i \in 1..Len(Tail(s)) : Tail(s)[i] = s[i+1]
  BY HeadTailProperties
<1>2. Len(s) \in Nat \ {0} /\ DOMAIN s = 1..Len(s) /\ Head(s) = s[1]
  BY EmptySeq, LenProperties
<1>3. DOMAIN Tail(s) = 1..(Len(s) - 1)
  BY <1>1, LenProperties
<1>4. Head(s) \in Range(s)
  BY <1>2 DEF Range
<1>5. IsInjective(Tail(s))
  BY <1>1, <1>2, <1>3 DEF IsInjective
<1>6. ASSUME NEW c \in Range(Tail(s)) PROVE c \in Range(s) \ {Head(s)}
  <2>1. PICK i \in 1..(Len(s) - 1) : c = Tail(s)[i]
    BY <1>3 DEF Range
  <2>2. i+1 \in 1..Len(s) /\ c = s[i+1] /\ i+1 # 1
    BY <2>1, <1>1, <1>2
  <2>. QED  BY <2>2, <1>2 DEF Range, IsInjective
<1>7. ASSUME NEW c \in Range(s) \ {Head(s)} PROVE c \in Range(Tail(s))
  <2>1. PICK i \in 1..Len(s) : c = s[i]
    BY <1>2 DEF Range
  <2>2. i # 1 /\ i-1 \in 1..(Len(s) - 1)
    BY <2>1, <1>2, <1>7
  <2>3. Tail(s)[i-1] = s[i]
    BY <2>2, <1>1, <1>2
  <2>. QED  BY <2>1, <2>2, <2>3, <1>3 DEF Range
<1>. QED  BY <1>1, <1>4, <1>5, <1>6, <1>7

(* What push_back does with a connection that is not in the deque.         *)
LEMMA PushBack ==
    ASSUME NEW s \in Seq(Conns), IsInjective(s),
           NEW c \in Conns, c \notin Range(s)
    PROVE  /\ Append(s, c) \in Seq(Conns)
           /\ Len(Append(s, c)) = Len(s) + 1
           /\ Range(Append(s, c)) = Range(s) \cup {c}
           /\ IsInjective(Append(s, c))
<1>1. /\ Append(s, c) \in Seq(Conns)
      /\ Len(Append(s, c)) = Len(s) + 1
      /\ \A i \in 1..Len(s) : Append(s, c)[i] = s[i]
      /\ Append(s, c)[Len(s) + 1] = c
  BY AppendProperties
<1>2. /\ Len(s) \in Nat
      /\ DOMAIN s = 1..Len(s)
      /\ DOMAIN Append(s, c) = 1..(Len(s) + 1)
  BY <1>1, LenProperties
<1>3. \A i \in 1..(Len(s) + 1) : i \in 1..Len(s) \/ i = Len(s) + 1
  BY <1>2
<1>4. \A i \in 1..Len(s) : s[i] # c
  BY <1>2 DEF Range
<1>5. IsInjective(Append(s, c))
  BY <1>1, <1>2, <1>3, <1>4 DEF IsInjective
<1>6. \A d \in Range(Append(s, c)) : d \in Range(s) \cup {c}
  BY <1>1, <1>2, <1>3 DEF Range
<1>7. \A d \in Range(s) \cup {c} : d \in Range(Append(s, c))
  <2>1. \A i \in 1..Len(s) : i \in 1..(Len(s) + 1)
    BY <1>2
  <2>2. Len(s) + 1 \in 1..(Len(s) + 1)
    BY <1>2
  <2>. QED  BY <2>1, <2>2, <1>1, <1>2 DEF Range
<1>. QED  BY <1>1, <1>5, <1>6, <1>7

(* In a deque of healthy connections the loop of Acquire discards nothing. *)
LEMMA NothingToDiscard ==
    ASSUME TypeOK, IdleHealthy
    PROVE  FromFirstHealthy(idle) = idle
<1>1. idle \in Seq(Conns) /\ Len(idle) \in Nat
  BY LenProperties DEF TypeOK
<1>2. CASE Len(idle) = 0
  <2>1. idle = <<>> /\ 1..Len(idle) = {}
    BY <1>1, <1>2, EmptySeq
  <2>. QED  BY <2>1 DEF FromFirstHealthy
<1>3. CASE Len(idle) # 0
  <2>1. 1 \in 1..Len(idle) /\ 1..(1-1) = {}
    BY <1>1, <1>3
  <2>2. \A k \in 1..Len(idle) : IsHealthy(idle[k])
    BY DEF IdleHealthy
  <2> DEFINE P(k) == IsHealthy(idle[k]) /\ \A j \in 1..(k-1) : ~IsHealthy(idle[j])
  <2>3. P(1)
    BY <2>1, <2>2
  <2>4. \A k \in 1..Len(idle) : P(k) => k = 1
    <3>1. SUFFICES ASSUME NEW k \in 1..Len(idle), k # 1 PROVE ~P(k)
      OBVIOUS
    <3>2. 1 \in 1..(k-1)
      BY <1>1, <3>1
    <3>. QED  BY <3>2, <2>1, <2>2
  <2>5. (CHOOSE k \in 1..Len(idle) : P(k)) = 1
    BY <2>1, <2>3, <2>4
  <2>6. SubSeq(idle, 1, Len(idle)) = idle
    BY <1>1, SubSeqFull
  <2>. QED  BY <2>1, <2>2, <2>5, <2>6 DEF FromFirstHealthy
<1>. QED  BY <1>2, <1>3

-----------------------------------------------------------------------------
(* Counting threads.                                                       *)

(* Disjoint sets add up.                                                   *)
LEMMA DisjointUnion ==
    ASSUME NEW S, NEW T, IsFiniteSet(S), IsFiniteSet(T), S \cap T = {}
    PROVE  Cardinality(S \cup T) = Cardinality(S) + Cardinality(T)
<1>1. Cardinality(S) \in Nat /\ Cardinality(T) \in Nat
  BY FS_CardinalityType
<1>2. Cardinality(S \cap T) = 0
  BY FS_EmptySet
<1>3. Cardinality(S \cup T)
        = Cardinality(S) + Cardinality(T) - Cardinality(S \cap T)
  BY FS_Union
<1>. QED  BY <1>1, <1>2, <1>3

(* How the number of threads at the places W changes when one thread moves *)
(* to place p.                                                             *)
LEMMA OneMoves ==
    ASSUME NEW f \in [Threads -> PC], NEW t \in Threads, NEW p \in PC, NEW W
    PROVE  LET before == {u \in Threads : f[u] \in W}
               after  == {u \in Threads : [f EXCEPT ![t] = p][u] \in W}
           IN  /\ Cardinality(before) \in Nat
               /\ Cardinality(after) \in Nat
               /\ (f[t] \in W <=> p \in W) =>
                      Cardinality(after) = Cardinality(before)
               /\ (f[t] \notin W /\ p \in W) =>
                      Cardinality(after) = Cardinality(before) + 1
               /\ (f[t] \in W /\ p \notin W) =>
                      Cardinality(after) = Cardinality(before) - 1
<1> DEFINE before == {u \in Threads : f[u] \in W}
           after  == {u \in Threads : [f EXCEPT ![t] = p][u] \in W}
<1>1. IsFiniteSet(before) /\ IsFiniteSet(after)
  BY PoolAssumption, FS_Subset
<1>2. Cardinality(before) \in Nat /\ Cardinality(after) \in Nat
  BY <1>1, FS_CardinalityType
<1>3. (f[t] \in W <=> p \in W) => after = before
  OBVIOUS
<1>4. ASSUME f[t] \notin W, p \in W
      PROVE  Cardinality(after) = Cardinality(before) + 1
  <2>1. after = before \cup {t} /\ t \notin before
    BY <1>4
  <2>. HIDE DEF before, after
  <2>. QED  BY <2>1, <1>1, FS_AddElement
<1>5. ASSUME f[t] \in W, p \notin W
      PROVE  Cardinality(after) = Cardinality(before) - 1
  <2>1. after = before \ {t} /\ t \in before
    BY <1>5
  <2>. HIDE DEF before, after
  <2>. QED  BY <2>1, <1>1, FS_RemoveElement
<1>. QED  BY <1>2, <1>3, <1>4, <1>5

(* m differs from n by a thread that was counted and one that is now.      *)
Shifts(n, m, was, is) ==
    /\ n \in Nat
    /\ m \in Nat
    /\ m = n + (IF is THEN 1 ELSE 0) - (IF was THEN 1 ELSE 0)

(* The three counts of the invariant when thread t moves to place p.       *)
Counts(t, p) ==
    /\ Shifts(Cardinality(Holders), Cardinality(Holders'),
              pc[t] \in {"held", "used"}, p \in {"held", "used"})
    /\ Shifts(Cardinality(At({"creating"})), Cardinality(At({"creating"})'),
              pc[t] = "creating", p = "creating")
    /\ Shifts(Cardinality(At({"woken", "creating", "notify"})),
              Cardinality(At({"woken", "creating", "notify"})'),
              pc[t] \in {"woken", "creating", "notify"},
              p \in {"woken", "creating", "notify"})

LEMMA Moved ==
    ASSUME TypeOK, NEW t \in Threads, NEW p \in PC,
           pc' = [pc EXCEPT ![t] = p]
    PROVE  Counts(t, p)
<1>1. pc \in [Threads -> PC]
  BY DEF TypeOK
<1>2. ASSUME NEW W
      PROVE  Shifts(Cardinality({u \in Threads : pc[u] \in W}),
                    Cardinality({u \in Threads : [pc EXCEPT ![t] = p][u] \in W}),
                    pc[t] \in W, p \in W)
  BY <1>1, OneMoves DEF Shifts
<1>3. Shifts(Cardinality(Holders), Cardinality(Holders'),
             pc[t] \in {"held", "used"}, p \in {"held", "used"})
  BY <1>2 DEF Holders, At
<1>4. Shifts(Cardinality(At({"creating"})), Cardinality(At({"creating"})'),
             pc[t] \in {"creating"}, p \in {"creating"})
  BY <1>2 DEF At
<1>5. Shifts(Cardinality(At({"woken", "creating", "notify"})),
             Cardinality(At({"woken", "creating", "notify"})'),
             pc[t] \in {"woken", "creating", "notify"},
             p \in {"woken", "creating", "notify"})
  BY <1>2 DEF At
<1>6. (pc[t] \in {"creating"} <=> pc[t] = "creating")
      /\ (p \in {"creating"} <=> p = "creating")
  OBVIOUS
<1>. QED  BY <1>3, <1>4, <1>5, <1>6 DEF Shifts, Counts

-----------------------------------------------------------------------------
(* Steps.                                                                  *)

(* A step that moves one thread, and gives or takes no connection, keeps   *)
(* everything that is said of connections.                                 *)
LEMMA OnlyMoves ==
    ASSUME IInv, NEW t \in Threads, NEW p \in PC,
           pc' = [pc EXCEPT ![t] = p],
           pc[t] \in {"held", "used"} <=> p \in {"held", "used"},
           UNCHANGED <<idle, total, conn>>,
           bad' = bad, dropped' = dropped,
           expired' \in SUBSET Threads, missed' \in BOOLEAN
    PROVE  /\ TypeOK'
           /\ Accounting'
           /\ ExclusiveUse'
           /\ IdleHealthy'
<1>1. TypeOK'
  BY DEF IInv, TypeOK
<1>2. Holders' = Holders
  BY DEF IInv, TypeOK, Holders, At
<1>3. Accounting'
  BY <1>2 DEF IInv, Accounting
<1>4. ExclusiveUse'
  BY <1>2 DEF IInv, ExclusiveUse
<1>5. IdleHealthy'
  BY DEF IInv, IdleHealthy, IsHealthy
<1>. QED  BY <1>1, <1>3, <1>4, <1>5

(* The numbers in the bounds are numbers.                                  *)
LEMMA Numbers ==
    ASSUME TypeOK
    PROVE  /\ Len(idle) \in Nat
           /\ total \in Int
           /\ MinPool \in Nat
           /\ MaxPool \in Nat
           /\ Cardinality(Threads) \in Nat
BY LenProperties, PoolAssumption, FS_CardinalityType DEF TypeOK

(* PoolBound holds after a step that adds no connection, existing or coming. *)
LEMMA BoundKept ==
    ASSUME IInv, total' \in Int, Cardinality(At({"creating"}))' \in Nat,
           total' + Cardinality(At({"creating"}))'
              <= total + Cardinality(At({"creating"})),
           Cardinality(At({"creating"})) \in Nat
    PROVE  PoolBound'
<1>1. ASSUME NEW a \in Int, NEW b \in Int, NEW m \in Nat, NEW n \in Nat,
             b <= a, a <= m \/ a <= n
      PROVE  b <= m \/ b <= n
  BY <1>1
<1>2. /\ total + Cardinality(At({"creating"})) \in Int
      /\ total' + Cardinality(At({"creating"}))' \in Int
      /\ MinPool \in Nat /\ Cardinality(Threads) \in Nat
  BY Numbers DEF IInv
<1>3. \/ total + Cardinality(At({"creating"})) <= MinPool
      \/ total + Cardinality(At({"creating"})) <= Cardinality(Threads)
  BY DEF IInv, PoolBound
<1>4. \/ total' + Cardinality(At({"creating"}))' <= MinPool
      \/ total' + Cardinality(At({"creating"}))' <= Cardinality(Threads)
  BY <1>1, <1>2, <1>3
<1>. QED  BY <1>4 DEF PoolBound

(* A place is taken: one free connection or place less, one thread less on *)
(* its way.                                                                *)
LEMMA PlaceTaken ==
    ASSUME TypeOK, NEW k \in Nat, Len(idle) + (MaxPool - total) <= k
    PROVE  /\ Len(idle) + (MaxPool - (total + 1)) <= k - 1
           /\ (Len(idle) - 1) + (MaxPool - total) <= k - 1
           /\ (Len(idle) - 1) + (MaxPool - total) <= k
<1>1. Len(idle) \in Nat /\ total \in Int /\ MaxPool \in Nat
  BY Numbers
<1>. QED  BY <1>1

(* Acquire is entered.                                                     *)
LEMMA AcquireKeeps ==
    ASSUME IInv, NEW t \in Threads, Acquire(t)
    PROVE  IInv'
<1>1. TypeOK /\ "lock" \in PC
  BY DEF IInv, PC
<1>2. TypeOK' /\ Accounting' /\ ExclusiveUse' /\ IdleHealthy'
  BY <1>1, OnlyMoves DEF Acquire, IInv, TypeOK
<1>3. Counts(t, "lock")
  BY <1>1, Moved DEF Acquire
<1>4. PoolBound'
  BY <1>3 DEF Counts, Shifts, Acquire, IInv, PoolBound
<1>5. NoLostWakeup'
  <2>1. At({"waiting"})' = At({"waiting"})
    BY <1>1 DEF Acquire, At, TypeOK
  <2>. QED  BY <1>1, <1>3, <2>1 DEF Counts, Shifts, Acquire, IInv, NoLostWakeup
<1>. QED  BY <1>2, <1>4, <1>5 DEF IInv

(* wait_until stops at the deadline.                                       *)
LEMMA WaitTimesOutKeeps ==
    ASSUME IInv, NEW t \in Threads, WaitTimesOut(t)
    PROVE  IInv'
<1>1. TypeOK /\ "woken" \in PC
  BY DEF IInv, PC
<1>2. TypeOK' /\ Accounting' /\ ExclusiveUse' /\ IdleHealthy'
  BY <1>1, OnlyMoves DEF WaitTimesOut, IInv, TypeOK
<1>3. Counts(t, "woken")
  BY <1>1, Moved DEF WaitTimesOut
<1>4. PoolBound'
  BY <1>1, <1>3, Numbers DEF Counts, Shifts, WaitTimesOut, IInv, PoolBound
<1>5. NoLostWakeup'
  <2>1. At({"waiting"})' \subseteq At({"waiting"})
    BY <1>1 DEF WaitTimesOut, At, TypeOK
  <2>. QED  BY <1>1, <1>3, <2>1, Numbers
            DEF Counts, Shifts, WaitTimesOut, IInv, NoLostWakeup
<1>. QED  BY <1>2, <1>4, <1>5 DEF IInv

(* wait_until stops for no reason.                                         *)
LEMMA WakesSpuriouslyKeeps ==
    ASSUME IInv, NEW t \in Threads, WakesSpuriously(t)
    PROVE  IInv'
<1>1. TypeOK /\ "woken" \in PC
  BY DEF IInv, PC
<1>2. TypeOK' /\ Accounting' /\ ExclusiveUse' /\ IdleHealthy'
  BY <1>1, OnlyMoves DEF WakesSpuriously, IInv, TypeOK
<1>3. Counts(t, "woken")
  BY <1>1, Moved DEF WakesSpuriously
<1>4. PoolBound'
  BY <1>1, <1>3, Numbers DEF Counts, Shifts, WakesSpuriously, IInv, PoolBound
<1>5. NoLostWakeup'
  <2>1. At({"waiting"})' \subseteq At({"waiting"})
    BY <1>1 DEF WakesSpuriously, At, TypeOK
  <2>. QED  BY <1>1, <1>3, <2>1, Numbers
            DEF Counts, Shifts, WakesSpuriously, IInv, NoLostWakeup
<1>. QED  BY <1>2, <1>4, <1>5 DEF IInv

(* CreateConn fails.                                                       *)
LEMMA CreateFailsKeeps ==
    ASSUME IInv, NEW t \in Threads, CreateFails(t)
    PROVE  IInv'
<1>1. TypeOK /\ "waiting" \in PC
  BY DEF IInv, PC
<1>2. TypeOK' /\ Accounting' /\ ExclusiveUse' /\ IdleHealthy'
  BY <1>1, OnlyMoves DEF CreateFails, IInv, TypeOK
<1>3. Counts(t, "waiting")
  BY <1>1, Moved DEF CreateFails
<1>4. PoolBound'
  <2>1. /\ Cardinality(At({"creating"})) \in Nat
        /\ Cardinality(At({"creating"}))' \in Nat
        /\ Cardinality(At({"creating"}))' <= Cardinality(At({"creating"}))
    BY <1>3 DEF Counts, Shifts
  <2>2. total' = total /\ total \in Int
    BY <1>1 DEF CreateFails, TypeOK
  <2>. QED  BY <2>1, <2>2, BoundKept
<1>5. NoLostWakeup'
  BY DEF CreateFails, NoLostWakeup
<1>. QED  BY <1>2, <1>4, <1>5 DEF IInv

(* Acquire returns nullptr.                                                *)
LEMMA GiveUpKeeps ==
    ASSUME IInv, NEW t \in Threads, GiveUp(t)
    PROVE  IInv'
<1>1. TypeOK /\ "out" \in PC
  BY DEF IInv, PC
<1>2. TypeOK' /\ Accounting' /\ ExclusiveUse' /\ IdleHealthy'
  BY <1>1, OnlyMoves DEF GiveUp, IInv, TypeOK
<1>3. Counts(t, "out")
  BY <1>1, Moved DEF GiveUp
<1>4. PoolBound'
  BY <1>1, <1>3, Numbers DEF Counts, Shifts, GiveUp, IInv, PoolBound
<1>5. NoLostWakeup'
  BY DEF GiveUp, NoLostWakeup
<1>. QED  BY <1>2, <1>4, <1>5 DEF IInv

(* The deadline passes: nothing moves.                                     *)
LEMMA DeadlinePassesKeeps ==
    ASSUME IInv, NEW t \in Threads, DeadlinePasses(t)
    PROVE  IInv'
<1>1. UNCHANGED <<idle, total, pc, conn, dropped, bad, missed>>
      /\ expired' \in SUBSET Threads
  BY DEF DeadlinePasses, IInv, TypeOK
<1>2. TypeOK'
  BY <1>1 DEF IInv, TypeOK
<1>3. Accounting' /\ ExclusiveUse' /\ IdleHealthy'
  BY <1>1 DEF IInv, Accounting, ExclusiveUse, IdleHealthy, IsHealthy, Holders, At
<1>4. PoolBound' /\ NoLostWakeup'
  BY <1>1 DEF IInv, PoolBound, NoLostWakeup, At
<1>. QED  BY <1>2, <1>3, <1>4 DEF IInv

(* The server closes a connection: nobody notices.                         *)
LEMMA ServerDropsKeeps ==
    ASSUME IInv, NEW c \in Conns, ServerDrops(c)
    PROVE  IInv'
<1>1. UNCHANGED <<idle, total, pc, conn, expired, bad, missed>>
      /\ dropped' \in SUBSET Conns
  BY DEF ServerDrops, IInv, TypeOK
<1>2. TypeOK'
  BY <1>1 DEF IInv, TypeOK
<1>3. Accounting' /\ ExclusiveUse' /\ IdleHealthy'
  BY <1>1 DEF IInv, Accounting, ExclusiveUse, IdleHealthy, IsHealthy, Holders, At
<1>4. PoolBound' /\ NoLostWakeup'
  BY <1>1 DEF IInv, PoolBound, NoLostWakeup, At
<1>. QED  BY <1>2, <1>3, <1>4 DEF IInv

(* The pool at rest: nothing changes.                                      *)
LEMMA StutterKeeps ==
    ASSUME IInv, UNCHANGED vars
    PROVE  IInv'
<1>1. TypeOK'
  BY DEF vars, IInv, TypeOK
<1>2. Accounting' /\ ExclusiveUse' /\ IdleHealthy'
  BY DEF vars, IInv, Accounting, ExclusiveUse, IdleHealthy, IsHealthy, Holders, At
<1>3. PoolBound' /\ NoLostWakeup'
  BY DEF vars, IInv, PoolBound, NoLostWakeup, At
<1>. QED  BY <1>1, <1>2, <1>3 DEF IInv

(* With healthy connections in the deque, StartCreate and Wait find it     *)
(* empty and change neither the deque nor the counter.                     *)
LEMMA FindsEmpty ==
    ASSUME IInv, NEW t \in Threads, StartCreate(t) \/ Wait(t)
    PROVE  /\ idle = <<>> /\ Len(idle) = 0
           /\ UNCHANGED <<idle, total>>
           /\ StartCreate(t) => total < MaxPool
           /\ Wait(t) => total >= MaxPool
<1>1. FromFirstHealthy(idle) = idle
  BY NothingToDiscard DEF IInv
<1>2. Len(idle) \in Nat /\ total \in Int /\ MaxPool \in Nat
  BY LenProperties, PoolAssumption DEF IInv, TypeOK
<1>3. idle = <<>> /\ idle' = idle
  BY <1>1 DEF StartCreate, Wait
<1>4. Len(idle) = 0
  BY <1>3, EmptySeq
<1>5. total' = total
  BY <1>1, <1>2 DEF StartCreate, Wait
<1>6. StartCreate(t) => total < MaxPool
  BY <1>1, <1>2 DEF StartCreate
<1>7. Wait(t) => total >= MaxPool
  BY <1>1, <1>2 DEF Wait
<1>. QED  BY <1>3, <1>4, <1>5, <1>6, <1>7

(* A thread goes to wait: every place below the limit is taken.            *)
LEMMA WaitKeeps ==
    ASSUME IInv, NEW t \in Threads, Wait(t)
    PROVE  IInv'
<1>1. TypeOK /\ "waiting" \in PC
  BY DEF IInv, PC
<1>2. Len(idle) = 0 /\ UNCHANGED <<idle, total>> /\ total >= MaxPool
  BY FindsEmpty
<1>3. TypeOK' /\ Accounting' /\ ExclusiveUse' /\ IdleHealthy'
  BY <1>1, <1>2, OnlyMoves DEF Wait, AtLoopHead, IInv, TypeOK
<1>4. Counts(t, "waiting")
  BY <1>1, Moved DEF Wait
<1>5. PoolBound'
  BY <1>1, <1>2, <1>4 DEF Counts, Shifts, Wait, AtLoopHead, IInv, PoolBound, TypeOK
<1>6. NoLostWakeup'
  BY <1>1, <1>2, <1>4, PoolAssumption DEF Counts, Shifts, NoLostWakeup, TypeOK
<1>. QED  BY <1>3, <1>5, <1>6 DEF IInv

(* A thread starts to connect: the deque is empty, so every connection     *)
(* that exists or is coming has a thread of its own.                       *)
LEMMA StartCreateKeeps ==
    ASSUME IInv, NEW t \in Threads, StartCreate(t)
    PROVE  IInv'
<1>1. TypeOK /\ "creating" \in PC
  BY DEF IInv, PC
<1>2. Len(idle) = 0 /\ UNCHANGED <<idle, total>>
  BY FindsEmpty
<1>3. TypeOK' /\ Accounting' /\ ExclusiveUse' /\ IdleHealthy'
  BY <1>1, <1>2, OnlyMoves DEF StartCreate, AtLoopHead, IInv, TypeOK
<1>4. Counts(t, "creating")
  BY <1>1, Moved DEF StartCreate
<1>5. PoolBound'
  <2>1. /\ Holders' \in SUBSET Threads
        /\ At({"creating"})' \in SUBSET Threads
        /\ Holders' \cap At({"creating"})' = {}
    BY DEF Holders, At
  <2>2. IsFiniteSet(Holders') /\ IsFiniteSet(At({"creating"})')
    BY <2>1, PoolAssumption, FS_Subset
  <2>3. Cardinality(Holders' \cup At({"creating"})')
          = Cardinality(Holders') + Cardinality(At({"creating"})')
    BY <2>1, <2>2, DisjointUnion
  <2>4. Cardinality(Holders' \cup At({"creating"})') <= Cardinality(Threads)
    BY <2>1, PoolAssumption, FS_Subset
  <2>5. total' = Cardinality(Holders')
    BY <1>2, <1>3, <1>4 DEF Accounting, Counts, Shifts
  <2>. QED  BY <2>3, <2>4, <2>5 DEF PoolBound
<1>6. NoLostWakeup'
  <2>1. At({"waiting"})' \subseteq At({"waiting"})
    BY <1>1 DEF StartCreate, At, TypeOK
  <2>. QED  BY <1>1, <1>2, <1>4, <2>1, PoolAssumption
            DEF Counts, Shifts, StartCreate, AtLoopHead, IInv, NoLostWakeup, TypeOK
<1>. QED  BY <1>3, <1>5, <1>6 DEF IInv

(* CreateConn succeeds: a connection that was not live gets a holder.      *)
LEMMA CreateOkKeeps ==
    ASSUME IInv, NEW t \in Threads, CreateOk(t)
    PROVE  IInv'
<1>1. TypeOK /\ "held" \in PC /\ pc[t] = "creating"
  BY DEF IInv, PC, CreateOk
<1>2. PICK c \in Conns \ Live : conn' = [conn EXCEPT ![t] = c]
  BY DEF CreateOk
<1>3. Counts(t, "held")
  BY <1>1, Moved DEF CreateOk
<1>3a. /\ Cardinality(Holders) \in Nat
      /\ Cardinality(At({"creating"})) \in Nat
      /\ Cardinality(At({"woken", "creating", "notify"})) \in Nat
      /\ Cardinality(Holders') = Cardinality(Holders) + 1
      /\ Cardinality(At({"creating"})')
           = Cardinality(At({"creating"})) - 1
      /\ Cardinality(At({"woken", "creating", "notify"})')
           = Cardinality(At({"woken", "creating", "notify"})) - 1
  BY <1>1, <1>3 DEF Counts, Shifts
<1>4. TypeOK'
  BY <1>1, <1>2 DEF CreateOk, TypeOK
<1>5. Accounting'
  BY <1>1, <1>3a, Numbers DEF CreateOk, IInv, Accounting
<1>6. ExclusiveUse'
  <2>1. \A u \in Threads : u \in Holders' <=> u \in Holders \/ u = t
    BY <1>1 DEF CreateOk, Holders, At, TypeOK
  <2>2. c # NoConn /\ c \notin Range(idle) /\ \A u \in Holders : conn[u] # c
    BY <1>2, PoolAssumption DEF Live
  <2>3. Holders \subseteq Threads /\ Holders' \subseteq Threads
    BY DEF Holders, At
  <2>4. \A u \in Threads : conn'[u] = IF u = t THEN c ELSE conn[u]
    BY <1>1, <1>2 DEF TypeOK
  <2>5. idle' = idle
    BY DEF CreateOk
  <2>6. \A u \in Threads : u \in Holders' <=> conn'[u] # NoConn
    BY <2>1, <2>2, <2>4 DEF IInv, ExclusiveUse
  <2>7. \A u, w \in Holders' : conn'[u] = conn'[w] => u = w
    BY <2>1, <2>2, <2>3, <2>4 DEF IInv, ExclusiveUse
  <2>8. \A u \in Holders' : conn'[u] \notin Range(idle)
    BY <2>1, <2>2, <2>3, <2>4 DEF IInv, ExclusiveUse
  <2>. QED  BY <2>5, <2>6, <2>7, <2>8 DEF IInv, ExclusiveUse
<1>7. IdleHealthy'
  BY DEF CreateOk, IInv, IdleHealthy, IsHealthy
<1>8. PoolBound'
  <2>1. total' = total + 1 /\ total \in Int
    BY <1>1 DEF CreateOk, TypeOK
  <2>2. Cardinality(At({"creating"}))' \in Nat
    BY <1>3 DEF Counts, Shifts
  <2>. QED  BY <1>3a, <2>1, <2>2, BoundKept
<1>9. NoLostWakeup'
  <2>1. At({"waiting"})' \subseteq At({"waiting"})
    BY <1>1 DEF CreateOk, At, TypeOK
  <2>2. missed' = missed /\ Len(idle') = Len(idle) /\ total' = total + 1
    BY DEF CreateOk
  <2>3. SUFFICES ASSUME ~missed, At({"waiting"}) # {}
                 PROVE  Len(idle) + (MaxPool - (total + 1))
                          <= Cardinality(At({"woken", "creating", "notify"})) - 1
    BY <1>3a, <2>1, <2>2 DEF NoLostWakeup
  <2>4. Len(idle) + (MaxPool - total)
          <= Cardinality(At({"woken", "creating", "notify"}))
    BY <2>3 DEF IInv, NoLostWakeup
  <2>. QED  BY <1>1, <1>3a, <2>4, PlaceTaken
<1>. QED  BY <1>4, <1>5, <1>6, <1>7, <1>8, <1>9 DEF IInv

(* The front of the deque gets a holder.                                   *)
LEMMA TakeIdleKeeps ==
    ASSUME IInv, NEW t \in Threads, TakeIdle(t)
    PROVE  IInv'
<1>1. TypeOK /\ "held" \in PC /\ pc[t] \in {"lock", "woken"}
  BY DEF IInv, PC, TakeIdle, AtLoopHead
<1>2. /\ idle # <<>> /\ idle' = Tail(idle) /\ total' = total
      /\ conn' = [conn EXCEPT ![t] = Head(idle)]
  <2>1. FromFirstHealthy(idle) = idle
    BY NothingToDiscard DEF IInv
  <2>. QED  BY <1>1, <2>1, Numbers DEF TakeIdle
<1>3. /\ Head(idle) \in Conns
      /\ Head(idle) \in Range(idle)
      /\ idle' \in Seq(Conns)
      /\ Len(idle') = Len(idle) - 1
      /\ Range(idle') = Range(idle) \ {Head(idle)}
      /\ IsInjective(idle')
  BY <1>1, <1>2, PopFront DEF IInv, ExclusiveUse, TypeOK
<1>4. Counts(t, "held")
  BY <1>1, Moved DEF TakeIdle
<1>4a. /\ Cardinality(Holders) \in Nat
      /\ Cardinality(At({"creating"})) \in Nat
      /\ Cardinality(At({"woken", "creating", "notify"})) \in Nat
      /\ Cardinality(Holders') = Cardinality(Holders) + 1
      /\ Cardinality(At({"creating"})')
           = Cardinality(At({"creating"}))
      /\ Cardinality(At({"woken", "creating", "notify"})')
           \in {Cardinality(At({"woken", "creating", "notify"})),
               Cardinality(At({"woken", "creating", "notify"})) - 1}
  BY <1>1, <1>4 DEF Counts, Shifts
<1>5. TypeOK'
  BY <1>1, <1>2, <1>3 DEF TakeIdle, TypeOK
<1>6. Accounting'
  BY <1>1, <1>2, <1>3, <1>4a, Numbers DEF IInv, Accounting
<1>7. ExclusiveUse'
  <2>1. \A u \in Threads : u \in Holders' <=> u \in Holders \/ u = t
    BY <1>1 DEF TakeIdle, Holders, At, TypeOK
  <2>2. Head(idle) # NoConn /\ \A u \in Holders : conn[u] # Head(idle)
    BY <1>3, PoolAssumption DEF IInv, ExclusiveUse
  <2>3. Holders \subseteq Threads /\ Holders' \subseteq Threads
    BY DEF Holders, At
  <2>4. \A u \in Threads : conn'[u] = IF u = t THEN Head(idle) ELSE conn[u]
    BY <1>1, <1>2 DEF TypeOK
  <2>5. \A u \in Threads : u \in Holders' <=> conn'[u] # NoConn
    BY <2>1, <2>2, <2>4 DEF IInv, ExclusiveUse
  <2>6. \A u, w \in Holders' : conn'[u] = conn'[w] => u = w
    BY <2>1, <2>2, <2>3, <2>4 DEF IInv, ExclusiveUse
  <2>7. \A u \in Holders' : conn'[u] \notin Range(idle')
    BY <2>1, <2>2, <2>3, <2>4, <1>3 DEF IInv, ExclusiveUse
  <2>. QED  BY <1>3, <2>5, <2>6, <2>7 DEF ExclusiveUse
<1>8. IdleHealthy'
  <2>1. \A i \in 1..Len(idle') : i + 1 \in 1..Len(idle) /\ idle'[i] = idle[i+1]
    BY <1>1, <1>2, HeadTailProperties, Numbers DEF TypeOK
  <2>. QED  BY <2>1 DEF TakeIdle, IInv, IdleHealthy, IsHealthy
<1>9. PoolBound'
  <2>1. total' = total /\ total \in Int
    BY <1>1, <1>2 DEF TypeOK
  <2>. QED  BY <1>4a, <2>1, BoundKept
<1>10. NoLostWakeup'
  <2>1. At({"waiting"})' \subseteq At({"waiting"})
    BY <1>1 DEF TakeIdle, At, TypeOK
  <2>2. missed' = missed /\ Len(idle') = Len(idle) - 1 /\ total' = total
    BY <1>2, <1>3 DEF TakeIdle
  <2>3. SUFFICES ASSUME ~missed, At({"waiting"}) # {}
                 PROVE  (Len(idle) - 1) + (MaxPool - total)
                          <= Cardinality(At({"woken", "creating", "notify"})')
    BY <2>1, <2>2 DEF NoLostWakeup
  <2>4. Len(idle) + (MaxPool - total)
          <= Cardinality(At({"woken", "creating", "notify"}))
    BY <2>3 DEF IInv, NoLostWakeup
  <2>. QED  BY <1>1, <1>4a, <2>4, PlaceTaken
<1>. QED  BY <1>5, <1>6, <1>7, <1>8, <1>9, <1>10 DEF IInv

(* A statement is run: if it marks a connection as failed, that connection *)
(* is held, so it is not in the deque.                                     *)
LEMMA ExecKeeps ==
    ASSUME IInv, NEW t \in Threads, Exec(t)
    PROVE  IInv'
<1>1. TypeOK /\ "used" \in PC /\ pc[t] \in {"held", "used"}
  BY DEF IInv, PC, Exec
<1>2. t \in Holders /\ Holders' = Holders
  BY <1>1 DEF Exec, Holders, At, TypeOK
<1>3. TypeOK'
  BY <1>1 DEF Exec, TypeOK
<1>4. Accounting' /\ ExclusiveUse'
  BY <1>2 DEF Exec, IInv, Accounting, ExclusiveUse
<1>5. IdleHealthy'
  <2>1. \A i \in 1..Len(idle) : idle[i] # conn[t]
    <3>1. DOMAIN idle = 1..Len(idle)
      BY <1>1, LenProperties DEF TypeOK
    <3>. QED  BY <3>1, <1>2 DEF IInv, ExclusiveUse, Range
  <2>. QED  BY <2>1 DEF Exec, IInv, IdleHealthy, IsHealthy
<1>6. At({"creating"})' = At({"creating"})
  BY <1>1 DEF Exec, At, TypeOK
<1>7. PoolBound'
  BY <1>6 DEF Exec, IInv, PoolBound
<1>8. NoLostWakeup'
  <2>1. /\ At({"waiting"})' = At({"waiting"})
        /\ At({"woken", "creating", "notify"})'
             = At({"woken", "creating", "notify"})
    BY <1>1 DEF Exec, At, TypeOK
  <2>. QED  BY <2>1 DEF Exec, IInv, NoLostWakeup
<1>. QED  BY <1>3, <1>4, <1>5, <1>7, <1>8 DEF IInv

(* A connection is given back: pushed if healthy, otherwise closed and no  *)
(* longer counted.                                                         *)
LEMMA ReleaseKeeps ==
    ASSUME IInv, NEW t \in Threads, Release(t)
    PROVE  IInv'
<1> DEFINE c == conn[t]
<1>1. TypeOK /\ "notify" \in PC /\ pc[t] = "used"
  BY DEF IInv, PC, Release
<1>2. t \in Holders /\ c \in Conns /\ c \notin Range(idle)
  BY <1>1 DEF Holders, At, IInv, ExclusiveUse, TypeOK
<1>3. Counts(t, "notify")
  BY <1>1, Moved DEF Release
<1>4. /\ Cardinality(Holders) \in Nat
      /\ Cardinality(Holders') \in Nat
      /\ Cardinality(At({"creating"})) \in Nat
      /\ Cardinality(At({"woken", "creating", "notify"})) \in Nat
      /\ Cardinality(Holders') = Cardinality(Holders) - 1
      /\ Cardinality(At({"creating"})') = Cardinality(At({"creating"}))
      /\ Cardinality(At({"woken", "creating", "notify"})')
           = Cardinality(At({"woken", "creating", "notify"})) + 1
  BY <1>1, <1>3 DEF Counts, Shifts
<1>5. total > 0
  BY <1>1, <1>4, Numbers DEF IInv, Accounting
<1>6. \/ /\ IsHealthy(c)
         /\ idle' = Append(idle, c)
         /\ total' = total /\ dropped' = dropped /\ bad' = bad
      \/ /\ idle' = idle
         /\ total' = total - 1 /\ dropped' = dropped \ {c} /\ bad' = bad \ {c}
  BY <1>5 DEF Release
<1>7. /\ idle' \in Seq(Conns)
      /\ Range(idle') \subseteq Range(idle) \cup {c}
      /\ IsInjective(idle')
      /\ \/ Len(idle') = Len(idle) + 1 /\ total' = total
         \/ Len(idle') = Len(idle) /\ total' = total - 1
  <2>1. CASE idle' = Append(idle, c) /\ total' = total
    <3>1. /\ Append(idle, c) \in Seq(Conns)
          /\ Len(Append(idle, c)) = Len(idle) + 1
          /\ Range(Append(idle, c)) = Range(idle) \cup {c}
          /\ IsInjective(Append(idle, c))
      BY <1>1, <1>2, PushBack DEF IInv, ExclusiveUse, TypeOK
    <3>. QED  BY <2>1, <3>1
  <2>2. CASE idle' = idle /\ total' = total - 1
    BY <1>1, <2>2 DEF IInv, ExclusiveUse, TypeOK
  <2>. QED  BY <1>6, <2>1, <2>2
<1>8. /\ total' \in Int /\ Len(idle') \in Nat
      /\ \/ Len(idle') = Len(idle) + 1 /\ total' = total
         \/ Len(idle') = Len(idle) /\ total' = total - 1
  BY <1>1, <1>7, Numbers
<1>8a. Len(idle) \in Nat /\ total \in Int /\ MaxPool \in Nat
  BY <1>1, Numbers
<1>9. TypeOK'
  BY <1>1, <1>2, <1>6, <1>7, <1>8 DEF Release, TypeOK
<1>10. Accounting'
  <2>1. total = Len(idle) + Cardinality(Holders)
    BY DEF IInv, Accounting
  <2>2. CASE Len(idle') = Len(idle) + 1 /\ total' = total
    BY <1>4, <1>8a, <2>1, <2>2 DEF Accounting
  <2>3. CASE Len(idle') = Len(idle) /\ total' = total - 1
    BY <1>4, <1>8a, <2>1, <2>3 DEF Accounting
  <2>. QED  BY <1>8, <2>2, <2>3
<1>11. ExclusiveUse'
  <2>1. \A u \in Threads : u \in Holders' <=> u \in Holders /\ u # t
    BY <1>1 DEF Release, Holders, At, TypeOK
  <2>2. Holders \subseteq Threads /\ Holders' \subseteq Threads
    BY DEF Holders, At
  <2>3. \A u \in Threads : conn'[u] = IF u = t THEN NoConn ELSE conn[u]
    BY <1>1 DEF Release, TypeOK
  <2>4. \A u \in Threads : u \in Holders' <=> conn'[u] # NoConn
    BY <2>1, <2>3 DEF IInv, ExclusiveUse
  <2>5. \A u, w \in Holders' : conn'[u] = conn'[w] => u = w
    BY <2>1, <2>2, <2>3 DEF IInv, ExclusiveUse
  <2>6. \A u \in Holders' : conn'[u] \notin Range(idle')
    BY <1>2, <1>7, <2>1, <2>2, <2>3 DEF IInv, ExclusiveUse
  <2>. QED  BY <1>7, <2>4, <2>5, <2>6 DEF ExclusiveUse
<1>12. IdleHealthy'
  <2>1. CASE IsHealthy(c) /\ idle' = Append(idle, c) /\ bad' = bad
    <3>1. /\ Len(idle') = Len(idle) + 1
          /\ \A i \in 1..Len(idle) : idle'[i] = idle[i]
          /\ idle'[Len(idle) + 1] = c
      BY <1>1, <1>2, <2>1, AppendProperties DEF TypeOK
    <3>2. \A i \in 1..Len(idle') : i \in 1..Len(idle) \/ i = Len(idle) + 1
      BY <1>1, <3>1, Numbers
    <3>. HIDE DEF c
    <3>. QED  BY <2>1, <3>1, <3>2 DEF IInv, IdleHealthy, IsHealthy
  <2>2. CASE idle' = idle /\ bad' = bad \ {c}
    BY <2>2 DEF IInv, IdleHealthy, IsHealthy
  <2>. QED  BY <1>6, <2>1, <2>2
<1>13. PoolBound'
  <2>1. Cardinality(At({"creating"}))' = Cardinality(At({"creating"}))
    BY <1>4
  <2>2. total' <= total
    BY <1>8, <1>8a
  <2>. QED  BY <1>4, <1>8, <1>8a, <2>1, <2>2, BoundKept
<1>14. NoLostWakeup'
  <2>1. At({"waiting"})' \subseteq At({"waiting"})
    BY <1>1 DEF Release, At, TypeOK
  <2>2. Len(idle') + (MaxPool - total') = Len(idle) + (MaxPool - total) + 1
    <3>1. CASE Len(idle') = Len(idle) + 1 /\ total' = total
      BY <1>8a, <3>1
    <3>2. CASE Len(idle') = Len(idle) /\ total' = total - 1
      BY <1>8a, <3>2
    <3>. QED  BY <1>8, <3>1, <3>2
  <2>3. Len(idle) + (MaxPool - total) \in Int
    BY <1>1, Numbers
  <2>. QED  BY <1>4, <2>1, <2>2, <2>3 DEF Release, IInv, NoLostWakeup
<1>. QED  BY <1>9, <1>10, <1>11, <1>12, <1>13, <1>14 DEF IInv

(* One waiting thread is woken up, if there is one.                        *)
LEMMA NotifyOneKeeps ==
    ASSUME IInv, NEW t \in Threads, NotifyOne(t)
    PROVE  IInv'
<1>1. TypeOK /\ pc[t] = "notify" /\ pc \in [Threads -> PC]
  BY DEF IInv, TypeOK, NotifyOne
<1>2. UNCHANGED <<idle, total, conn, expired, dropped, bad, missed>>
  BY DEF NotifyOne
<1>3. CASE At({"waiting"}) = {} /\ pc' = [pc EXCEPT ![t] = "out"]
  <2>1. "out" \in PC
    BY DEF PC
  <2>2. TypeOK' /\ Accounting' /\ ExclusiveUse' /\ IdleHealthy'
    BY <1>1, <1>2, <1>3, <2>1, OnlyMoves DEF TypeOK
  <2>3. At({"creating"})' = At({"creating"}) /\ At({"waiting"})' = {}
    BY <1>1, <1>3 DEF At
  <2>4. PoolBound' /\ NoLostWakeup'
    BY <1>2, <2>3 DEF IInv, PoolBound, NoLostWakeup
  <2>. QED  BY <2>2, <2>4 DEF IInv
<1>4. CASE \E w \in At({"waiting"}) :
               pc' = [pc EXCEPT ![t] = "out", ![w] = "woken"]
  <2>1. PICK w \in At({"waiting"}) :
               pc' = [pc EXCEPT ![t] = "out", ![w] = "woken"]
    BY <1>4
  <2>2. w \in Threads /\ pc[w] = "waiting" /\ w # t
    BY <1>1, <2>1 DEF At
  <2>3. /\ Holders' = Holders
        /\ At({"creating"})' = At({"creating"})
        /\ At({"waiting"}) # {}
        /\ pc' \in [Threads -> PC]
    BY <1>1, <2>1, <2>2 DEF Holders, At, PC
  <2>4. TypeOK' /\ Accounting' /\ ExclusiveUse' /\ IdleHealthy'
    BY <1>1, <1>2, <2>3
       DEF IInv, TypeOK, Accounting, ExclusiveUse, IdleHealthy, IsHealthy
  <2>5. Cardinality(At({"woken", "creating", "notify"})')
          = Cardinality(At({"woken", "creating", "notify"}))
    <3> DEFINE W == {"woken", "creating", "notify"}
               f == [pc EXCEPT ![t] = "out"]
    <3>1. "out" \in PC /\ "woken" \in PC /\ f \in [Threads -> PC]
      BY <1>1 DEF PC
    <3>2. f[w] = "waiting" /\ pc' = [f EXCEPT ![w] = "woken"]
      BY <1>1, <2>1, <2>2
    <3>3. /\ Cardinality({u \in Threads : pc[u] \in W}) \in Nat
          /\ Cardinality({u \in Threads : f[u] \in W})
               = Cardinality({u \in Threads : pc[u] \in W}) - 1
      <4>1. "notify" \in W /\ "out" \notin W
        OBVIOUS
      <4>. HIDE DEF W
      <4>. QED  BY <1>1, <3>1, <4>1, OneMoves
    <3>4. Cardinality({u \in Threads : [f EXCEPT ![w] = "woken"][u] \in W})
               = Cardinality({u \in Threads : f[u] \in W}) + 1
      <4>1. "waiting" \notin W /\ "woken" \in W
        OBVIOUS
      <4>. HIDE DEF f, W
      <4>. QED  BY <2>2, <3>1, <3>2, <4>1, OneMoves
    <3>. QED  BY <3>2, <3>3, <3>4 DEF At
  <2>6. PoolBound' /\ NoLostWakeup'
    BY <1>2, <2>3, <2>5 DEF IInv, PoolBound, NoLostWakeup
  <2>. QED  BY <2>4, <2>6 DEF IInv
<1>. QED  BY <1>3, <1>4 DEF NotifyOne

-----------------------------------------------------------------------------
(* The theorems.                                                           *)

(* The constructor establishes the invariant.                              *)
LEMMA InitInv == Init => IInv
<1> SUFFICES ASSUME Init PROVE IInv
  OBVIOUS
<1>1. PICK n \in 0..MinPool : idle \in Injection(1..n, Conns)
  BY DEF Init
<1>2. n \in Nat /\ n <= MinPool /\ MinPool \in Nat
  BY <1>1, PoolAssumption
<1>3. idle \in [1..n -> Conns] /\ IsInjective(idle)
  BY <1>1 DEF Injection
<1>4. idle \in Seq(Conns) /\ Len(idle) = n
  BY <1>2, <1>3
<1>4a. /\ total = n
       /\ pc = [t \in Threads |-> "out"]
       /\ conn = [t \in Threads |-> NoConn]
       /\ expired = {} /\ dropped = {} /\ bad = {} /\ missed = FALSE
  BY <1>4 DEF Init
<1>5. TypeOK
  <2>1. missed \in BOOLEAN
    BY <1>4a
  <2>2. /\ pc \in [Threads -> PC]
        /\ conn \in [Threads -> Conns \cup {NoConn}]
        /\ expired \in SUBSET Threads
        /\ dropped \in SUBSET Conns
        /\ bad \in SUBSET Conns
    BY <1>4a DEF PC
  <2>3. total \in Int
    BY <1>2, <1>4a
  <2>. QED  BY <1>4, <2>1, <2>2, <2>3 DEF TypeOK
<1>6. Holders = {} /\ At({"creating"}) = {} /\ At({"waiting"}) = {}
  BY DEF Init, Holders, At
<1>7. Cardinality({}) = 0
  BY FS_EmptySet
<1>8. Accounting
  BY <1>2, <1>4, <1>6, <1>7 DEF Init, Accounting
<1>9. ExclusiveUse
  BY <1>3, <1>6 DEF Init, ExclusiveUse
<1>10. IdleHealthy
  BY DEF Init, IdleHealthy, IsHealthy
<1>11. PoolBound
  BY <1>2, <1>4a, <1>6, <1>7 DEF PoolBound
<1>12. NoLostWakeup
  BY <1>6 DEF NoLostWakeup
<1>. QED  BY <1>5, <1>8, <1>9, <1>10, <1>11, <1>12 DEF IInv

(* The invariant is inductive ...                                          *)
LEMMA PoolStep ==
    ASSUME IInv, Next \/ UNCHANGED vars
    PROVE  IInv'
<1>1. CASE UNCHANGED vars
  BY <1>1, StutterKeeps
<1>2. ASSUME NEW t \in Threads, Acquire(t) \/ ThreadStep(t) PROVE IInv'
  BY <1>2, AcquireKeeps, TakeIdleKeeps, StartCreateKeeps, WaitKeeps,
     CreateOkKeeps, CreateFailsKeeps, WaitTimesOutKeeps, GiveUpKeeps,
     ExecKeeps, ReleaseKeeps, NotifyOneKeeps DEF ThreadStep
<1>3. ASSUME NEW t \in Threads, DeadlinePasses(t) \/ WakesSpuriously(t)
      PROVE  IInv'
  BY <1>3, DeadlinePassesKeeps, WakesSpuriouslyKeeps
<1>4. ASSUME NEW c \in Conns, ServerDrops(c) PROVE IInv'
  BY <1>4, ServerDropsKeeps
<1>. QED  BY <1>1, <1>2, <1>3, <1>4 DEF Next

(* ... so it holds in every reachable state.                               *)
THEOREM PoolInvariant == Spec => []IInv
<1>1. IInv /\ [Next]_vars => IInv'
  BY PoolStep
<1>. QED  BY <1>1, InitInv, PTL DEF Spec

(* The variables keep their types.                                         *)
THEOREM TypeCorrect == Spec => []TypeOK
BY PoolInvariant, PTL DEF IInv

(* total_created_ is the number of connections that exist: the unguarded   *)
(* decrement of Acquire (db_pool.cc:55) cannot wrap around.                *)
THEOREM AccountingCorrect == Spec => []Accounting
BY PoolInvariant, PTL DEF IInv

(* No connection is ever in the hands of two handlers, or of a handler and *)
(* of the deque (db_pool.cc:45-91).                                        *)
THEOREM ConnectionsExclusive == Spec => []ExclusiveUse
BY PoolInvariant, PTL DEF IInv

(* A connection seen to fail is never offered again (db_pool.cc:83-85).    *)
THEOREM DequeHealthy == Spec => []IdleHealthy
BY PoolInvariant, PTL DEF IInv

(* The pool never has more connections, counting those being opened, than  *)
(* threads or constructor connections (db_pool.cc:63-68): max_pool_ is     *)
(* overshot by the threads that connect at once, and by no more.           *)
THEOREM PoolBounded == Spec => []PoolBound
BY PoolInvariant, PTL DEF IInv

(* Without a failed CreateConn or a timeout no wakeup is lost              *)
(* (db_pool.cc:75,89-90).                                                  *)
THEOREM WakeupsKept == Spec => []NoLostWakeup
BY PoolInvariant, PTL DEF IInv

-----------------------------------------------------------------------------
(* The pool implements the abstract allocator.                             *)

Asking == At({"lock", "creating", "waiting", "woken"})

(* A step in which no thread enters or leaves Acquire and no connection    *)
(* changes hands is invisible to the users of the pool.                    *)
LEMMA Invisible ==
    ASSUME IInv, NEW t \in Threads, NEW p \in PC,
           pc' = [pc EXCEPT ![t] = p],
           pc[t] \in {"lock", "creating", "waiting", "woken"} <=>
               p \in {"lock", "creating", "waiting", "woken"},
           UNCHANGED <<idle, conn>>
    PROVE  UNCHANGED Alloc!allocVars
<1>1. At({"lock", "creating", "waiting", "woken"})'
        = At({"lock", "creating", "waiting", "woken"})
  BY DEF IInv, TypeOK, At
<1>. QED  BY <1>1 DEF Alloc!allocVars

(* Every step of the pool is a step of the allocator or invisible.         *)
LEMMA StepRefines ==
    ASSUME IInv, Next
    PROVE  [Alloc!Next]_(Alloc!allocVars)
<1>1. TypeOK /\ pc \in [Threads -> PC] /\ conn \in [Threads -> Conns \cup {NoConn}]
  BY DEF IInv, TypeOK
<1>2. ASSUME NEW t \in Threads, Acquire(t) PROVE Alloc!Ask(t)
  <2>1. conn[t] = NoConn
    BY <1>1, <1>2 DEF Acquire, Holders, At, IInv, ExclusiveUse
  <2>. QED  BY <1>1, <1>2, <2>1 DEF Acquire, Alloc!Ask, At
<1>3. ASSUME NEW t \in Threads, TakeIdle(t) PROVE Alloc!Grant(t)
  <2>1. /\ idle # <<>> /\ idle' = Tail(idle)
        /\ conn' = [conn EXCEPT ![t] = Head(idle)]
    BY <1>3, NothingToDiscard DEF TakeIdle, IInv
  <2>2. /\ Head(idle) \in Conns /\ Head(idle) \in Range(idle)
        /\ Range(idle') = Range(idle) \ {Head(idle)}
    BY <2>1, PopFront DEF IInv, ExclusiveUse, TypeOK
  <2>3. \A u \in Threads : conn[u] # Head(idle)
    BY <2>2, PoolAssumption DEF IInv, ExclusiveUse
  <2>4. t \in Asking /\ Asking' = Asking \ {t}
    BY <1>1, <1>3 DEF TakeIdle, AtLoopHead, Asking, At
  <2>. QED  BY <2>1, <2>2, <2>3, <2>4 DEF Alloc!Grant, Asking
<1>4. ASSUME NEW t \in Threads, CreateOk(t) PROVE Alloc!Grant(t)
  <2>1. PICK c \in Conns \ Live : conn' = [conn EXCEPT ![t] = c]
    BY <1>4 DEF CreateOk
  <2>2. c \notin Range(idle) /\ \A u \in Threads : conn[u] # c
    BY <2>1, PoolAssumption DEF Live, IInv, ExclusiveUse
  <2>3. idle' = idle
    BY <1>4 DEF CreateOk
  <2>4. t \in Asking /\ Asking' = Asking \ {t}
    BY <1>1, <1>4 DEF CreateOk, Asking, At
  <2>. QED  BY <2>1, <2>2, <2>3, <2>4 DEF Alloc!Grant, Asking
<1>5. ASSUME NEW t \in Threads, GiveUp(t) PROVE Alloc!Refuse(t)
  <2>1. t \in Asking /\ Asking' = Asking \ {t}
    BY <1>1, <1>5 DEF GiveUp, Asking, At
  <2>. QED  BY <1>5, <2>1 DEF GiveUp, Alloc!Refuse, Asking
<1>6. ASSUME NEW t \in Threads, Release(t) PROVE Alloc!GiveBack(t)
  <2>1. t \in Holders /\ conn[t] # NoConn /\ conn[t] \in Conns
    BY <1>1, <1>6 DEF Release, Holders, At, IInv, ExclusiveUse
  <2>2. idle' = idle \/ idle' = Append(idle, conn[t])
    BY <1>6 DEF Release
  <2>3. Range(Append(idle, conn[t])) = Range(idle) \cup {conn[t]}
    BY <1>1, <2>1, PushBack DEF IInv, ExclusiveUse, TypeOK
  <2>4. Asking' = Asking
    BY <1>1, <1>6 DEF Release, Asking, At
  <2>5. conn' = [conn EXCEPT ![t] = NoConn]
    BY <1>6 DEF Release
  <2>. QED  BY <2>1, <2>2, <2>3, <2>4, <2>5 DEF Alloc!GiveBack, Asking
<1>7. ASSUME NEW t \in Threads,
             StartCreate(t) \/ Wait(t)
      PROVE  UNCHANGED Alloc!allocVars
  <2>1. idle' = idle
    BY <1>7, FindsEmpty
  <2>. QED  BY <1>7, <2>1, Invisible DEF StartCreate, Wait, AtLoopHead, PC
<1>8. ASSUME NEW t \in Threads,
             CreateFails(t) \/ WaitTimesOut(t) \/ WakesSpuriously(t) \/ Exec(t)
      PROVE  UNCHANGED Alloc!allocVars
  BY <1>8, Invisible DEF CreateFails, WaitTimesOut, WakesSpuriously, Exec, PC
<1>9. ASSUME NEW t \in Threads, NotifyOne(t)
      PROVE  UNCHANGED Alloc!allocVars
  <2>1. Asking' = Asking
    BY <1>1, <1>9 DEF NotifyOne, Asking, At
  <2>. QED  BY <1>9, <2>1 DEF NotifyOne, Asking, Alloc!allocVars
<1>10. ASSUME NEW t \in Threads, DeadlinePasses(t)
       PROVE  UNCHANGED Alloc!allocVars
  BY <1>10 DEF DeadlinePasses, At, Alloc!allocVars
<1>11. ASSUME NEW c \in Conns, ServerDrops(c)
       PROVE  UNCHANGED Alloc!allocVars
  BY <1>11 DEF ServerDrops, At, Alloc!allocVars
<1>. QED
  BY <1>2, <1>3, <1>4, <1>5, <1>6, <1>7, <1>8, <1>9, <1>10, <1>11
     DEF Next, ThreadStep, Alloc!Next

(* Whatever the interleaving, the pool behaves like an allocator that      *)
(* gives each connection to one handler at a time (db_pool.h:9-21).        *)
THEOREM PoolImplementsAlloc == Spec => ImplementsAlloc
<1>1. Init => Alloc!Init
  <2>1. SUFFICES ASSUME Init PROVE Alloc!Init
    OBVIOUS
  <2>2. idle \in Seq(Conns)
    BY <2>1, InitInv DEF IInv, TypeOK
  <2>3. Range(idle) \in SUBSET Conns
    BY <2>2, LenProperties, ElementOfSeq DEF Range
  <2>4. At({"lock", "creating", "waiting", "woken"}) = {}
    BY <2>1 DEF Init, At
  <2>. QED  BY <2>1, <2>3, <2>4 DEF Init, Alloc!Init
<1>2. IInv /\ [Next]_vars => [Alloc!Next]_(Alloc!allocVars)
  <2>1. ASSUME UNCHANGED vars PROVE UNCHANGED Alloc!allocVars
    BY <2>1 DEF vars, At, Alloc!allocVars
  <2>. QED  BY <2>1, StepRefines
<1>. QED  BY <1>1, <1>2, PoolInvariant, PTL DEF Spec, ImplementsAlloc, Alloc!Spec

=============================================================================
