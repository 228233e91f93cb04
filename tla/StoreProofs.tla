---------------------------- MODULE StoreProofs -----------------------------
(***************************************************************************)
(* Proofs about the stored messages: a push follows its row, a request is  *)
(* stored at most once, and the message path implements Mailbox.           *)
(*                                                                         *)
(* The three share one invariant, MInv, over what is between the gateways  *)
(* and the table: the ids handed out so far, the messages of handlers that *)
(* are past their INSERT, the requests that have not reached it, and the   *)
(* replies of SyncMsg on their way back.  All of it is for contents that   *)
(* do not break the INSERT: Quoted = {}.                                   *)
(***************************************************************************)
EXTENDS ChatProofs

(* The serial key is above every id in the table.                          *)
IdsBelow == \A r \in rows : r.id < nextId

(* This message is in the table, or its INSERT was reported to have failed.*)
Recorded(mid, from, to, body) ==
    \E r \in rows \cup unsaved :
        <<r.mid, r.from, r.to, r.body>> = <<mid, from, to, body>>

(* So it is with the message of a handler that is past its INSERT.         *)
PastRecorded ==
    \A g \in Gateways :
        (/\ rpc[g].st = "call" /\ rpc[g].req.op = "SendMsg"
         /\ h[g].pc \in {"route", "pushing"}) =>
            Recorded(h[g].mid, rpc[g].req.from, rpc[g].req.to, rpc[g].req.body)

(* The box of Mailbox: what SyncMsg would send of each row.                *)
Box == {ToChatMsg(r) : r \in rows}

(* A reply of SyncMsg holds rows of the table.                             *)
RepliesStored ==
    \A g \in Gateways :
        (rpc[g].st = "ok" /\ rpc[g].req.op = "SyncMsg") =>
            rpc[g].res.msgs \subseteq Box

(* Requests that have not reached their INSERT, and the count of requests  *)
(* accepted so far that bounds them together with the table.               *)
Waiting ==
    {g \in Gateways : /\ rpc[g].st = "call" /\ rpc[g].req.op = "SendMsg"
                      /\ h[g].pc \in {"start", "insert"}}

StoreBudget ==
    /\ IsFiniteSet(rows)
    /\ IsFiniteSet(Waiting)
    /\ Cardinality(rows) + Cardinality(Waiting) <= Cardinality(SeedRows) + sends

MInv ==
    /\ IdsBelow
    /\ PastRecorded
    /\ PushAfterStore
    /\ RepliesStored
    /\ StoreBudget

(* What a step may add to what clients have received: pushes under way.    *)
InboxGrows ==
    \A s \in Ws : \A m \in inbox'[s] :
        \/ m \in inbox[s]
        \/ \E p \in pushq : <<m.from, m.to, m.body>> = <<p.from, p.to, p.body>>

(* Waiting loses elements: the budget is kept.                             *)
LEMMA BudgetKept ==
    ASSUME StoreBudget, UNCHANGED <<rows, sends>>, sends \in Nat,
           Waiting' \subseteq Waiting
    PROVE  StoreBudget'
<1>1. IsFiniteSet(Waiting') /\ Cardinality(Waiting') <= Cardinality(Waiting)
  BY FS_Subset DEF StoreBudget
<1>2. /\ Cardinality(Waiting') \in Nat /\ Cardinality(Waiting) \in Nat
      /\ Cardinality(rows) \in Nat /\ Cardinality(SeedRows) \in Nat
  BY <1>1, FS_CardinalityType, LogicAssumption DEF StoreBudget
<1>3. Cardinality(rows') = Cardinality(rows) /\ sends' = sends
  OBVIOUS
<1>. QED  BY <1>1, <1>2, <1>3 DEF StoreBudget

(* The table stays as it is: what is known of it stays known.              *)
LEMMA HandlerKeeps ==
    ASSUME AInv, MInv, UNCHANGED <<rows, nextId, sends, unsaved>>, InboxGrows,
           \A p \in pushq' :
               p \in pushq \/ Recorded(p.mid, p.from, p.to, p.body),
           PastRecorded', RepliesStored', Waiting' \subseteq Waiting
    PROVE  MInv'
<1>1. IdsBelow'
  BY DEF MInv, IdsBelow
<1>2. PushAfterStore'
  BY DEF MInv, PushAfterStore, Recorded, InboxGrows
<1>3. sends \in Nat
  BY DEF AInv, SInv, TypeOK, GwTypeOK
<1>4. StoreBudget'
  BY <1>3, BudgetKept DEF MInv
<1>. QED  BY <1>1, <1>2, <1>4 DEF MInv

(* A handler returns without touching the table.                           *)
LEMMA AnswerKeepsStore ==
    ASSUME AInv, MInv, NEW g \in Gateways, NEW err, NEW mid, NEW msgs,
           rpc[g].st = "call", Answer(g, err, mid, msgs),
           rpc[g].req.op = "SyncMsg" => msgs \subseteq Box,
           UNCHANGED <<rows, nextId, sends, unsaved, inbox>>, pushq' \subseteq pushq
    PROVE  MInv'
<1> DEFINE res == [err |-> err, msg_id |-> mid, msgs |-> msgs]
<1>1. /\ rpc \in [Gateways -> CallState] /\ h \in [Gateways -> Handler]
  BY DEF AInv, SInv, TypeOK, GwTypeOK, LogicTypeOK
<1>2. \A x \in Gateways :
         /\ rpc'[x] = IF x = g THEN Ok(rpc[g].req, res) ELSE rpc[x]
         /\ h'[x] = IF x = g THEN AtStart ELSE h[x]
  BY <1>1 DEF Answer
<1>3. /\ Ok(rpc[g].req, res).st = "ok" /\ Ok(rpc[g].req, res).req = rpc[g].req
      /\ Ok(rpc[g].req, res).res = res /\ res.msgs = msgs
  BY DEF Ok
<1>. HIDE DEF res
<1>4. PastRecorded'
  BY <1>2, <1>3 DEF MInv, PastRecorded, Recorded
<1>5. RepliesStored'
  BY <1>2, <1>3 DEF MInv, RepliesStored, Box
<1>6. Waiting' \subseteq Waiting
  BY <1>2, <1>3 DEF Waiting
<1>. QED  BY <1>4, <1>5, <1>6, HandlerKeeps DEF InboxGrows

(* A handler goes on without touching the table.                           *)
LEMMA GotoKeepsStore ==
    ASSUME AInv, MInv, NEW g \in Gateways, NEW where, NEW mid,
           rpc[g].st = "call", Goto(g, where, mid),
           rpc[g].req.op = "SendMsg" /\ where = "insert" => h[g].pc = "start",
           where # "start" /\ where # "route",
           where = "pushing" => h[g].pc = "route" /\ h[g].mid = mid,
           UNCHANGED <<rows, nextId, sends, unsaved, inbox>>,
           \A p \in pushq' :
               p \in pushq \/ Recorded(p.mid, p.from, p.to, p.body)
    PROVE  MInv'
<1> DEFINE hs == [pc |-> where, mid |-> mid]
<1>1. h \in [Gateways -> Handler] /\ rpc' = rpc
  BY DEF AInv, SInv, TypeOK, LogicTypeOK, Goto
<1>2. \A x \in Gateways : h'[x] = IF x = g THEN hs ELSE h[x]
  BY <1>1 DEF Goto
<1>3. hs.pc = where /\ hs.mid = mid
  OBVIOUS
<1>. HIDE DEF hs
<1>4. PastRecorded'
  BY <1>1, <1>2, <1>3 DEF MInv, PastRecorded, Recorded
<1>5. RepliesStored'
  BY <1>1 DEF MInv, RepliesStored, Box
<1>6. Waiting' \subseteq Waiting
  BY <1>1, <1>2, <1>3 DEF Waiting
<1>. QED  BY <1>4, <1>5, <1>6, HandlerKeeps DEF InboxGrows

(* What SaveMessage does to the table: nothing, or one row more, under the *)
(* next id.                                                                *)
SavedRow(g) ==
    [id |-> nextId, mid |-> h[g].mid, from |-> rpc[g].req.from,
     to |-> rpc[g].req.to, body |-> rpc[g].req.body]

(* SaveMessage keeps what is known of the table.                           *)
LEMMA SaveKeepsStore ==
    ASSUME Quoted = {}, AInv, MInv, NEW g \in Gateways, SaveMessage(g),
           UNCHANGED gwVars
    PROVE  MInv'
<1> DEFINE row == SavedRow(g)
           m == ToSave(g)
<1>1. /\ rpc[g].st = "call" /\ rpc[g].req.op = "SendMsg" /\ h[g].pc = "insert"
      /\ UNCHANGED <<pushq, sends, inbox>> /\ Goto(g, "route", h[g].mid)
  BY DEF SaveMessage, Serving, gwVars
<1>2. /\ \/ rows' = rows \cup {row} /\ nextId' = nextId + 1
         \/ rows' = rows /\ nextId' = nextId
      /\ row \in rows' \/ m \in unsaved'
      /\ unsaved \subseteq unsaved'
  <2>1. PICK saved \in BOOLEAN :
           /\ \/ rows' = rows \cup {row} /\ nextId' = nextId + 1
              \/ ~saved /\ rows' = rows /\ nextId' = nextId
           /\ unsaved' = unsaved \cup {x \in {m} : ~saved}
    BY DEF SaveMessage, InsertMsg, SavedRow, ToSave
  <2>. QED  BY <2>1
<1>3. /\ row.id = nextId /\ row.mid = h[g].mid /\ row.from = rpc[g].req.from
      /\ row.to = rpc[g].req.to /\ row.body = rpc[g].req.body
      /\ m.mid = h[g].mid /\ m.from = rpc[g].req.from
      /\ m.to = rpc[g].req.to /\ m.body = rpc[g].req.body
  BY DEF SavedRow, ToSave
<1>4. /\ rows \subseteq ChatRow /\ nextId \in Nat /\ h \in [Gateways -> Handler]
      /\ sends \in Nat
  BY DEF AInv, SInv, TypeOK, GwTypeOK, LogicTypeOK
<1> DEFINE hs == [pc |-> "route", mid |-> h[g].mid]
<1>5. rpc' = rpc /\ \A x \in Gateways : h'[x] = IF x = g THEN hs ELSE h[x]
  BY <1>1, <1>4 DEF Goto
<1>6. hs.pc = "route" /\ hs.mid = h[g].mid
  OBVIOUS
<1>. HIDE DEF row, m, hs
<1>7. /\ rows \cup unsaved \subseteq rows' \cup unsaved' /\ rows \subseteq rows'
      /\ row \in rows' \cup unsaved' \/ m \in rows' \cup unsaved'
      /\ rows' \subseteq rows \cup {row}
  BY <1>2
<1>8. IdsBelow'
  <2>1. \A r \in rows : r.id \in Nat
    BY <1>4 DEF ChatRow
  <2>. QED  BY <1>2, <1>3, <1>4, <2>1 DEF MInv, IdsBelow
<1>9. PastRecorded'
  <2>1. SUFFICES ASSUME NEW x \in Gateways, rpc[x].st = "call",
                        rpc[x].req.op = "SendMsg",
                        h'[x].pc \in {"route", "pushing"}
                 PROVE  \E r \in rows' \cup unsaved' :
                           <<r.mid, r.from, r.to, r.body>> =
                             <<h'[x].mid, rpc[x].req.from, rpc[x].req.to,
                               rpc[x].req.body>>
    BY <1>5 DEF PastRecorded, Recorded
  <2>2. CASE x = g
    BY <1>3, <1>5, <1>6, <1>7, <2>2
  <2>3. CASE x # g
    <3>1. h'[x] = h[x]
      BY <1>5, <2>3
    <3>2. Recorded(h[x].mid, rpc[x].req.from, rpc[x].req.to, rpc[x].req.body)
      BY <2>1, <3>1 DEF MInv, PastRecorded
    <3>. QED  BY <1>5, <1>7, <3>1, <3>2 DEF Recorded
  <2>. QED  BY <2>2, <2>3
<1>10. PushAfterStore'
  BY <1>1, <1>7 DEF MInv, PushAfterStore
<1>11. RepliesStored'
  BY <1>5, <1>7 DEF MInv, RepliesStored, Box
<1>12. StoreBudget'
  <2>1. g \in Waiting /\ Waiting' = Waiting \ {g}
    BY <1>1, <1>5, <1>6 DEF Waiting
  <2>2. /\ IsFiniteSet(Waiting')
        /\ Cardinality(Waiting') = Cardinality(Waiting) - 1
    BY <2>1, FS_RemoveElement DEF MInv, StoreBudget
  <2>3. /\ IsFiniteSet(rows')
        /\ \/ Cardinality(rows') = Cardinality(rows)
           \/ Cardinality(rows') = Cardinality(rows) + 1
    <3>1. IsFiniteSet(rows)
      BY DEF MInv, StoreBudget
    <3>2. CASE rows' = rows
      BY <3>1, <3>2
    <3>3. CASE rows' = rows \cup {row}
      BY <3>1, <3>3, FS_AddElement
    <3>. QED  BY <1>2, <3>2, <3>3
  <2>4. /\ Cardinality(rows) \in Nat /\ Cardinality(Waiting) \in Nat
        /\ Cardinality(SeedRows) \in Nat
    BY FS_CardinalityType, LogicAssumption DEF MInv, StoreBudget
  <2>. QED  BY <1>1, <1>4, <2>2, <2>3, <2>4 DEF MInv, StoreBudget
<1>. QED  BY <1>8, <1>9, <1>10, <1>11, <1>12 DEF MInv

(* A user's history is made of rows of the table.                          *)
LEMMA OfflineRowsStored ==
    ASSUME NEW u, NEW k
    PROVE  {ToChatMsg(r) : r \in OfflineRows(u, k)} \subseteq Box
BY DEF OfflineRows, Box

(* Steps of the logic server.                                              *)
LEMMA LogicKeepsStore ==
    ASSUME Quoted = {}, AInv, MInv, LogicNext, UNCHANGED gwVars
    PROVE  MInv'
<1>1. UNCHANGED <<sends, inbox>>
  BY DEF gwVars
<1>2. ASSUME NEW g \in Gateways, LoginAuth(g) PROVE MInv'
  <2>1. /\ rpc[g].st = "call" /\ rpc[g].req.op = "Login"
        /\ UNCHANGED <<rows, nextId, unsaved, pushq>>
        /\ \/ Goto(g, "session", 0)
           \/ Answer(g, "ERR_AUTH_FAIL", 0, {})
    BY <1>2 DEF LoginAuth, Serving
  <2>2. CASE Goto(g, "session", 0)
    BY <1>1, <2>1, <2>2, GotoKeepsStore
  <2>3. CASE Answer(g, "ERR_AUTH_FAIL", 0, {})
    BY <1>1, <2>1, <2>3, AnswerKeepsStore
  <2>. QED  BY <2>1, <2>2, <2>3
<1>3. ASSUME NEW g \in Gateways, LoginSession(g) PROVE MInv'
  <2>1. /\ rpc[g].st = "call" /\ rpc[g].req.op = "Login"
        /\ UNCHANGED <<rows, nextId, unsaved, pushq>> /\ Answer(g, "ERR_SUCCESS", 0, {})
    BY <1>3 DEF LoginSession, Serving
  <2>. QED  BY <1>1, <2>1, AnswerKeepsStore
<1>4. ASSUME NEW g \in Gateways, SendCheck(g) PROVE MInv'
  <2>1. /\ rpc[g].st = "call" /\ rpc[g].req.op = "SendMsg" /\ h[g].pc = "start"
        /\ UNCHANGED <<rows, nextId, unsaved, pushq>>
        /\ \/ Goto(g, "insert", clock)
           \/ Answer(g, "ERR_NOT_FRIEND", 0, {})
    BY <1>4 DEF SendCheck, Serving, dbVars
  <2>2. CASE Goto(g, "insert", clock)
    BY <1>1, <2>1, <2>2, GotoKeepsStore
  <2>3. CASE Answer(g, "ERR_NOT_FRIEND", 0, {})
    BY <1>1, <2>1, <2>3, AnswerKeepsStore
  <2>. QED  BY <2>1, <2>2, <2>3
<1>5. ASSUME NEW g \in Gateways, LookupRoute(g) PROVE MInv'
  <2>1. /\ rpc[g].st = "call" /\ rpc[g].req.op = "SendMsg" /\ h[g].pc = "route"
        /\ UNCHANGED <<rows, nextId, unsaved>>
    BY <1>5 DEF LookupRoute, Serving, dbVars
  <2>2. CASE Answer(g, "ERR_SUCCESS", h[g].mid, {}) /\ pushq' = pushq
    BY <1>1, <2>1, <2>2, AnswerKeepsStore
  <2>3. CASE ~(Answer(g, "ERR_SUCCESS", h[g].mid, {}) /\ pushq' = pushq)
    <3>1. PICK gw : /\ Goto(g, "pushing", h[g].mid)
                    /\ pushq' = pushq \cup {PackPushMsg(g, gw)}
      BY <1>5, <2>3 DEF LookupRoute, Get
    <3>2. Recorded(h[g].mid, rpc[g].req.from, rpc[g].req.to,
                   rpc[g].req.body)
      BY <2>1 DEF MInv, PastRecorded
    <3>3. \A p \in pushq' :
             p \in pushq \/ Recorded(p.mid, p.from, p.to, p.body)
      BY <3>1, <3>2 DEF PackPushMsg
    <3>. QED  BY <1>1, <2>1, <3>1, <3>3, GotoKeepsStore
  <2>. QED  BY <2>2, <2>3
<1>6. ASSUME NEW g \in Gateways, PushReturns(g) PROVE MInv'
  <2>1. /\ rpc[g].st = "call" /\ rpc[g].req.op = "SendMsg"
        /\ UNCHANGED <<rows, nextId, unsaved>> /\ pushq' \subseteq pushq
        /\ Answer(g, "ERR_SUCCESS", h[g].mid, {})
    BY <1>6 DEF PushReturns, Serving, dbVars
  <2>. QED  BY <1>1, <2>1, AnswerKeepsStore
<1>7. ASSUME NEW g \in Gateways, SyncMsg(g) PROVE MInv'
  <2> DEFINE msgs == {ToChatMsg(r) : r \in OfflineRows(rpc[g].req.uid,
                                                       rpc[g].req.last)}
  <2>1. /\ rpc[g].st = "call" /\ UNCHANGED <<rows, nextId, unsaved, pushq>>
        /\ \/ Answer(g, "ERR_SUCCESS", 0, msgs)
           \/ Answer(g, "ERR_SUCCESS", 0, {})
    BY <1>7 DEF SyncMsg, Serving, dbVars
  <2>2. msgs \subseteq Box /\ {} \subseteq Box
    BY OfflineRowsStored
  <2>. HIDE DEF msgs
  <2>3. CASE Answer(g, "ERR_SUCCESS", 0, msgs)
    BY <1>1, <2>1, <2>2, <2>3, AnswerKeepsStore
  <2>4. CASE Answer(g, "ERR_SUCCESS", 0, {})
    BY <1>1, <2>1, <2>2, <2>4, AnswerKeepsStore
  <2>. QED  BY <2>1, <2>3, <2>4
<1>8. ASSUME LogicCrash PROVE MInv'
  <2>1. /\ UNCHANGED <<rows, nextId, unsaved, pushq>>
        /\ \A g \in Gateways :
              \/ rpc'[g] = rpc[g] /\ rpc[g].st # "call"
              \/ rpc'[g].st = "fail"
    BY <1>8 DEF LogicCrash, dbVars, Fail
  <2>2. PastRecorded' /\ RepliesStored'
    BY <2>1 DEF MInv, PastRecorded, RepliesStored, Box
  <2>3. Waiting' \subseteq Waiting
    BY <2>1 DEF Waiting
  <2>. QED  BY <1>1, <2>1, <2>2, <2>3, HandlerKeeps DEF InboxGrows
<1>9. ASSUME Tick PROVE MInv'
  <2>1. UNCHANGED <<h, rows, nextId, unsaved, rpc, pushq>>
    BY <1>9 DEF Tick, dbVars
  <2>2. PastRecorded' /\ RepliesStored' /\ Waiting' = Waiting
    BY <2>1 DEF MInv, PastRecorded, Recorded, RepliesStored, Box, Waiting
  <2>. QED  BY <1>1, <2>1, <2>2, HandlerKeeps DEF InboxGrows
<1>. QED  BY <1>2, <1>3, <1>4, <1>5, <1>6, <1>7, <1>8, <1>9, SaveKeepsStore
          DEF LogicNext, HandlerStep

(* A handler of a gateway calls the logic server: the calls of the other   *)
(* gateways stay, and only SendMsg waits for an INSERT, for which sends    *)
(* has counted one.                                                        *)
LEMMA CallKeepsStore ==
    ASSUME AInv, MInv, NEW s \in Ws, NEW r, LoopFree(s), CallLogic(s, r),
           UNCHANGED <<h, rows, nextId, unsaved, inbox, pushq>>,
           IF r.op = "SendMsg" THEN sends' = sends + 1 ELSE UNCHANGED sends
    PROVE  MInv'
<1>1. /\ rpc \in [Gateways -> CallState] /\ sends \in Nat /\ GwOf[s] \in Gateways
  BY GatewayAssumption DEF AInv, SInv, TypeOK, GwTypeOK
<1>2. \A g \in Gateways : rpc'[g] = IF g = GwOf[s] THEN Call(r) ELSE rpc[g]
  BY <1>1 DEF CallLogic
<1>3. Call(r).st = "call" /\ Call(r).req = r
  BY DEF Call
<1>4. h[GwOf[s]].pc = "start" /\ rpc[GwOf[s]].st = "none"
  BY <1>1 DEF LoopFree, AInv, SInv, Busy, Checked
<1>5. PastRecorded'
  BY <1>2, <1>3, <1>4 DEF MInv, PastRecorded, Recorded
<1>6. RepliesStored'
  BY <1>2, <1>3 DEF MInv, RepliesStored, Box
<1>7. CASE r.op # "SendMsg"
  <2>1. Waiting' \subseteq Waiting
    BY <1>2, <1>3, <1>7 DEF Waiting
  <2>. QED  BY <1>5, <1>6, <1>7, <2>1, HandlerKeeps DEF InboxGrows
<1>8. CASE r.op = "SendMsg"
  <2>1. IdsBelow' /\ PushAfterStore'
    BY DEF MInv, IdsBelow, PushAfterStore
  <2>2. Waiting' = Waiting \cup {GwOf[s]} /\ GwOf[s] \notin Waiting
    BY <1>1, <1>2, <1>3, <1>4, <1>8 DEF Waiting
  <2>3. /\ IsFiniteSet(Waiting')
        /\ Cardinality(Waiting') = Cardinality(Waiting) + 1
    BY <2>2, FS_AddElement DEF MInv, StoreBudget
  <2>4. /\ Cardinality(rows) \in Nat /\ Cardinality(Waiting) \in Nat
        /\ Cardinality(SeedRows) \in Nat
    BY FS_CardinalityType, LogicAssumption DEF MInv, StoreBudget
  <2>5. StoreBudget'
    <3>1. rows' = rows /\ sends' = sends + 1
      BY <1>8
    <3>. QED  BY <1>1, <2>3, <2>4, <3>1 DEF MInv, StoreBudget
  <2>. QED  BY <1>5, <1>6, <2>1, <2>5 DEF MInv
<1>. QED  BY <1>7, <1>8

(* Steps of the gateways.                                                  *)
LEMMA GatewayKeepsStore ==
    ASSUME AInv, MInv, GwNext, UNCHANGED logicVars
    PROVE  MInv'
<1>1. UNCHANGED <<h, rows, nextId, unsaved>>
  BY DEF logicVars
<1>2. rpc \in [Gateways -> CallState]
  BY DEF AInv, SInv, TypeOK, GwTypeOK
<1>3. ASSUME UNCHANGED <<rpc, sends>>, pushq' \subseteq pushq, InboxGrows
      PROVE  MInv'
  <2>1. PastRecorded' /\ RepliesStored' /\ Waiting' = Waiting
    BY <1>1, <1>3 DEF MInv, PastRecorded, Recorded, RepliesStored, Box, Waiting
  <2>. QED  BY <1>1, <1>3, <2>1, HandlerKeeps DEF InboxGrows
<1>4. ASSUME \/ \E s \in Ws : Open(s) \/ Close(s) \/ RecvLoginCrash(s)
             \/ \E g \in Gateways : CloseEnd(g)
      PROVE  MInv'
  <2>1. UNCHANGED <<rpc, sends, pushq>> /\ InboxGrows
    BY <1>4 DEF Open, Close, RecvLoginCrash, CloseEnd, InboxGrows,
       AInv, SInv, TypeOK, GwTypeOK
  <2>. QED  BY <1>3, <2>1
<1>5. ASSUME NEW s \in Ws, NEW u \in Uids, NEW tok \in Tokens, RecvLogin(s, u, tok)
      PROVE  MInv'
  <2> DEFINE r == [op |-> "Login", uid |-> u, token |-> tok]
  <2>1. /\ LoopFree(s) /\ CallLogic(s, r) /\ r.op # "SendMsg"
        /\ UNCHANGED <<sends, pushq, inbox>>
    BY <1>5 DEF RecvLogin
  <2>. HIDE DEF r
  <2>. QED  BY <1>1, <2>1, CallKeepsStore
<1>6. ASSUME NEW s \in Ws, NEW f \in Uids, NEW t \in Uids, NEW b \in Bodies,
             RecvSend(s, f, t, b)
      PROVE  MInv'
  <2> DEFINE r == [op |-> "SendMsg", from |-> suid[s], to |-> t, body |-> b]
  <2>1. /\ LoopFree(s) /\ CallLogic(s, r) /\ r.op = "SendMsg"
        /\ sends' = sends + 1 /\ UNCHANGED <<pushq, inbox>>
    BY <1>6 DEF RecvSend
  <2>. HIDE DEF r
  <2>. QED  BY <1>1, <2>1, CallKeepsStore
<1>7. ASSUME NEW s \in Ws, NEW f \in Uids, NEW k, RecvSync(s, f, k)
      PROVE  MInv'
  <2> DEFINE r == [op |-> "SyncMsg", uid |-> suid[s], last |-> k]
  <2>1. /\ LoopFree(s) /\ CallLogic(s, r) /\ r.op # "SendMsg"
        /\ UNCHANGED <<sends, pushq, inbox>>
    BY <1>7 DEF RecvSync
  <2>. HIDE DEF r
  <2>. QED  BY <1>1, <2>1, CallKeepsStore
<1>8. ASSUME NEW g \in Gateways, FinishLogin(g) \/ FinishSend(g) \/ FinishSync(g)
      PROVE  MInv'
  <2>1. /\ UNCHANGED <<sends, pushq, inbox>>
        /\ \A x \in Gateways : rpc'[x] = IF x = g THEN NoCall ELSE rpc[x]
    BY <1>2, <1>8 DEF FinishLogin, FinishSend, FinishSync, Returned
  <2>2. NoCall.st = "none"
    BY DEF NoCall
  <2>3. PastRecorded' /\ RepliesStored'
    BY <1>1, <2>1, <2>2 DEF MInv, PastRecorded, Recorded, RepliesStored, Box
  <2>4. Waiting' \subseteq Waiting
    BY <1>1, <2>1, <2>2 DEF Waiting
  <2>. QED  BY <1>1, <2>1, <2>3, <2>4, HandlerKeeps DEF InboxGrows
<1>9. ASSUME NEW p \in pushq, PushMsg(p) PROVE MInv'
  <2> DEFINE s == PushTarget(p.gw, p.to)
             m == [from |-> p.from, to |-> p.to, body |-> p.body]
  <2>1. UNCHANGED <<rpc, sends>> /\ pushq' \subseteq pushq
    BY <1>9 DEF PushMsg
  <2>2. \A o \in Ws : inbox'[o] \subseteq inbox[o] \cup {m}
    BY <1>9 DEF PushMsg, AInv, SInv, TypeOK, GwTypeOK
  <2>3. <<m.from, m.to, m.body>> = <<p.from, p.to, p.body>>
    OBVIOUS
  <2>. HIDE DEF m
  <2>4. InboxGrows
    BY <2>2, <2>3 DEF InboxGrows
  <2>. QED  BY <1>3, <2>1, <2>4
<1>. QED  BY <1>4, <1>5, <1>6, <1>7, <1>8, <1>9 DEF GwNext

(* The store invariant holds in every reachable state.                     *)
THEOREM StoreInvariant ==
    ASSUME Quoted = {}
    PROVE  Spec => []MInv
<1>1. Init => MInv
  <2>1. SUFFICES ASSUME Init PROVE MInv
    OBVIOUS
  <2>2. /\ \A g \in Gateways : rpc[g].st = "none"
        /\ rows = SeedRows /\ nextId = Cardinality(SeedRows) + 1
        /\ pushq = {} /\ sends = 0 /\ \A s \in Ws : inbox[s] = {}
    BY <2>1 DEF Init, GwInit, LogicInit, NoCall
  <2>3. Cardinality(SeedRows) \in Nat /\ \A r \in SeedRows : r.id \in Nat
    BY FS_CardinalityType, LogicAssumption DEF ChatRow
  <2>4. IdsBelow
    BY <2>2, <2>3, LogicAssumption DEF IdsBelow
  <2>5. Waiting = {}
    BY <2>2 DEF Waiting
  <2>6. StoreBudget
    BY <2>2, <2>3, <2>5, FS_EmptySet, LogicAssumption DEF StoreBudget
  <2>7. PastRecorded /\ PushAfterStore /\ RepliesStored
    BY <2>2 DEF PastRecorded, PushAfterStore, RepliesStored
  <2>. QED  BY <2>4, <2>6, <2>7 DEF MInv
<1>2. AInv /\ MInv /\ [Next]_vars => MInv'
  <2>1. ASSUME AInv, MInv, UNCHANGED vars PROVE MInv'
    <3>1. UNCHANGED <<rpc, pushq, sends, inbox, h, rows, nextId, unsaved>>
      BY <2>1 DEF vars, wireVars, gwVars, logicVars
    <3>2. PastRecorded' /\ RepliesStored' /\ Waiting' = Waiting
      BY <2>1, <3>1 DEF MInv, PastRecorded, Recorded, RepliesStored, Box, Waiting
    <3>. QED  BY <2>1, <3>1, <3>2, HandlerKeeps DEF InboxGrows
  <2>. QED  BY <2>1, GatewayKeepsStore, LogicKeepsStore DEF Next
<1>. QED  BY <1>1, <1>2, AuthenticInvariant, PTL DEF Spec

(* As long as no content has a quote in it, a message that is on its way   *)
(* to its receiver or with him has its row, unless its INSERT was reported *)
(* to have failed (logic_server/main.cc:96-129).                           *)
THEOREM PushesAfterStore ==
    ASSUME Quoted = {}
    PROVE  Spec => []PushAfterStore
<1>1. MInv => PushAfterStore
  BY DEF MInv
<1>. QED  BY <1>1, StoreInvariant, PTL

(* As long as no content has a quote in it, the table has at most one row  *)
(* for each accepted request, however many gateways call at once and       *)
(* wherever the logic server dies.                                         *)
THEOREM StoresAtMostOnce ==
    ASSUME Quoted = {}
    PROVE  Spec => []StoredAtMostOnce
<1>1. AInv /\ MInv => StoredAtMostOnce
  <2>1. SUFFICES ASSUME AInv, MInv PROVE StoredAtMostOnce
    OBVIOUS
  <2>2. /\ Cardinality(rows) \in Nat /\ Cardinality(Waiting) \in Nat
        /\ Cardinality(SeedRows) \in Nat /\ sends \in Nat
    BY <2>1, FS_CardinalityType, LogicAssumption
       DEF MInv, StoreBudget, AInv, SInv, TypeOK, GwTypeOK
  <2>. QED  BY <2>1, <2>2 DEF MInv, StoreBudget, StoredAtMostOnce
<1>. QED  BY <1>1, AuthenticInvariant, StoreInvariant, PTL

-----------------------------------------------------------------------------
(* The refinement of Mailbox.                                              *)

(* An INSERT that takes effect is Post: its id is new, since every id in   *)
(* the table is below the serial key, and its users are friends.           *)
LEMMA SavePosts ==
    ASSUME Quoted = {}, AInv, MInv, NEW g \in Gateways, SaveMessage(g),
           UNCHANGED have
    PROVE  MB!MailboxNext \/ (UNCHANGED <<Box, have>>)
<1> DEFINE row == SavedRow(g)
           m == ToChatMsg(row)
<1>1. /\ rpc[g].st = "call" /\ rpc[g].req.op = "SendMsg" /\ h[g].pc = "insert"
      /\ rows' = rows \cup {row} \/ rows' = rows
  BY DEF SaveMessage, InsertMsg, Serving, SavedRow, ToSave
<1>2. CASE rows' = rows
  BY <1>2 DEF Box
<1>3. CASE rows' = rows \cup {row}
  <2>1. row.id = nextId /\ row.from = rpc[g].req.from /\ row.to = rpc[g].req.to
    BY DEF SavedRow
  <2>. HIDE DEF row
  <2>2. m.id = row.id /\ m.from = row.from /\ m.to = row.to
    BY DEF ToChatMsg
  <2>3. \A k \in Box : k.id # m.id
    <3>1. \A r \in rows : r.id # nextId
      <4>1. nextId \in Nat /\ \A r \in rows : r.id \in Nat
        BY DEF AInv, SInv, TypeOK, LogicTypeOK, ChatRow
      <4>. QED  BY <4>1 DEF MInv, IdsBelow
    <3>2. \A r \in rows : ToChatMsg(r).id = r.id
      BY DEF ToChatMsg
    <3>. QED  BY <2>1, <2>2, <3>1, <3>2 DEF Box
  <2>4. <<m.from, m.to>> \in Friends
    BY <1>1, <2>1, <2>2 DEF AInv, Checked
  <2>5. Box' = Box \cup {m}
    BY <1>3 DEF Box
  <2>6. m \in Box' \ Box
    BY <2>3, <2>5
  <2>. HIDE DEF m
  <2>7. MB!Post(m)
    BY <2>3, <2>4, <2>5 DEF MB!Post, Box
  <2>. QED  BY <2>6, <2>7 DEF MB!MailboxNext, Box
<1>. QED  BY <1>1, <1>2, <1>3

(* A reply of SyncMsg that reaches its client is Give: its messages were   *)
(* in the table when it was made and are there still, and they are for the *)
(* uid of the socket.                                                      *)
LEMMA SyncGives ==
    ASSUME AInv, MInv, NEW g \in Gateways, FinishSync(g), UNCHANGED rows
    PROVE  MB!MailboxNext \/ (UNCHANGED <<Box, have>>)
<1> DEFINE u == suid[cur[g]]
           msgs == rpc[g].res.msgs
<1>1. Box' = Box
  BY DEF Box
<1>2. CASE rpc[g].st # "ok"
  BY <1>1, <1>2 DEF FinishSync, clientVars
<1>3. CASE rpc[g].st = "ok"
  <2>1. rpc[g].req.op = "SyncMsg" /\ have' = [have EXCEPT ![u] = @ \cup msgs]
    BY <1>3 DEF FinishSync, Returned
  <2>2. u \in AnyUid
    BY <1>3 DEF AInv, SInv, CallerStays, TypeOK, GwTypeOK
  <2>3. msgs \subseteq Box /\ \A m \in msgs : m.to = u
    BY <1>3, <2>1 DEF MInv, RepliesStored, AInv, SyncReplies, SInv, CallerStays
  <2>. HIDE DEF u, msgs
  <2>4. MB!Give(u, msgs)
    BY <1>1, <2>1, <2>3 DEF MB!Give, Box
  <2>. QED  BY <2>2, <2>3, <2>4 DEF MB!MailboxNext, Box
<1>. QED  BY <1>2, <1>3

(* Every step of the system is a step of Mailbox or leaves it alone.       *)
LEMMA StepIsMailbox ==
    ASSUME Quoted = {}, AInv, MInv, Next \/ UNCHANGED vars
    PROVE  MB!MailboxNext \/ (UNCHANGED <<Box, have>>)
<1>1. ASSUME UNCHANGED <<rows, have>> PROVE UNCHANGED <<Box, have>>
  BY <1>1 DEF Box
<1>2. CASE UNCHANGED vars
  BY <1>1, <1>2 DEF vars, gwVars, logicVars
<1>3. ASSUME GwNext, UNCHANGED logicVars
      PROVE  UNCHANGED <<rows, have>> \/ \E g \in Gateways : FinishSync(g)
  BY <1>3 DEF GwNext, logicVars, Open, Close, CloseEnd, RecvLoginCrash, RecvLogin, RecvSend, RecvSync,
     FinishLogin, FinishSend, PushMsg, clientVars
<1>4. ASSUME LogicNext, UNCHANGED gwVars
      PROVE  UNCHANGED <<rows, have>> \/ \E g \in Gateways : SaveMessage(g)
  BY <1>4 DEF LogicNext, HandlerStep, gwVars, LoginAuth, LoginSession, SendCheck,
     LookupRoute, PushReturns, SyncMsg, LogicCrash, Tick, dbVars
<1>5. CASE GwNext /\ UNCHANGED logicVars
  BY <1>1, <1>3, <1>5, SyncGives DEF logicVars
<1>6. CASE LogicNext /\ UNCHANGED gwVars
  BY <1>1, <1>4, <1>6, SavePosts DEF gwVars
<1>. QED  BY <1>2, <1>5, <1>6 DEF Next

(* The message path implements Mailbox: no stored message is lost, changed *)
(* or overwritten, and a client gets only stored messages of its own, with *)
(* any number of gateways, failing statements, lost replies and crashes,   *)
(* as long as no content has a quote in it.                                *)
THEOREM MailboxImplemented ==
    ASSUME Quoted = {}
    PROVE  Spec => ImplementsMailbox
<1>1. Init => MB!MailboxInit
  BY DEF Init, GwInit, LogicInit, MB!MailboxInit
<1>2. AInv /\ MInv /\ [Next]_vars => [MB!MailboxNext]_<<Box, have>>
  BY StepIsMailbox
<1>. QED  BY <1>1, <1>2, AuthenticInvariant, StoreInvariant, PTL
          DEF Spec, ImplementsMailbox, MB!MailboxSpec, Box

=============================================================================
