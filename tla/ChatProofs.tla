----------------------------- MODULE ChatProofs -----------------------------
(***************************************************************************)
(* Proofs about the running system: any number of gateways, sockets, users *)
(* and messages, with or without failures of the databases and crashes of  *)
(* the logic server.                                                       *)
(***************************************************************************)
EXTENDS ChatSystem, TLAPS, FiniteSetTheorems

-----------------------------------------------------------------------------
(* Types.                                                                  *)

(* What the state of a call has in it.                                     *)
LEMMA CallParts ==
    ASSUME NEW x \in CallState
    PROVE  /\ x.st \in {"none", "call", "ok", "fail"}
           /\ x.st # "none" => x.req \in Request
           /\ x.st = "ok" => x.res \in Reply
BY DEF CallState, NoCall

(* The operation of a request determines its fields.                       *)
LEMMA RequestKind ==
    ASSUME NEW r \in Request
    PROVE  /\ r.op = "Login" => r.uid \in Uids /\ r.token \in Tokens
           /\ r.op = "SendMsg" =>
                 r.from \in AnyUid /\ r.to \in Uids /\ r.body \in Bodies
           /\ r.op = "SyncMsg" => r.uid \in AnyUid /\ r.last \in Nat
BY DEF Request, LoginReq, MsgSendReq, SyncMsgReq

(* The states of a call are built from requests and replies.               *)
LEMMA CallTypes ==
    /\ NoCall \in CallState
    /\ \A r \in Request : Call(r) \in CallState /\ Fail(r) \in CallState
    /\ \A r \in Request, res \in Reply : Ok(r, res) \in CallState
BY DEF CallState, NoCall, Call, Fail, Ok

(* The initial state is well typed.                                        *)
LEMMA InitTypes == Init => TypeOK
<1> SUFFICES ASSUME Init PROVE TypeOK
  OBVIOUS
<1>1. /\ rpc \in [Gateways -> CallState] /\ pushq \in SUBSET PushMsgReq
  BY CallTypes DEF Init
<1>2. /\ open \in SUBSET Ws /\ suid \in [Ws -> AnyUid]
      /\ sessions \in [Gateways -> [Uids -> Ws \cup {NoWs}]]
      /\ cur \in [Gateways -> Ws \cup {NoWs}] /\ inbox \in [Ws -> SUBSET Msg]
  BY DEF Init, GwInit, AnyUid
<1>3. /\ sends \in 0..MaxSends /\ told \in [AnyUid -> SUBSET Nat]
      /\ have \in [AnyUid -> SUBSET ChatMsg]
  BY GatewayAssumption DEF Init, GwInit
<1>4. /\ h \in [Gateways -> Handler] /\ rows \in SUBSET ChatRow
      /\ clock \in Nat /\ proved \in SUBSET Uids /\ unsaved \in SUBSET Entry
  BY LogicAssumption DEF Init, LogicInit, Handler, AtStart
<1>5. redis \in [{LoginKey, RouteKey} -> [Uids -> Gateways \cup {NoGw}]]
  BY LogicAssumption DEF Init, LogicInit
<1>6. nextId \in Nat
  BY LogicAssumption, FS_CardinalityType DEF Init, LogicInit
<1>. QED  BY <1>1, <1>2, <1>3, <1>4, <1>5, <1>6
          DEF TypeOK, GwTypeOK, LogicTypeOK

(* Writing one entry of one gateway's table leaves a table of sessions.     *)
LEMMA TableTypes ==
    ASSUME NEW T \in [Gateways -> [Uids -> Ws \cup {NoWs}]],
           NEW g \in Gateways, NEW u \in Uids, NEW s \in Ws \cup {NoWs}
    PROVE  [T EXCEPT ![g][u] = s] \in [Gateways -> [Uids -> Ws \cup {NoWs}]]
<1>1. [T[g] EXCEPT ![u] = s] \in [Uids -> Ws \cup {NoWs}]
  OBVIOUS
<1>. QED  BY <1>1

(* Steps of the gateways keep the types.                                   *)
LEMMA GatewayTypes ==
    ASSUME TypeOK, GwNext, UNCHANGED logicVars
    PROVE  TypeOK'
<1> USE DEF TypeOK, GwTypeOK
<1>1. LogicTypeOK'
  BY DEF LogicTypeOK, logicVars
<1>2. ASSUME NEW s \in Ws, Open(s) PROVE GwTypeOK'
  BY <1>2 DEF Open, clientVars, AnyUid
<1>3. ASSUME NEW g \in Gateways, CloseEnd(g) PROVE GwTypeOK'
  <2> DEFINE u == suid[cur[g]]
  <2>1. u # NoUid => u \in Uids
    BY <1>3 DEF CloseEnd, Closing, AnyUid
  <2>2. sessions' \in [Gateways -> [Uids -> Ws \cup {NoWs}]]
    <3>1. CASE u # NoUid
      <4>1. u \in Uids
        BY <2>1, <3>1
      <4>2. sessions' = [sessions EXCEPT ![g][u] = NoWs]
        BY <1>3, <3>1 DEF CloseEnd, RemoveSession
      <4>3. sessions \in [Gateways -> [Uids -> Ws \cup {NoWs}]]
        OBVIOUS
      <4>. QED
        <5> HIDE DEF TypeOK, GwTypeOK, u
        <5>. QED  BY <4>1, <4>2, <4>3, TableTypes
    <3>2. CASE u = NoUid
      BY <1>3, <3>2 DEF CloseEnd, RemoveSession
    <3>. QED  BY <3>1, <3>2
  <2>. QED  BY <1>3, <2>2 DEF CloseEnd, clientVars
<1>4. ASSUME NEW s \in Ws, NEW r \in Request, CallLogic(s, r)
      PROVE  /\ rpc' \in [Gateways -> CallState]
             /\ cur' \in [Gateways -> Ws \cup {NoWs}]
  BY <1>4, CallTypes DEF CallLogic
<1>5. ASSUME NEW s \in Ws, NEW u \in Uids, NEW tok \in Tokens, RecvLogin(s, u, tok)
      PROVE  GwTypeOK'
  <2>1. [op |-> "Login", uid |-> u, token |-> tok] \in Request
    BY DEF Request, LoginReq
  <2>. QED  BY <1>4, <1>5, <2>1 DEF RecvLogin, clientVars
<1>6. ASSUME NEW s \in Ws, NEW f \in Uids, NEW t \in Uids, NEW b \in Bodies,
             RecvSend(s, f, t, b)
      PROVE  GwTypeOK'
  <2>1. CallLogic(s, [op |-> "SendMsg", from |-> suid[s], to |-> t, body |-> b])
    BY <1>6 DEF RecvSend
  <2>2. [op |-> "SendMsg", from |-> suid[s], to |-> t, body |-> b] \in Request
    BY DEF Request, MsgSendReq
  <2>3. sends' \in 0..MaxSends
    BY <1>6, GatewayAssumption DEF RecvSend
  <2>. QED  BY <1>4, <1>6, <2>1, <2>2, <2>3 DEF RecvSend, clientVars
<1>7. ASSUME NEW s \in Ws, NEW f \in Uids, NEW k \in told[suid[s]],
             RecvSync(s, f, k)
      PROVE  GwTypeOK'
  <2>1. CallLogic(s, [op |-> "SyncMsg", uid |-> suid[s], last |-> k])
    BY <1>7 DEF RecvSync
  <2>2. [op |-> "SyncMsg", uid |-> suid[s], last |-> k] \in Request
    BY DEF Request, SyncMsgReq
  <2>. QED  BY <1>4, <1>7, <2>1, <2>2 DEF RecvSync, clientVars
<1>8. ASSUME NEW g \in Gateways, NEW op, Returned(g, op)
      PROVE  /\ rpc' \in [Gateways -> CallState]
             /\ cur' \in [Gateways -> Ws \cup {NoWs}]
             /\ rpc[g].req \in Request
             /\ rpc[g].st = "ok" => rpc[g].res \in Reply
  BY <1>8, CallParts, CallTypes DEF Returned
<1>9. ASSUME NEW g \in Gateways, FinishLogin(g) PROVE GwTypeOK'
  <2>1. rpc[g].req.uid \in Uids /\ Returned(g, "Login")
    BY <1>8, <1>9, RequestKind DEF FinishLogin, Returned
  <2>2. suid' \in [Ws -> AnyUid]
    BY <1>9, <2>1 DEF FinishLogin, AnyUid
  <2>3. sessions' \in [Gateways -> [Uids -> Ws \cup {NoWs}]]
    <3>1. \/ sessions' = sessions
          \/ sessions' = [sessions EXCEPT ![g][rpc[g].req.uid] = cur[g]]
      BY <1>9 DEF FinishLogin, AddSession
    <3>2. cur[g] \in Ws \cup {NoWs} /\ rpc[g].req.uid \in Uids
      BY <2>1
    <3>3. CASE sessions' = [sessions EXCEPT ![g][rpc[g].req.uid] = cur[g]]
      <4> DEFINE s == cur[g]
                 u == rpc[g].req.uid
      <4>1. s \in Ws \cup {NoWs} /\ u \in Uids
        BY <3>2
      <4>2. sessions' = [sessions EXCEPT ![g][u] = s]
        BY <3>3
      <4>. HIDE DEF s, u
      <4>. QED  BY <4>1, <4>2
    <3>. QED  BY <3>1, <3>3
  <2>4. UNCHANGED <<open, inbox, sends, pushq, told, have>>
    BY <1>9 DEF FinishLogin, clientVars
  <2>. QED  BY <1>8, <2>1, <2>2, <2>3, <2>4
<1>10. ASSUME NEW g \in Gateways, FinishSend(g) PROVE GwTypeOK'
  <2>1. Returned(g, "SendMsg") /\ (rpc[g].st = "ok" => rpc[g].res.msg_id \in Nat)
    BY <1>8, <1>10 DEF FinishSend, Reply
  <2>. QED  BY <1>8, <1>10, <2>1 DEF FinishSend
<1>11. ASSUME NEW g \in Gateways, FinishSync(g) PROVE GwTypeOK'
  <2>1. Returned(g, "SyncMsg") /\ (rpc[g].st = "ok" => rpc[g].res.msgs \in SUBSET ChatMsg)
    BY <1>8, <1>11 DEF FinishSync, Reply
  <2>2. rpc[g].st = "ok" => {m.msg_id : m \in rpc[g].res.msgs} \in SUBSET Nat
    BY <2>1 DEF ChatMsg
  <2>3. have' \in [AnyUid -> SUBSET ChatMsg]
    BY <1>11, <2>1 DEF FinishSync, clientVars
  <2>4. told' \in [AnyUid -> SUBSET Nat]
    BY <1>11, <2>2 DEF FinishSync, clientVars
  <2>5. UNCHANGED <<open, suid, sessions, inbox, sends, pushq>>
    BY <1>11 DEF FinishSync
  <2>. QED  BY <1>8, <2>1, <2>3, <2>4, <2>5
<1>12. ASSUME NEW p \in pushq, PushMsg(p) PROVE GwTypeOK'
  <2>1. [from |-> p.from, to |-> p.to, body |-> p.body] \in Msg
    BY DEF PushMsgReq, Msg
  <2>2. inbox' \in [Ws -> SUBSET Msg]
    BY <1>12, <2>1 DEF PushMsg
  <2>. QED  BY <1>12, <2>2 DEF PushMsg, clientVars
<1>13. ASSUME NEW s \in Ws, Close(s) PROVE GwTypeOK'
  BY <1>13 DEF Close, clientVars
<1>14. ASSUME NEW s \in Ws, RecvLoginCrash(s) PROVE GwTypeOK'
  <2>1. sessions' \in [Gateways -> [Uids -> Ws \cup {NoWs}]]
    BY <1>14 DEF RecvLoginCrash
  <2>2. open' \in SUBSET Ws
    BY <1>14 DEF RecvLoginCrash
  <2>. QED  BY <1>14, <2>1, <2>2 DEF RecvLoginCrash, clientVars
<1>. QED  BY <1>1, <1>2, <1>3, <1>5, <1>6, <1>7, <1>9, <1>10, <1>11, <1>12,
             <1>13, <1>14 DEF GwNext

(* Steps of the logic server keep the types.                               *)
LEMMA LogicTypes ==
    ASSUME TypeOK, LogicNext, UNCHANGED gwVars
    PROVE  TypeOK'
<1> USE DEF TypeOK, LogicTypeOK
<1>1. /\ rpc \in [Gateways -> CallState] /\ pushq \in SUBSET PushMsgReq
  BY DEF GwTypeOK
<1>2. (rpc' \in [Gateways -> CallState] /\ pushq' \in SUBSET PushMsgReq)
        => GwTypeOK'
  BY DEF GwTypeOK, gwVars
<1>3. ASSUME NEW g \in Gateways, rpc[g].st = "call"
      PROVE  rpc[g].req \in Request
  BY <1>1, <1>3, CallParts
<1>4. ASSUME NEW g \in Gateways, rpc[g].st = "call", NEW err \in ErrorCode,
             NEW mid \in Nat, NEW msgs \in SUBSET ChatMsg,
             Answer(g, err, mid, msgs)
      PROVE  rpc' \in [Gateways -> CallState] /\ h' \in [Gateways -> Handler]
  <2>1. [err |-> err, msg_id |-> mid, msgs |-> msgs] \in Reply
    BY DEF Reply
  <2>2. AtStart \in Handler
    BY DEF AtStart, Handler
  <2>. QED  BY <1>1, <1>3, <1>4, <2>1, <2>2, CallTypes DEF Answer
<1>5. ASSUME NEW g \in Gateways, NEW mid \in Nat,
             NEW where \in {"start", "session", "insert", "route", "pushing"},
             Goto(g, where, mid)
      PROVE  rpc' \in [Gateways -> CallState] /\ h' \in [Gateways -> Handler]
  BY <1>1, <1>5 DEF Goto, Handler
<1>6. \A g \in Gateways : h[g].mid \in Nat
  BY DEF Handler
<1> DEFINE Good == /\ rpc' \in [Gateways -> CallState]
                   /\ pushq' \in SUBSET PushMsgReq
                   /\ LogicTypeOK'
<1>7. ASSUME NEW g \in Gateways, LoginAuth(g) PROVE Good
  <2>1. rpc[g].req.uid \in Uids
    BY <1>3, <1>7, RequestKind DEF LoginAuth, Serving
  <2>2. rpc' \in [Gateways -> CallState] /\ h' \in [Gateways -> Handler]
    <3>1. /\ rpc[g].st = "call"
          /\ \/ Goto(g, "session", 0)
             \/ Answer(g, "ERR_AUTH_FAIL", 0, {})
      BY <1>7 DEF LoginAuth, Serving
    <3>2. CASE Goto(g, "session", 0)
      BY <1>4, <1>5, <3>1, <3>2 DEF ErrorCode
    <3>3. CASE Answer(g, "ERR_AUTH_FAIL", 0, {})
      BY <1>4, <1>5, <3>1, <3>3 DEF ErrorCode
    <3>. QED  BY <3>1, <3>2, <3>3
  <2>3. proved' \in SUBSET Uids
    BY <1>7, <2>1 DEF LoginAuth
  <2>. QED  BY <1>1, <1>7, <2>2, <2>3 DEF LoginAuth
<1>8. ASSUME NEW g \in Gateways, LoginSession(g) PROVE Good
  <2>1. rpc[g].req.uid \in Uids
    BY <1>3, <1>8, RequestKind DEF LoginSession, Serving
  <2>2. rpc' \in [Gateways -> CallState] /\ h' \in [Gateways -> Handler]
    BY <1>4, <1>8 DEF LoginSession, Serving, ErrorCode
  <2>3. redis' \in [{LoginKey, RouteKey} -> [Uids -> Gateways \cup {NoGw}]]
    BY <1>8, <2>1, LogicAssumption DEF LoginSession, Set
  <2>. QED  BY <1>1, <1>8, <2>2, <2>3 DEF LoginSession, Set
<1>9. ASSUME NEW g \in Gateways, SendCheck(g) PROVE Good
  <2>1. rpc' \in [Gateways -> CallState] /\ h' \in [Gateways -> Handler]
    <3>1. /\ rpc[g].st = "call"
          /\ \/ Goto(g, "insert", clock)
             \/ Answer(g, "ERR_NOT_FRIEND", 0, {})
      BY <1>9 DEF SendCheck, Serving
    <3>2. CASE Goto(g, "insert", clock)
      BY <1>4, <1>5, <3>1, <3>2 DEF ErrorCode
    <3>3. CASE Answer(g, "ERR_NOT_FRIEND", 0, {})
      BY <1>4, <1>5, <3>1, <3>3 DEF ErrorCode
    <3>. QED  BY <3>1, <3>2, <3>3
  <2>. QED  BY <1>1, <1>9, <2>1 DEF SendCheck, dbVars
<1>10. ASSUME NEW g \in Gateways, SaveMessage(g) PROVE Good
  <2> DEFINE m == ToSave(g)
             row == [id |-> nextId, mid |-> m.mid, from |-> m.from,
                     to |-> m.to, body |-> m.body]
  <2>1. m \in Entry
    BY <1>3, <1>6, <1>10, RequestKind DEF SaveMessage, Serving, ToSave, Entry
  <2>2. rpc' \in [Gateways -> CallState] /\ h' \in [Gateways -> Handler]
    BY <1>5, <1>6, <1>10 DEF SaveMessage
  <2>3. PICK saved \in BOOLEAN :
           /\ InsertMsg(m, saved) \/ OtherStatement
           /\ unsaved' = unsaved \cup {x \in {m} : ~saved}
    BY <1>10 DEF SaveMessage
  <2>. HIDE DEF m
  <2>4. row \in ChatRow
    BY <2>1 DEF Entry, ChatRow
  <2>5. rows' \in SUBSET ChatRow /\ nextId' \in Nat
    <3>1. CASE InsertMsg(m, saved)
      BY <2>4, <3>1 DEF InsertMsg
    <3>2. CASE OtherStatement
      BY <3>2, LogicAssumption DEF OtherStatement
    <3>. QED  BY <2>3, <3>1, <3>2
  <2>6. unsaved' \in SUBSET Entry
    BY <2>1, <2>3
  <2>. QED  BY <1>1, <1>10, <2>2, <2>5, <2>6 DEF SaveMessage
<1>11. ASSUME NEW g \in Gateways, LookupRoute(g) PROVE Good
  <2>1. rpc' \in [Gateways -> CallState] /\ h' \in [Gateways -> Handler]
    BY <1>4, <1>5, <1>6, <1>11 DEF LookupRoute, Serving, ErrorCode
  <2>2. pushq' \in SUBSET PushMsgReq
    <3>1. /\ rpc[g].req.from \in AnyUid /\ rpc[g].req.to \in Uids
          /\ rpc[g].req.body \in Bodies
      BY <1>3, <1>11, RequestKind DEF LookupRoute, Serving
    <3>2. redis[RouteKey][rpc[g].req.to] \in Gateways \cup {NoGw}
      BY <3>1
    <3>3. ASSUME redis[RouteKey][rpc[g].req.to] # NoGw
          PROVE  [by |-> g, gw |-> redis[RouteKey][rpc[g].req.to],
                  mid |-> h[g].mid, from |-> rpc[g].req.from,
                  to |-> rpc[g].req.to, body |-> rpc[g].req.body] \in PushMsgReq
      BY <1>6, <3>1, <3>2, <3>3 DEF PushMsgReq
    <3>. QED  BY <1>1, <1>11, <3>3 DEF LookupRoute, Get, PackPushMsg
  <2>. QED  BY <1>11, <2>1, <2>2 DEF LookupRoute, dbVars
<1>12. ASSUME NEW g \in Gateways, PushReturns(g) PROVE Good
  <2>1. rpc' \in [Gateways -> CallState] /\ h' \in [Gateways -> Handler]
    BY <1>4, <1>6, <1>12 DEF PushReturns, Serving, ErrorCode
  <2>2. pushq' \in SUBSET PushMsgReq
    BY <1>1, <1>12 DEF PushReturns
  <2>. QED  BY <1>12, <2>1, <2>2 DEF PushReturns, dbVars
<1>13. ASSUME NEW g \in Gateways, SyncMsg(g) PROVE Good
  <2>1. \A r \in rows : ToChatMsg(r) \in ChatMsg
    BY DEF ToChatMsg, ChatMsg, ChatRow
  <2>2. {ToChatMsg(r) : r \in OfflineRows(rpc[g].req.uid, rpc[g].req.last)}
          \in SUBSET ChatMsg
    BY <2>1 DEF OfflineRows
  <2>3. rpc' \in [Gateways -> CallState] /\ h' \in [Gateways -> Handler]
    <3>1. /\ rpc[g].st = "call"
          /\ \/ Answer(g, "ERR_SUCCESS", 0,
                       {ToChatMsg(r) : r \in OfflineRows(rpc[g].req.uid, rpc[g].req.last)})
             \/ Answer(g, "ERR_SUCCESS", 0, {})
      BY <1>13 DEF SyncMsg, Serving
    <3>2. CASE Answer(g, "ERR_SUCCESS", 0,
                       {ToChatMsg(r) : r \in OfflineRows(rpc[g].req.uid, rpc[g].req.last)})
      BY <1>4, <1>5, <3>1, <3>2, <2>2 DEF ErrorCode
    <3>3. CASE Answer(g, "ERR_SUCCESS", 0, {})
      BY <1>4, <1>5, <3>1, <3>3 DEF ErrorCode
    <3>. QED  BY <3>1, <3>2, <3>3
  <2>. QED  BY <1>1, <1>13, <2>3 DEF SyncMsg, dbVars
<1>14. ASSUME LogicCrash PROVE Good
  <2>1. rpc' \in [Gateways -> CallState]
    BY <1>1, <1>3, <1>14, CallTypes DEF LogicCrash
  <2>2. h' \in [Gateways -> Handler]
    BY <1>14 DEF LogicCrash, AtStart, Handler
  <2>. QED  BY <1>1, <1>14, <2>1, <2>2 DEF LogicCrash, dbVars
<1>15. ASSUME Tick PROVE Good
  BY <1>1, <1>15 DEF Tick, dbVars
<1>16. Good
  BY <1>7, <1>8, <1>9, <1>10, <1>11, <1>12, <1>13, <1>14, <1>15
     DEF LogicNext, HandlerStep
<1>. QED  BY <1>2, <1>16

(* Every variable of the system keeps its type.                            *)
THEOREM ChatTypeCorrect == Spec => []TypeOK
<1>1. TypeOK /\ [Next]_vars => TypeOK'
  <2>1. ASSUME TypeOK, UNCHANGED vars PROVE TypeOK'
    BY <2>1 DEF vars, wireVars, gwVars, logicVars, TypeOK, GwTypeOK, LogicTypeOK
  <2>. QED  BY <2>1, GatewayTypes, LogicTypes DEF Next
<1>. QED  BY <1>1, InitTypes, PTL DEF Spec

-----------------------------------------------------------------------------
(* Sessions.                                                               *)

(* The event loop that waits for a call is not free; one that is not free  *)
(* and has no call is in the close callback of a socket of its own, which  *)
(* is not connected any more.                                              *)
Busy == \A g \in Gateways :
    /\ rpc[g].st # "none" => cur[g] # NoWs
    /\ Closing(g) => cur[g] \notin open /\ GwOf[cur[g]] = g

(* A socket that waits for its login has no uid yet.                       *)
FreshLogin ==
    \A g \in Gateways :
        (rpc[g].st # "none" /\ rpc[g].req.op = "Login") =>
            suid[cur[g]] = NoUid

(* The session invariant.  PushReachesOwner needs FreshLogin: a second     *)
(* login on a socket would leave the entry of its first uid behind; both   *)
(* need CallerStays, since FinishLogin uses the socket that called.        *)
SInv ==
    /\ TypeOK
    /\ Busy
    /\ CallerStays
    /\ OneLoginPerSocket => FreshLogin /\ PushReachesOwner /\ InboxOwn

(* What the logic server may do to a call: nothing, or answer or fail it   *)
(* with the request unchanged.                                             *)
LEMMA LogicRely ==
    ASSUME TypeOK, LogicNext
    PROVE  \A g \in Gateways :
              \/ rpc'[g] = rpc[g]
              \/ /\ rpc[g].st = "call"
                 /\ rpc'[g].st \in {"ok", "fail"}
                 /\ rpc'[g].req = rpc[g].req
<1> DEFINE Rely == \A g \in Gateways :
              \/ rpc'[g] = rpc[g]
              \/ /\ rpc[g].st = "call"
                 /\ rpc'[g].st \in {"ok", "fail"}
                 /\ rpc'[g].req = rpc[g].req
<1>1. rpc \in [Gateways -> CallState]
  BY DEF TypeOK, GwTypeOK
<1>2. ASSUME NEW g \in Gateways, rpc[g].st = "call", NEW err, NEW mid, NEW msgs,
             Answer(g, err, mid, msgs)
      PROVE  Rely
  BY <1>1, <1>2 DEF Answer, Ok
<1>3. ASSUME UNCHANGED rpc PROVE Rely
  BY <1>3
<1>4. ASSUME NEW g \in Gateways, HandlerStep(g) PROVE Rely
  BY <1>2, <1>3, <1>4 DEF HandlerStep, Serving, Goto, LoginAuth, LoginSession,
     SendCheck, SaveMessage, LookupRoute, PushReturns, SyncMsg
<1>5. ASSUME LogicCrash PROVE Rely
  BY <1>1, <1>5 DEF LogicCrash, Fail
<1>6. ASSUME Tick PROVE Rely
  BY <1>6 DEF Tick
<1>. QED  BY <1>4, <1>5, <1>6 DEF LogicNext

(* The logic server cannot disturb the sessions.                           *)
LEMMA LogicKeepsSessions ==
    ASSUME SInv, LogicNext, UNCHANGED gwVars
    PROVE  SInv'
<1>1. TypeOK /\ TypeOK'
  BY LogicTypes DEF SInv
<1>2. UNCHANGED <<open, suid, sessions, cur, inbox>>
  BY DEF gwVars
<1>3. \A g \in Gateways :
         (rpc'[g].st = "none" <=> rpc[g].st = "none")
           /\ (rpc[g].st # "none" => rpc'[g].req = rpc[g].req)
  BY <1>1, LogicRely
<1>4. Busy'
  BY <1>2, <1>3 DEF SInv, Busy, Closing
<1>5. CallerStays'
  BY <1>2, <1>3 DEF SInv, CallerStays
<1>6. OneLoginPerSocket => FreshLogin'
  BY <1>2, <1>3 DEF SInv, FreshLogin
<1>7. OneLoginPerSocket => PushReachesOwner' /\ InboxOwn'
  BY <1>2 DEF SInv, PushReachesOwner, PushTarget, InboxOwn
<1>. QED  BY <1>1, <1>4, <1>5, <1>6, <1>7 DEF SInv

(* A connection is opened: its address was in nobody's table and in no     *)
(* handler.                                                                *)
LEMMA OpenKeepsSessions ==
    ASSUME SInv, NEW s \in Ws, Open(s), TypeOK'
    PROVE  SInv'
<1>1. /\ s \notin open /\ open' = open \cup {s}
      /\ UNCHANGED <<sessions, cur, rpc>>
  BY DEF Open
<1>2. /\ \A o \in Ws : suid'[o] = IF o = s THEN NoUid ELSE suid[o]
      /\ \A o \in Ws : inbox'[o] = IF o = s THEN {} ELSE inbox[o]
      /\ open \subseteq Ws /\ open' \subseteq Ws
  BY DEF Open, SInv, TypeOK, GwTypeOK
<1>3. Busy'
  <2>1. \A g \in Gateways : Closing(g) => cur[g] # s
    BY DEF Open, LoopFree, Closing, SInv, Busy
  <2>. QED  BY <1>1, <2>1 DEF SInv, Busy, Closing
<1>4. \A g \in Gateways : rpc[g].st # "none" => cur[g] \in open /\ suid'[cur[g]] = suid[cur[g]]
  BY <1>1, <1>2 DEF SInv, CallerStays
<1>5. CallerStays'
  BY <1>1, <1>4 DEF SInv, CallerStays
<1>6. OneLoginPerSocket => FreshLogin'
  BY <1>1, <1>4 DEF SInv, FreshLogin
<1>7. OneLoginPerSocket => PushReachesOwner'
  <2>1. ASSUME OneLoginPerSocket, NEW g \in Gateways, NEW u \in Uids,
               sessions[g][u] # NoWs
        PROVE  /\ sessions[g][u] \in open \cup {cur[g]}
               /\ GwOf[sessions[g][u]] = g /\ suid[sessions[g][u]] = u
               /\ sessions[g][u] \in Ws /\ sessions[g][u] # s
    BY <1>1, <2>1 DEF Open, LoopFree, SInv, PushReachesOwner, PushTarget, TypeOK,
       GwTypeOK
  <2>. QED  BY <1>1, <1>2, <2>1 DEF PushReachesOwner, PushTarget
<1>8. OneLoginPerSocket => InboxOwn'
  BY <1>1, <1>2 DEF SInv, InboxOwn
<1>. QED  BY <1>3, <1>5, <1>6, <1>7, <1>8 DEF SInv

(* A connection is closed: no handler of its gateway is running, and the   *)
(* event loop holds the socket until its entry is erased.                  *)
LEMMA CloseKeepsSessions ==
    ASSUME SInv, NEW s \in Ws, Close(s), TypeOK'
    PROVE  SInv'
<1>1. /\ s \in open /\ open' = open \ {s} /\ cur[GwOf[s]] = NoWs
      /\ UNCHANGED <<suid, sessions, rpc, inbox>>
  BY DEF Close, LoopFree
<1>2. GwOf[s] \in Gateways /\ NoWs \notin Ws /\ open \subseteq Ws
  BY GatewayAssumption DEF SInv, TypeOK, GwTypeOK
<1>3. \A g \in Gateways : cur'[g] = IF g = GwOf[s] THEN s ELSE cur[g]
  BY <1>2 DEF Close, SInv, TypeOK, GwTypeOK
<1>4. rpc[GwOf[s]].st = "none"
  BY <1>1, <1>2 DEF SInv, Busy
<1>5. Busy'
  BY <1>1, <1>2, <1>3, <1>4 DEF SInv, Busy, Closing
<1>6. CallerStays'
  <2>1. ASSUME NEW g \in Gateways, rpc[g].st # "none"
        PROVE  cur'[g] = cur[g] /\ cur[g] # s
    BY <1>1, <1>3, <1>4, <2>1 DEF SInv, CallerStays
  <2>. QED  BY <1>1, <2>1 DEF SInv, CallerStays
<1>7. OneLoginPerSocket => FreshLogin'
  BY <1>1, <1>3, <1>4 DEF SInv, FreshLogin
<1>8. OneLoginPerSocket => PushReachesOwner'
  BY <1>1, <1>3 DEF SInv, PushReachesOwner, PushTarget
<1>9. OneLoginPerSocket => InboxOwn'
  BY <1>1 DEF SInv, InboxOwn
<1>. QED  BY <1>5, <1>6, <1>7, <1>8, <1>9 DEF SInv

(* What RemoveSession does to the table, for the socket being closed.      *)
LEMMA EntryErased ==
    ASSUME SInv, NEW g \in Gateways, CloseEnd(g)
    PROVE  /\ cur[g] \in Ws /\ cur[g] \notin open /\ GwOf[cur[g]] = g
           /\ rpc[g].st = "none"
           /\ UNCHANGED <<open, suid, rpc, inbox, pushq>>
           /\ \A x \in Gateways : cur'[x] = IF x = g THEN NoWs ELSE cur[x]
           /\ \A x \in Gateways, u \in Uids :
                 sessions'[x][u] = IF x = g /\ u = suid[cur[g]] THEN NoWs
                                                               ELSE sessions[x][u]
<1> DEFINE v == suid[cur[g]]
<1>1. /\ cur[g] \in Ws /\ cur[g] \notin open /\ GwOf[cur[g]] = g
      /\ rpc[g].st = "none" /\ UNCHANGED <<open, suid, rpc, inbox, pushq>>
  BY DEF CloseEnd, Closing, SInv, Busy, TypeOK, GwTypeOK
<1>2. \A x \in Gateways : cur'[x] = IF x = g THEN NoWs ELSE cur[x]
  BY DEF CloseEnd, SInv, TypeOK, GwTypeOK
<1>3. v \in AnyUid /\ sessions \in [Gateways -> [Uids -> Ws \cup {NoWs}]]
  BY <1>1 DEF SInv, TypeOK, GwTypeOK
<1>4. \/ v = NoUid /\ sessions' = sessions
      \/ v # NoUid /\ sessions' = [sessions EXCEPT ![g][v] = NoWs]
  BY DEF CloseEnd, RemoveSession
<1>. HIDE DEF v
<1>5. \A x \in Gateways, u \in Uids :
         sessions'[x][u] = IF x = g /\ u = v THEN NoWs ELSE sessions[x][u]
  <2>1. CASE v # NoUid
    <3>1. v \in Uids
      BY <1>3, <2>1 DEF AnyUid
    <3>. QED  BY <1>3, <1>4, <2>1, <3>1
  <2>2. CASE v = NoUid
    <3>1. v \notin Uids
      BY <2>2, WireAssumption DEF NoUid
    <3>. QED  BY <1>4, <2>2, <3>1
  <2>. QED  BY <2>1, <2>2
<1>. QED  BY <1>1, <1>2, <1>5 DEF v

(* The close callback ends: the entry of the socket's uid is the only one  *)
(* that can point to it.                                                   *)
LEMMA CloseEndKeepsSessions ==
    ASSUME SInv, NEW g \in Gateways, CloseEnd(g), TypeOK'
    PROVE  SInv'
<1>1. /\ cur[g] \in Ws /\ cur[g] \notin open /\ rpc[g].st = "none"
      /\ UNCHANGED <<open, suid, rpc, inbox>>
      /\ \A x \in Gateways : cur'[x] = IF x = g THEN NoWs ELSE cur[x]
  BY EntryErased
<1>2. \A x \in Gateways, u \in Uids :
         sessions'[x][u] = IF x = g /\ u = suid[cur[g]] THEN NoWs
                                                       ELSE sessions[x][u]
  BY EntryErased
<1>3. Busy'
  BY <1>1 DEF SInv, Busy, Closing
<1>4. CallerStays'
  BY <1>1 DEF SInv, CallerStays
<1>5. OneLoginPerSocket => FreshLogin'
  BY <1>1 DEF SInv, FreshLogin
<1>6. OneLoginPerSocket => PushReachesOwner'
  <2>1. SUFFICES ASSUME OneLoginPerSocket, NEW x \in Gateways, NEW u \in Uids,
                        sessions'[x][u] # NoWs
                 PROVE  /\ sessions'[x][u] \in open \cup {cur'[x]}
                        /\ GwOf[sessions'[x][u]] = x
                        /\ suid[sessions'[x][u]] = u
    BY <1>1 DEF PushReachesOwner, PushTarget
  <2>2. sessions'[x][u] = sessions[x][u] /\ ~(x = g /\ u = suid[cur[g]])
    BY <1>2, <2>1
  <2>3. /\ sessions[x][u] \in open \cup {cur[x]} /\ GwOf[sessions[x][u]] = x
        /\ suid[sessions[x][u]] = u
    BY <2>1, <2>2 DEF SInv, PushReachesOwner, PushTarget
  <2>. QED  BY <1>1, <2>2, <2>3
<1>7. OneLoginPerSocket => InboxOwn'
  BY <1>1 DEF SInv, InboxOwn
<1>. QED  BY <1>3, <1>4, <1>5, <1>6, <1>7 DEF SInv

(* The process of a gateway dies in a login frame: its table and its       *)
(* connections are gone together, and it had no call under way.            *)
LEMMA CrashKeepsSessions ==
    ASSUME SInv, NEW s \in Ws, RecvLoginCrash(s), TypeOK'
    PROVE  SInv'
<1>1. /\ cur[GwOf[s]] = NoWs /\ open' = {o \in open : GwOf[o] # GwOf[s]}
      /\ UNCHANGED <<suid, cur, rpc, inbox>> /\ GwOf[s] \in Gateways
  BY GatewayAssumption DEF RecvLoginCrash, LoopFree
<1>2. \A g \in Gateways, u \in Uids :
         sessions'[g][u] = IF g = GwOf[s] THEN NoWs ELSE sessions[g][u]
  BY <1>1 DEF RecvLoginCrash, SInv, TypeOK, GwTypeOK
<1>3. rpc[GwOf[s]].st = "none"
  BY <1>1 DEF SInv, Busy
<1>4. Busy'
  BY <1>1 DEF SInv, Busy, Closing
<1>5. CallerStays'
  BY <1>1, <1>3 DEF SInv, CallerStays
<1>6. OneLoginPerSocket => FreshLogin'
  BY <1>1 DEF SInv, FreshLogin
<1>7. OneLoginPerSocket => PushReachesOwner'
  BY <1>1, <1>2 DEF SInv, PushReachesOwner, PushTarget
<1>8. OneLoginPerSocket => InboxOwn'
  BY <1>1 DEF SInv, InboxOwn
<1>. QED  BY <1>4, <1>5, <1>6, <1>7, <1>8 DEF SInv

(* A handler calls the logic server for the socket it serves.              *)
LEMMA CallKeepsSessions ==
    ASSUME SInv, NEW s \in open, NEW r, LoopFree(s), CallLogic(s, r), TypeOK',
           r.op = "SendMsg" => r.from = suid[s],
           r.op = "SyncMsg" => r.uid = suid[s],
           (OneLoginPerSocket /\ r.op = "Login") => suid[s] = NoUid,
           UNCHANGED <<open, suid, sessions, inbox>>
    PROVE  SInv'
<1>1. s \in Ws /\ s # NoWs /\ GwOf[s] \in Gateways
  BY GatewayAssumption DEF SInv, TypeOK, GwTypeOK
<1>2. \A g \in Gateways : /\ rpc'[g] = IF g = GwOf[s] THEN Call(r) ELSE rpc[g]
                          /\ cur'[g] = IF g = GwOf[s] THEN s ELSE cur[g]
  BY <1>1 DEF CallLogic, SInv, TypeOK, GwTypeOK
<1>3. Call(r).st = "call" /\ Call(r).req = r
  BY DEF Call
<1>4. Busy'
  BY <1>1, <1>2, <1>3 DEF SInv, Busy, Closing
<1>5. CallerStays'
  BY <1>2, <1>3 DEF SInv, CallerStays
<1>6. OneLoginPerSocket => FreshLogin'
  BY <1>2, <1>3 DEF SInv, FreshLogin
<1>7. OneLoginPerSocket => PushReachesOwner'
  <2>1. \A g \in Gateways : cur'[g] = cur[g] \/ cur[g] = NoWs
    BY <1>2 DEF LoopFree
  <2>. QED  BY <2>1 DEF SInv, PushReachesOwner, PushTarget
<1>8. OneLoginPerSocket => InboxOwn'
  BY DEF SInv, InboxOwn
<1>. QED  BY <1>4, <1>5, <1>6, <1>7, <1>8 DEF SInv

(* A handler ends without a change to the sessions.                        *)
LEMMA ReturnKeepsSessions ==
    ASSUME SInv, NEW g \in Gateways, NEW op, Returned(g, op), TypeOK',
           UNCHANGED <<open, suid, sessions, inbox>>
    PROVE  SInv'
<1>1. \A x \in Gateways : /\ rpc'[x] = IF x = g THEN NoCall ELSE rpc[x]
                          /\ cur'[x] = IF x = g THEN NoWs ELSE cur[x]
  BY DEF Returned, SInv, TypeOK, GwTypeOK
<1>2. NoCall.st = "none"
  BY DEF NoCall
<1>3. Busy'
  BY <1>1, <1>2 DEF SInv, Busy, Closing
<1>4. CallerStays'
  BY <1>1, <1>2 DEF SInv, CallerStays
<1>5. OneLoginPerSocket => FreshLogin'
  BY <1>1, <1>2 DEF SInv, FreshLogin
<1>6. OneLoginPerSocket => PushReachesOwner'
  <2>1. cur[g] \in open
    BY DEF Returned, SInv, CallerStays
  <2>. QED  BY <1>1, <2>1 DEF SInv, PushReachesOwner, PushTarget
<1>7. OneLoginPerSocket => InboxOwn'
  BY DEF SInv, InboxOwn
<1>. QED  BY <1>3, <1>4, <1>5, <1>6, <1>7 DEF SInv

(* A login ends: the socket gets its uid and the uid its socket.           *)
LEMMA LoginKeepsSessions ==
    ASSUME SInv, NEW g \in Gateways, FinishLogin(g), TypeOK'
    PROVE  SInv'
<1> DEFINE c == cur[g]
           u == rpc[g].req.uid
<1>1. /\ Returned(g, "Login") /\ UNCHANGED <<open, inbox>>
      /\ rpc[g].st \in {"ok", "fail"} /\ rpc[g].req.op = "Login"
  BY DEF FinishLogin, Returned
<1>2. CASE UNCHANGED <<suid, sessions>>
  BY <1>1, <1>2, ReturnKeepsSessions
<1>3. CASE /\ suid' = [suid EXCEPT ![c] = u]
           /\ sessions' = [sessions EXCEPT ![g][u] = c]
  <2>1. u \in Uids
    BY <1>1, CallParts, RequestKind DEF SInv, TypeOK, GwTypeOK
  <2>2. c \in open /\ c \in Ws /\ GwOf[c] = g /\ c # NoWs
    BY <1>1, GatewayAssumption DEF SInv, CallerStays, TypeOK, GwTypeOK
  <2>3. OneLoginPerSocket => suid[c] = NoUid
    BY <1>1 DEF SInv, FreshLogin
  <2>. HIDE DEF c, u
  <2>4. \A o \in Ws : suid'[o] = IF o = c THEN u ELSE suid[o]
    BY <1>3, <2>2 DEF SInv, TypeOK, GwTypeOK
  <2>5. \A x \in Gateways, v \in Uids :
           sessions'[x][v] = IF x = g /\ v = u THEN c ELSE sessions[x][v]
    BY <1>3, <2>1 DEF SInv, TypeOK, GwTypeOK
  <2>6. \A x \in Gateways : /\ rpc'[x] = IF x = g THEN NoCall ELSE rpc[x]
                            /\ cur'[x] = IF x = g THEN NoWs ELSE cur[x]
    BY <1>1 DEF Returned, SInv, TypeOK, GwTypeOK
  <2>7. NoCall.st = "none"
    BY DEF NoCall
  <2>8. NoUid \notin Uids
    BY WireAssumption DEF NoUid
  <2>9. \A x \in Gateways : (x # g /\ rpc[x].st # "none") =>
                               cur[x] \in Ws /\ cur[x] # c
    BY <2>2 DEF SInv, CallerStays, TypeOK, GwTypeOK
  <2>10. Busy'
    BY <1>1, <2>6, <2>7 DEF SInv, Busy, Closing
  <2>11. CallerStays'
    BY <1>1, <2>4, <2>6, <2>7, <2>9 DEF SInv, CallerStays
  <2>12. OneLoginPerSocket => FreshLogin'
    BY <2>4, <2>6, <2>7, <2>9 DEF SInv, FreshLogin
  <2>13. OneLoginPerSocket => PushReachesOwner'
    <3>1. SUFFICES ASSUME OneLoginPerSocket, NEW x \in Gateways, NEW v \in Uids,
                          sessions'[x][v] # NoWs
                   PROVE  /\ sessions'[x][v] \in open \cup {cur'[x]}
                          /\ GwOf[sessions'[x][v]] = x
                          /\ suid'[sessions'[x][v]] = v
      BY <1>1 DEF PushReachesOwner, PushTarget
    <3>2. CASE x = g /\ v = u
      BY <2>2, <2>4, <2>5, <3>2
    <3>3. CASE ~(x = g /\ v = u)
      <4>1. /\ sessions[x][v] \in open \cup {cur[x]}
            /\ GwOf[sessions[x][v]] = x
            /\ suid[sessions[x][v]] = v /\ sessions'[x][v] = sessions[x][v]
        BY <2>5, <3>1, <3>3 DEF SInv, PushReachesOwner, PushTarget
      <4>2. sessions[x][v] # c /\ sessions[x][v] \in Ws
        BY <2>3, <2>8, <3>1, <4>1 DEF SInv, TypeOK, GwTypeOK
      <4>3. sessions[x][v] \in open \cup {cur'[x]}
        BY <2>2, <2>6, <4>1 DEF c
      <4>. QED  BY <2>4, <4>1, <4>2, <4>3
    <3>. QED  BY <3>2, <3>3
  <2>14. OneLoginPerSocket => InboxOwn'
    <3>1. \A o \in Ws : \A m \in inbox[o] : m.to \in Uids
      BY DEF SInv, TypeOK, GwTypeOK, Msg
    <3>2. open \subseteq Ws
      BY DEF SInv, TypeOK, GwTypeOK
    <3>. QED  BY <1>1, <2>2, <2>3, <2>4, <2>8, <3>1, <3>2 DEF SInv, InboxOwn
  <2>. QED  BY <2>10, <2>11, <2>12, <2>13, <2>14 DEF SInv
<1>. QED  BY <1>2, <1>3 DEF FinishLogin, AddSession

(* A push is delivered to the socket of its addressee or dropped.          *)
LEMMA PushKeepsSessions ==
    ASSUME SInv, NEW p \in pushq, PushMsg(p), TypeOK'
    PROVE  SInv'
<1> DEFINE s == PushTarget(p.gw, p.to)
           m == [from |-> p.from, to |-> p.to, body |-> p.body]
<1>1. UNCHANGED <<open, suid, sessions, cur, rpc>>
  BY DEF PushMsg
<1>2. Busy' /\ CallerStays' /\ (OneLoginPerSocket => FreshLogin' /\ PushReachesOwner')
  BY <1>1 DEF SInv, Busy, Closing, CallerStays, FreshLogin, PushReachesOwner,
              PushTarget
<1>3. OneLoginPerSocket => InboxOwn'
  <2>1. CASE inbox' = inbox
    BY <1>1, <2>1 DEF SInv, InboxOwn
  <2>2. CASE s # NoWs /\ inbox' = [inbox EXCEPT ![s] = @ \cup {m}]
    <3>1. p.gw \in Gateways /\ p.to \in Uids /\ m.to = p.to
      BY DEF SInv, TypeOK, GwTypeOK, PushMsgReq
    <3>2. OneLoginPerSocket => suid[s] = p.to
      BY <2>2, <3>1 DEF SInv, PushReachesOwner
    <3>3. open \subseteq Ws
      BY DEF SInv, TypeOK, GwTypeOK
    <3>. HIDE DEF s, m
    <3>4. \A o \in Ws : inbox'[o] = IF o = s THEN inbox[o] \cup {m} ELSE inbox[o]
      BY <2>2 DEF SInv, TypeOK, GwTypeOK
    <3>. QED  BY <1>1, <3>1, <3>2, <3>3, <3>4 DEF SInv, InboxOwn
  <2>. QED  BY <2>1, <2>2 DEF PushMsg
<1>. QED  BY <1>2, <1>3 DEF SInv

(* Every step of a gateway keeps the session invariant.                    *)
LEMMA GatewayKeepsSessions ==
    ASSUME SInv, GwNext, UNCHANGED logicVars
    PROVE  SInv'
<1>1. TypeOK'
  BY GatewayTypes DEF SInv
<1>2. ASSUME NEW s \in Ws, NEW u \in Uids, NEW tok \in Tokens, RecvLogin(s, u, tok)
      PROVE  SInv'
  <2> DEFINE r == [op |-> "Login", uid |-> u, token |-> tok]
  <2>1. /\ s \in open /\ LoopFree(s) /\ CallLogic(s, r) /\ r.op = "Login"
        /\ UNCHANGED <<open, suid, sessions, inbox>>
        /\ OneLoginPerSocket => suid[s] = NoUid
    BY <1>2 DEF RecvLogin, ClientMayLogin
  <2>. HIDE DEF r
  <2>. QED  BY <1>1, <2>1, CallKeepsSessions
<1>3. ASSUME NEW s \in Ws, NEW f \in Uids, NEW t \in Uids, NEW b \in Bodies,
             RecvSend(s, f, t, b)
      PROVE  SInv'
  <2> DEFINE r == [op |-> "SendMsg", from |-> suid[s], to |-> t, body |-> b]
  <2>1. /\ s \in open /\ LoopFree(s) /\ CallLogic(s, r)
        /\ r.op = "SendMsg" /\ r.from = suid[s]
        /\ UNCHANGED <<open, suid, sessions, inbox>>
    BY <1>3 DEF RecvSend
  <2>. HIDE DEF r
  <2>. QED  BY <1>1, <2>1, CallKeepsSessions
<1>4. ASSUME NEW s \in Ws, NEW f \in Uids, NEW k, RecvSync(s, f, k)
      PROVE  SInv'
  <2> DEFINE r == [op |-> "SyncMsg", uid |-> suid[s], last |-> k]
  <2>1. /\ s \in open /\ LoopFree(s) /\ CallLogic(s, r)
        /\ r.op = "SyncMsg" /\ r.uid = suid[s]
        /\ UNCHANGED <<open, suid, sessions, inbox>>
    BY <1>4 DEF RecvSync
  <2>. HIDE DEF r
  <2>. QED  BY <1>1, <2>1, CallKeepsSessions
<1>5. ASSUME NEW g \in Gateways, FinishSend(g) \/ FinishSync(g) PROVE SInv'
  BY <1>1, <1>5, ReturnKeepsSessions DEF FinishSend, FinishSync
<1>. QED
  BY <1>1, <1>2, <1>3, <1>4, <1>5, OpenKeepsSessions, CloseKeepsSessions,
     CloseEndKeepsSessions, CrashKeepsSessions, LoginKeepsSessions,
     PushKeepsSessions DEF GwNext

(* The session invariant holds in every reachable state.                   *)
THEOREM SessionInvariant == Spec => []SInv
<1>1. Init => SInv
  <2>1. SUFFICES ASSUME Init PROVE SInv
    OBVIOUS
  <2>2. \A g \in Gateways : rpc[g].st = "none" /\ cur[g] = NoWs
    BY <2>1 DEF Init, GwInit, NoCall
  <2>3. open = {} /\ \A g \in Gateways, u \in Uids : PushTarget(g, u) = NoWs
    BY <2>1 DEF Init, GwInit, PushTarget
  <2>. QED  BY <2>1, <2>2, <2>3, InitTypes
            DEF SInv, Busy, Closing, CallerStays, FreshLogin,
                PushReachesOwner, InboxOwn
<1>2. SInv /\ [Next]_vars => SInv'
  <2>1. ASSUME SInv, UNCHANGED vars PROVE SInv'
    <3>1. UNCHANGED <<rpc, open, suid, sessions, cur, inbox>>
      BY <2>1 DEF vars, wireVars, gwVars
    <3>2. TypeOK'
      BY <2>1 DEF SInv, vars, wireVars, gwVars, logicVars, TypeOK, GwTypeOK,
                  LogicTypeOK
    <3>. QED  BY <2>1, <3>1, <3>2 DEF SInv, Busy, Closing, CallerStays, FreshLogin,
                 PushReachesOwner, PushTarget, InboxOwn
  <2>. QED  BY <2>1, GatewayKeepsSessions, LogicKeepsSessions DEF Next
<1>. QED  BY <1>1, <1>2, PTL DEF Spec

(* While a handler waits for the logic server, its socket stays connected  *)
(* and keeps its uid (gateway/main.cc:140,187,221).                        *)
THEOREM CallersStay == Spec => []CallerStays
BY SessionInvariant, PTL DEF SInv

(* If no connection logs in twice, PushMsg sends only over a socket that   *)
(* is logged in as the addressee and connected or in its close callback    *)
(* (gateway/main.cc:38-46,277-278).                                        *)
THEOREM PushesReachOwner ==
    ASSUME OneLoginPerSocket
    PROVE  Spec => []PushReachesOwner
<1>1. SInv => PushReachesOwner
  BY DEF SInv
<1>. QED  BY <1>1, SessionInvariant, PTL

(* If no connection logs in twice, no client sees a message addressed to   *)
(* another user (gateway/main.cc:38-46,144-145).                           *)
THEOREM InboxesOwn ==
    ASSUME OneLoginPerSocket
    PROVE  Spec => []InboxOwn
<1>1. SInv => InboxOwn
  BY DEF SInv
<1>. QED  BY <1>1, SessionInvariant, PTL

-----------------------------------------------------------------------------
(* Reachability.                                                           *)

(* The entry of a logged-in uid points to its socket.  LoggedInReachable   *)
(* says only that there is an entry, which Close of another socket with    *)
(* the same uid would erase.                                               *)
Linked ==
    \A s \in open :
        suid[s] # NoUid => sessions[GwOf[s]][suid[s]] = s

(* While a login is under way, no other socket of the gateway has its uid: *)
(* the client's check is made before the call and must still hold after    *)
(* it, when FinishLogin overwrites the entry.                              *)
LoginAlone ==
    \A g \in Gateways :
        (rpc[g].st # "none" /\ rpc[g].req.op = "Login") =>
            \A o \in open \ {cur[g]} :
                GwOf[o] = g => suid[o] # rpc[g].req.uid

(* The uid of a socket in its close callback has no other socket on the    *)
(* gateway, so that the entry erased is not that of another.               *)
CloserAlone ==
    \A g \in Gateways :
        Closing(g) => \A o \in open :
            (GwOf[o] = g /\ suid[o] # NoUid) => suid[o] # suid[cur[g]]

LInv == OneSocketPerUid => Linked /\ LoginAlone /\ CloserAlone

(* Steps of the logic server.                                              *)
LEMMA LogicKeepsLinks ==
    ASSUME SInv, LInv, LogicNext, UNCHANGED gwVars
    PROVE  LInv'
<1>1. UNCHANGED <<open, suid, sessions, cur>>
  BY DEF gwVars
<1>2. \A g \in Gateways :
         (rpc'[g].st = "none" <=> rpc[g].st = "none")
           /\ (rpc[g].st # "none" => rpc'[g].req = rpc[g].req)
  BY LogicRely DEF SInv
<1>. QED  BY <1>1, <1>2 DEF LInv, Linked, LoginAlone, CloserAlone, Closing

(* The close callback ends: the entry it erases is its own.                *)
LEMMA CloseEndKeepsLinks ==
    ASSUME SInv, LInv, NEW g \in Gateways, CloseEnd(g)
    PROVE  LInv'
<1>1. /\ rpc[g].st = "none" /\ UNCHANGED <<open, suid, rpc>>
      /\ \A x \in Gateways : cur'[x] = IF x = g THEN NoWs ELSE cur[x]
  BY EntryErased
<1>2. \A x \in Gateways, u \in Uids :
         sessions'[x][u] = IF x = g /\ u = suid[cur[g]] THEN NoWs
                                                       ELSE sessions[x][u]
  BY EntryErased
<1>3. /\ GwOf \in [Ws -> Gateways] /\ suid \in [Ws -> AnyUid] /\ open \subseteq Ws
  BY GatewayAssumption DEF SInv, TypeOK, GwTypeOK
<1>4. OneSocketPerUid => LoginAlone'
  BY <1>1 DEF LInv, LoginAlone
<1>5. OneSocketPerUid => CloserAlone'
  BY <1>1 DEF LInv, CloserAlone, Closing
<1>6. ASSUME OneSocketPerUid, NEW o \in open, suid[o] # NoUid
      PROVE  sessions'[GwOf[o]][suid[o]] = o
  <2>1. o \in Ws /\ sessions[GwOf[o]][suid[o]] = o
    BY <1>3, <1>6 DEF LInv, Linked
  <2>2. GwOf[o] \in Gateways /\ suid[o] \in Uids
    BY <1>3, <1>6, <2>1 DEF AnyUid
  <2>3. ~(GwOf[o] = g /\ suid[o] = suid[cur[g]])
    BY <1>6 DEF LInv, CloserAlone, CloseEnd
  <2>. QED  BY <1>2, <2>1, <2>2, <2>3
<1>. QED  BY <1>1, <1>4, <1>5, <1>6 DEF LInv, Linked

(* A connection is closed: nobody else on the gateway has its uid, since   *)
(* the entry of the uid points to it.                                      *)
LEMMA CloseKeepsLinks ==
    ASSUME SInv, LInv, NEW s \in Ws, Close(s)
    PROVE  LInv'
<1>1. /\ s \in open /\ open' = open \ {s} /\ cur[GwOf[s]] = NoWs
      /\ UNCHANGED <<suid, sessions, rpc>>
  BY DEF Close, LoopFree
<1>2. GwOf[s] \in Gateways
  BY GatewayAssumption
<1>3. \A g \in Gateways : cur'[g] = IF g = GwOf[s] THEN s ELSE cur[g]
  BY <1>2 DEF Close, SInv, TypeOK, GwTypeOK
<1>4. rpc[GwOf[s]].st = "none"
  BY <1>1, <1>2 DEF SInv, Busy
<1>5. OneSocketPerUid => Linked'
  BY <1>1 DEF LInv, Linked
<1>6. OneSocketPerUid => LoginAlone'
  BY <1>1, <1>3, <1>4 DEF LInv, LoginAlone
<1>7. ASSUME OneSocketPerUid, NEW g \in Gateways, Closing(g)',
             NEW o \in open', GwOf[o] = g, suid[o] # NoUid
      PROVE  suid[o] # suid[cur'[g]]
  <2>1. CASE g = GwOf[s]
    <3>1. sessions[g][suid[o]] = o /\ o # s
      BY <1>1, <1>7 DEF LInv, Linked
    <3>2. suid[s] # NoUid => sessions[g][suid[s]] = s
      BY <1>1, <1>7, <2>1 DEF LInv, Linked
    <3>. QED  BY <1>3, <1>7, <2>1, <3>1, <3>2
  <2>2. CASE g # GwOf[s]
    BY <1>1, <1>3, <1>7, <2>2 DEF LInv, CloserAlone, Closing
  <2>. QED  BY <2>1, <2>2
<1>8. OneSocketPerUid => CloserAlone'
  BY <1>1, <1>7 DEF CloserAlone
<1>. QED  BY <1>5, <1>6, <1>8 DEF LInv

(* The process of a gateway dies in a login frame.                         *)
LEMMA CrashKeepsLinks ==
    ASSUME SInv, LInv, NEW s \in Ws, RecvLoginCrash(s)
    PROVE  LInv'
<1>1. /\ open' = {o \in open : GwOf[o] # GwOf[s]}
      /\ UNCHANGED <<suid, cur, rpc>> /\ GwOf[s] \in Gateways
  BY GatewayAssumption DEF RecvLoginCrash
<1>2. \A g \in Gateways : g # GwOf[s] => sessions'[g] = sessions[g]
  BY DEF RecvLoginCrash, SInv, TypeOK, GwTypeOK
<1>3. /\ GwOf \in [Ws -> Gateways] /\ open \subseteq Ws
  BY GatewayAssumption DEF SInv, TypeOK, GwTypeOK
<1>4. OneSocketPerUid => Linked'
  BY <1>1, <1>2, <1>3 DEF LInv, Linked
<1>5. OneSocketPerUid => LoginAlone' /\ CloserAlone'
  BY <1>1 DEF LInv, LoginAlone, CloserAlone, Closing
<1>. QED  BY <1>4, <1>5 DEF LInv

(* A login ends: nobody else on the gateway has the uid.                   *)
LEMMA LoginKeepsLinks ==
    ASSUME SInv, LInv, NEW g \in Gateways, FinishLogin(g)
    PROVE  LInv'
<1> DEFINE c == cur[g]
           u == rpc[g].req.uid
<1>1. /\ UNCHANGED open /\ rpc[g].st # "none" /\ rpc[g].req.op = "Login"
      /\ Returned(g, "Login")
  BY DEF FinishLogin, Returned
<1>2. /\ rpc \in [Gateways -> CallState]
      /\ cur \in [Gateways -> Ws \cup {NoWs}] /\ suid \in [Ws -> AnyUid]
      /\ sessions \in [Gateways -> [Uids -> Ws \cup {NoWs}]]
      /\ open \subseteq Ws /\ GwOf \in [Ws -> Gateways]
  BY GatewayAssumption DEF SInv, TypeOK, GwTypeOK
<1>3. \A x \in Gateways : /\ rpc'[x] = IF x = g THEN NoCall ELSE rpc[x]
                          /\ cur'[x] = IF x = g THEN NoWs ELSE cur[x]
  BY <1>1, <1>2 DEF Returned
<1>4. NoCall.st = "none"
  BY DEF NoCall
<1>5. c \in open /\ GwOf[c] = g /\ u \in Uids
  BY <1>1, <1>2, CallParts, RequestKind DEF SInv, CallerStays
<1>6. OneSocketPerUid => \A o \in open \ {c} : GwOf[o] = g => suid[o] # u
  BY <1>1 DEF LInv, LoginAlone
<1>. HIDE DEF c, u
<1>7. CASE UNCHANGED <<suid, sessions>>
  <2>1. OneSocketPerUid => Linked'
    BY <1>1, <1>7 DEF LInv, Linked
  <2>2. OneSocketPerUid => LoginAlone'
    BY <1>1, <1>3, <1>4, <1>7 DEF LInv, LoginAlone
  <2>3. OneSocketPerUid => CloserAlone'
    BY <1>1, <1>3, <1>7 DEF LInv, CloserAlone, Closing
  <2>. QED  BY <2>1, <2>2, <2>3 DEF LInv
<1>8. CASE /\ suid' = [suid EXCEPT ![c] = u]
           /\ sessions' = [sessions EXCEPT ![g][u] = c]
  <2>1. \A o \in Ws : suid'[o] = IF o = c THEN u ELSE suid[o]
    BY <1>2, <1>8
  <2>2. \A x \in Gateways, v \in Uids :
           sessions'[x][v] = IF x = g /\ v = u THEN c ELSE sessions[x][v]
    BY <1>2, <1>8
  <2>3. ASSUME OneSocketPerUid, NEW o \in open', suid'[o] # NoUid
        PROVE  sessions'[GwOf[o]][suid'[o]] = o
    <3>1. CASE o = c
      BY <1>1, <1>2, <1>5, <2>1, <2>2, <3>1
    <3>2. CASE o # c
      <4>1. o \in Ws /\ suid'[o] = suid[o] /\ suid[o] \in Uids
        BY <1>1, <1>2, <2>1, <2>3, <3>2 DEF AnyUid
      <4>2. sessions[GwOf[o]][suid[o]] = o
        BY <1>1, <2>3, <4>1 DEF LInv, Linked
      <4>3. ~(GwOf[o] = g /\ suid[o] = u)
        BY <1>1, <1>6, <2>3, <3>2
      <4>. QED  BY <1>2, <2>2, <4>1, <4>2, <4>3
    <3>. QED  BY <3>1, <3>2
  <2>4. OneSocketPerUid => Linked'
    BY <2>3 DEF Linked
  <2>5. ASSUME OneSocketPerUid PROVE LoginAlone'
    <3>1. SUFFICES ASSUME NEW x \in Gateways, rpc'[x].st # "none",
                          rpc'[x].req.op = "Login",
                          NEW o \in open' \ {cur'[x]}, GwOf[o] = x
                   PROVE  suid'[o] # rpc'[x].req.uid
      BY DEF LoginAlone
    <3>2. x # g /\ rpc'[x] = rpc[x] /\ cur'[x] = cur[x]
      BY <1>3, <1>4, <3>1
    <3>3. o \in Ws /\ o # c /\ suid'[o] = suid[o]
      BY <1>1, <1>2, <1>5, <2>1, <3>1, <3>2
    <3>. QED  BY <1>1, <2>5, <3>1, <3>2, <3>3 DEF LInv, LoginAlone
  <2>6. ASSUME OneSocketPerUid PROVE CloserAlone'
    <3>1. SUFFICES ASSUME NEW x \in Gateways, Closing(x)',
                          NEW o \in open', GwOf[o] = x, suid'[o] # NoUid
                   PROVE  suid'[o] # suid'[cur'[x]]
      BY DEF CloserAlone
    <3>2. x # g /\ Closing(x) /\ cur'[x] = cur[x]
      BY <1>3, <3>1 DEF Closing
    <3>3. cur[x] \in Ws /\ GwOf[cur[x]] = x
      BY <1>2, <3>2 DEF SInv, Busy, Closing
    <3>4. suid'[cur[x]] = suid[cur[x]] /\ suid'[o] = suid[o]
      BY <1>1, <1>2, <1>5, <2>1, <3>1, <3>2, <3>3
    <3>. QED  BY <1>1, <2>6, <3>1, <3>2, <3>4 DEF LInv, CloserAlone
  <2>. QED  BY <2>4, <2>5, <2>6 DEF LInv
<1>. QED  BY <1>7, <1>8 DEF FinishLogin, AddSession, c, u

(* Steps of the gateways.                                                  *)
LEMMA GatewayKeepsLinks ==
    ASSUME SInv, LInv, GwNext, UNCHANGED logicVars
    PROVE  LInv'
<1>1. /\ rpc \in [Gateways -> CallState]
      /\ cur \in [Gateways -> Ws \cup {NoWs}] /\ suid \in [Ws -> AnyUid]
      /\ open \subseteq Ws /\ GwOf \in [Ws -> Gateways]
  BY GatewayAssumption DEF SInv, TypeOK, GwTypeOK
<1>2. ASSUME NEW s \in Ws, Open(s) PROVE LInv'
  <2>1. /\ open' = open \cup {s} /\ s \notin open
        /\ UNCHANGED <<sessions, cur, rpc>>
        /\ \A o \in Ws : suid'[o] = IF o = s THEN NoUid ELSE suid[o]
    BY <1>1, <1>2 DEF Open
  <2>2. \A g \in Gateways : (rpc[g].st # "none" /\ rpc[g].req.op = "Login") =>
           rpc[g].req.uid # NoUid
    BY <1>1, CallParts, RequestKind, WireAssumption DEF NoUid
  <2>3. OneSocketPerUid => Linked'
    BY <1>1, <2>1 DEF LInv, Linked
  <2>4. OneSocketPerUid => LoginAlone'
    BY <1>1, <2>1, <2>2 DEF LInv, LoginAlone
  <2>5. \A g \in Gateways : Closing(g) => cur[g] # s /\ cur[g] \in Ws
    BY <1>1, <1>2 DEF Open, LoopFree, Closing, SInv, Busy
  <2>6. OneSocketPerUid => CloserAlone'
    BY <1>1, <2>1, <2>5 DEF LInv, CloserAlone, Closing
  <2>. QED  BY <2>3, <2>4, <2>6 DEF LInv
<1>3. ASSUME NEW s \in Ws, NEW r, CallLogic(s, r), s \in open,
             (OneSocketPerUid /\ r.op = "Login") =>
                \A o \in open \ {s} : GwOf[o] = GwOf[s] => suid[o] # r.uid,
             UNCHANGED <<open, suid, sessions>>
      PROVE  LInv'
  <2>1. \A g \in Gateways : /\ rpc'[g] = IF g = GwOf[s] THEN Call(r) ELSE rpc[g]
                            /\ cur'[g] = IF g = GwOf[s] THEN s ELSE cur[g]
    BY <1>1, <1>3 DEF CallLogic
  <2>2. Call(r).req = r /\ Call(r).st = "call"
    BY DEF Call
  <2>3. OneSocketPerUid => Linked'
    BY <1>3 DEF LInv, Linked
  <2>4. OneSocketPerUid => LoginAlone'
    BY <1>3, <2>1, <2>2 DEF LInv, LoginAlone
  <2>5. OneSocketPerUid => CloserAlone'
    BY <1>3, <2>1, <2>2 DEF LInv, CloserAlone, Closing
  <2>. QED  BY <2>3, <2>4, <2>5 DEF LInv
<1>4. ASSUME NEW s \in Ws, NEW u \in Uids, NEW tok \in Tokens, RecvLogin(s, u, tok)
      PROVE  LInv'
  <2> DEFINE r == [op |-> "Login", uid |-> u, token |-> tok]
  <2>1. /\ s \in open /\ CallLogic(s, r) /\ r.uid = u
        /\ UNCHANGED <<open, suid, sessions>>
        /\ OneSocketPerUid =>
              \A o \in open \ {s} : GwOf[o] = GwOf[s] => suid[o] # u
    BY <1>4 DEF RecvLogin, ClientMayLogin
  <2>. HIDE DEF r
  <2>. QED  BY <1>3, <2>1
<1>5. ASSUME NEW s \in Ws, NEW f \in Uids, NEW t \in Uids, NEW b \in Bodies,
             RecvSend(s, f, t, b)
      PROVE  LInv'
  <2> DEFINE r == [op |-> "SendMsg", from |-> suid[s], to |-> t, body |-> b]
  <2>1. /\ s \in open /\ CallLogic(s, r) /\ r.op # "Login"
        /\ UNCHANGED <<open, suid, sessions>>
    BY <1>5 DEF RecvSend
  <2>. HIDE DEF r
  <2>. QED  BY <1>3, <2>1
<1>6. ASSUME NEW s \in Ws, NEW f \in Uids, NEW k, RecvSync(s, f, k)
      PROVE  LInv'
  <2> DEFINE r == [op |-> "SyncMsg", uid |-> suid[s], last |-> k]
  <2>1. /\ s \in open /\ CallLogic(s, r) /\ r.op # "Login"
        /\ UNCHANGED <<open, suid, sessions>>
    BY <1>6 DEF RecvSync
  <2>. HIDE DEF r
  <2>. QED  BY <1>3, <2>1
<1>7. ASSUME NEW g \in Gateways, FinishSend(g) \/ FinishSync(g) PROVE LInv'
  <2>1. /\ UNCHANGED <<open, suid, sessions>>
        /\ \A x \in Gateways : /\ rpc'[x] = IF x = g THEN NoCall ELSE rpc[x]
                               /\ cur'[x] = IF x = g THEN NoWs ELSE cur[x]
    BY <1>1, <1>7 DEF FinishSend, FinishSync, Returned
  <2>2. NoCall.st = "none"
    BY DEF NoCall
  <2>3. OneSocketPerUid => Linked'
    BY <2>1 DEF LInv, Linked
  <2>4. OneSocketPerUid => LoginAlone'
    BY <2>1, <2>2 DEF LInv, LoginAlone
  <2>5. OneSocketPerUid => CloserAlone'
    BY <2>1 DEF LInv, CloserAlone, Closing
  <2>. QED  BY <2>3, <2>4, <2>5 DEF LInv
<1>8. ASSUME NEW p \in pushq, PushMsg(p) PROVE LInv'
  BY <1>8 DEF PushMsg, LInv, Linked, LoginAlone, CloserAlone, Closing
<1>. QED  BY <1>2, <1>4, <1>5, <1>6, <1>7, <1>8, CloseKeepsLinks,
             CloseEndKeepsLinks, CrashKeepsLinks, LoginKeepsLinks DEF GwNext

(* If a user has at most one logged-in connection on a gateway, PushMsg    *)
(* finds every connected user (gateway/main.cc:24-36,144-145).  That a     *)
(* connection may log in again, as another user, does no harm here.        *)
THEOREM LoggedInUsersReachable ==
    ASSUME OneSocketPerUid
    PROVE  Spec => []LoggedInReachable
<1>1. Init => LInv
  <2>1. SUFFICES ASSUME Init PROVE LInv
    OBVIOUS
  <2>2. open = {} /\ \A g \in Gateways : rpc[g].st = "none"
    BY <2>1 DEF Init, GwInit, NoCall
  <2>. QED  BY <2>2 DEF LInv, Linked, LoginAlone, CloserAlone
<1>2. SInv /\ LInv /\ [Next]_vars => LInv'
  <2>1. ASSUME LInv, UNCHANGED vars PROVE LInv'
    <3>1. UNCHANGED <<rpc, open, suid, sessions, cur>>
      BY <2>1 DEF vars, wireVars, gwVars
    <3>. QED  BY <2>1, <3>1 DEF LInv, Linked, LoginAlone, CloserAlone, Closing
  <2>. QED  BY <2>1, GatewayKeepsLinks, LogicKeepsLinks DEF Next
<1>3. SInv /\ LInv => LoggedInReachable
  <2>1. SUFFICES ASSUME SInv, LInv, NEW s \in open, suid[s] # NoUid
                 PROVE  sessions[GwOf[s]][suid[s]] # NoWs
    BY DEF LoggedInReachable, PushTarget
  <2>2. sessions[GwOf[s]][suid[s]] = s /\ s \in Ws
    BY <2>1 DEF LInv, Linked, SInv, TypeOK, GwTypeOK
  <2>. QED  BY <2>2, GatewayAssumption
<1>. QED  BY <1>1, <1>2, <1>3, SessionInvariant, PTL DEF Spec

-----------------------------------------------------------------------------
(* Authenticity.                                                           *)

(* Uids that have not been proved appear nowhere but in login requests.    *)
Known ==
    /\ \A s \in Ws : suid[s] \in proved \cup {NoUid}
    /\ \A g \in Gateways : rpc[g].st # "none" =>
          /\ rpc[g].req.op = "SendMsg" => rpc[g].req.from \in proved
          /\ (rpc[g].req.op = "Login" /\ rpc[g].st = "ok"
                 /\ rpc[g].res.err = "ERR_SUCCESS") =>
                rpc[g].req.uid \in proved
          /\ (rpc[g].req.op = "Login" /\ h[g].pc = "session") =>
                rpc[g].req.uid \in proved
    /\ \A p \in pushq : p.from \in proved

(* A handler is at its first step unless it serves a call, and past the    *)
(* first step of SendMsg only for friends.                                 *)
Checked ==
    \A g \in Gateways :
        /\ rpc[g].st # "call" => h[g].pc = "start"
        /\ (rpc[g].st = "call" /\ rpc[g].req.op = "SendMsg"
               /\ h[g].pc # "start") =>
              <<rpc[g].req.from, rpc[g].req.to>> \in Friends

(* A reply to SyncMsg has only messages for the uid of the request.        *)
SyncReplies ==
    \A g \in Gateways :
        (rpc[g].st = "ok" /\ rpc[g].req.op = "SyncMsg") =>
            \A m \in rpc[g].res.msgs : m.to = rpc[g].req.uid

(* What is claimed of the table, if no content breaks its statement.       *)
StoreOK == Quoted = {} => SenderAuthentic /\ StoredBetweenFriends

AInv ==
    /\ SInv
    /\ Known
    /\ Checked
    /\ SyncReplies
    /\ StoreOK

(* Stored rows and pushed messages are not touched.                        *)
LEMMA RowsKept ==
    ASSUME AInv, UNCHANGED <<rows, inbox>>, proved \subseteq proved'
    PROVE  StoreOK'
BY DEF AInv, StoreOK, SenderAuthentic, StoredBetweenFriends

(* A handler of the logic server returns.                                  *)
LEMMA AnswerKeeps ==
    ASSUME AInv, NEW g \in Gateways, NEW err, NEW mid, NEW msgs,
           rpc[g].st = "call", Answer(g, err, mid, msgs),
           (rpc[g].req.op = "Login" /\ err = "ERR_SUCCESS") =>
               rpc[g].req.uid \in proved,
           rpc[g].req.op = "SyncMsg" =>
               \A m \in msgs : m.to = rpc[g].req.uid,
           proved \subseteq proved', suid' = suid, pushq' \subseteq pushq
    PROVE  Known' /\ Checked' /\ SyncReplies'
<1> DEFINE res == [err |-> err, msg_id |-> mid, msgs |-> msgs]
<1>1. /\ rpc \in [Gateways -> CallState] /\ h \in [Gateways -> Handler]
  BY DEF AInv, SInv, TypeOK, GwTypeOK, LogicTypeOK
<1>2. \A x \in Gateways :
         /\ rpc'[x] = IF x = g THEN Ok(rpc[g].req, res) ELSE rpc[x]
         /\ h'[x] = IF x = g THEN AtStart ELSE h[x]
  BY <1>1 DEF Answer
<1>3. /\ Ok(rpc[g].req, res).st = "ok" /\ Ok(rpc[g].req, res).req = rpc[g].req
      /\ Ok(rpc[g].req, res).res = res /\ AtStart.pc = "start"
      /\ res.err = err /\ res.msgs = msgs
  BY DEF Ok, AtStart
<1>. HIDE DEF res
<1>4. Known'
  BY <1>2, <1>3 DEF AInv, Known
<1>5. Checked'
  BY <1>2, <1>3 DEF AInv, Checked
<1>6. SyncReplies'
  BY <1>2, <1>3 DEF AInv, SyncReplies
<1>. QED  BY <1>4, <1>5, <1>6

(* A handler of the logic server goes on to its next statement.            *)
LEMMA GotoKeeps ==
    ASSUME AInv, NEW g \in Gateways, NEW where, NEW mid,
           rpc[g].st = "call", Goto(g, where, mid),
           (rpc[g].req.op = "Login" /\ where = "session") =>
               rpc[g].req.uid \in proved',
           rpc[g].req.op = "SendMsg" =>
               <<rpc[g].req.from, rpc[g].req.to>> \in Friends,
           proved \subseteq proved', suid' = suid,
           \A p \in pushq' : p.from \in proved'
    PROVE  Known' /\ Checked' /\ SyncReplies'
<1> DEFINE hs == [pc |-> where, mid |-> mid]
<1>1. h \in [Gateways -> Handler] /\ rpc' = rpc
  BY DEF AInv, SInv, TypeOK, LogicTypeOK, Goto
<1>2. \A x \in Gateways : h'[x] = IF x = g THEN hs ELSE h[x]
  BY <1>1 DEF Goto
<1>3. hs.pc = where
  OBVIOUS
<1>. HIDE DEF hs
<1>4. Known'
  BY <1>1, <1>2, <1>3 DEF AInv, Known
<1>5. Checked'
  BY <1>1, <1>2, <1>3 DEF AInv, Checked
<1>6. SyncReplies'
  BY <1>1 DEF AInv, SyncReplies
<1>. QED  BY <1>4, <1>5, <1>6

(* Steps of the logic server.                                              *)
LEMMA LogicKeepsAuthentic ==
    ASSUME AInv, LogicNext, UNCHANGED gwVars
    PROVE  AInv'
<1>1. SInv'
  BY LogicKeepsSessions DEF AInv
<1>2. UNCHANGED <<suid, inbox>>
  BY DEF gwVars
<1> DEFINE Good == Known' /\ Checked' /\ SyncReplies' /\ StoreOK'
<1>3. \A p \in pushq : p.from \in proved
  BY DEF AInv, Known
<1>4. ASSUME NEW g \in Gateways, LoginAuth(g) PROVE Good
  <2>1. /\ rpc[g].st = "call" /\ rpc[g].req.op = "Login"
        /\ UNCHANGED <<rows, pushq>> /\ proved \subseteq proved'
    BY <1>4 DEF LoginAuth, Serving
  <2>2. ASSUME NEW pw \in GetUserPassword(rpc[g].req.uid), pw # NoPassword,
               pw = rpc[g].req.token, Goto(g, "session", 0)
        PROVE  Good
    <3>1. Proves(rpc[g].req)
      BY <2>2 DEF GetUserPassword, Proves
    <3>2. rpc[g].req.uid \in proved'
      BY <1>4, <3>1 DEF LoginAuth
    <3>. QED  BY <1>2, <1>3, <2>1, <2>2, <3>2, GotoKeeps, RowsKept
  <2>3. CASE Answer(g, "ERR_AUTH_FAIL", 0, {})
    BY <1>2, <2>1, <2>3, AnswerKeeps, RowsKept
  <2>. QED  BY <1>4, <2>2, <2>3 DEF LoginAuth
<1>5. ASSUME NEW g \in Gateways, LoginSession(g) PROVE Good
  <2>1. /\ rpc[g].st = "call" /\ rpc[g].req.op = "Login" /\ h[g].pc = "session"
        /\ UNCHANGED <<rows, pushq, proved>> /\ Answer(g, "ERR_SUCCESS", 0, {})
    BY <1>5 DEF LoginSession, Serving
  <2>2. rpc[g].req.uid \in proved
    BY <2>1 DEF AInv, Known
  <2>. QED  BY <1>2, <2>1, <2>2, AnswerKeeps, RowsKept
<1>6. ASSUME NEW g \in Gateways, SendCheck(g) PROVE Good
  <2>1. /\ rpc[g].st = "call" /\ rpc[g].req.op = "SendMsg"
        /\ UNCHANGED <<rows, pushq, proved>>
    BY <1>6 DEF SendCheck, Serving, dbVars
  <2>2. CASE /\ <<rpc[g].req.from, rpc[g].req.to>> \in Friends
             /\ Goto(g, "insert", clock)
    BY <1>2, <1>3, <2>1, <2>2, GotoKeeps, RowsKept
  <2>3. CASE Answer(g, "ERR_NOT_FRIEND", 0, {})
    BY <1>2, <2>1, <2>3, AnswerKeeps, RowsKept
  <2>. QED  BY <1>6, <2>2, <2>3 DEF SendCheck, AreFriends
<1>7. ASSUME NEW g \in Gateways, SaveMessage(g) PROVE Good
  <2> DEFINE row == [id |-> nextId, mid |-> h[g].mid, from |-> rpc[g].req.from,
                     to |-> rpc[g].req.to, body |-> rpc[g].req.body]
  <2>1. /\ rpc[g].st = "call" /\ rpc[g].req.op = "SendMsg" /\ h[g].pc = "insert"
        /\ UNCHANGED <<pushq, proved>>
    BY <1>7 DEF SaveMessage, Serving
  <2>2. /\ Goto(g, "route", h[g].mid)
        /\ Quoted = {} => rows' \subseteq rows \cup {row}
    BY <1>7 DEF SaveMessage, InsertMsg, ToSave
  <2>3. <<rpc[g].req.from, rpc[g].req.to>> \in Friends
    BY <2>1 DEF AInv, Checked
  <2>4. rpc[g].req.from \in proved
    BY <2>1 DEF AInv, Known
  <2>5. Known' /\ Checked' /\ SyncReplies'
    BY <1>2, <1>3, <2>1, <2>2, <2>3, GotoKeeps
  <2>6. row.from = rpc[g].req.from /\ row.to = rpc[g].req.to
    OBVIOUS
  <2>. HIDE DEF row
  <2>7. Quoted = {} => SenderAuthentic'
    BY <1>2, <2>1, <2>2, <2>4, <2>6 DEF AInv, StoreOK, SenderAuthentic
  <2>8. Quoted = {} => StoredBetweenFriends'
    BY <2>2, <2>3, <2>6 DEF AInv, StoreOK, StoredBetweenFriends
  <2>. QED  BY <2>5, <2>7, <2>8 DEF StoreOK
<1>8. ASSUME NEW g \in Gateways, LookupRoute(g) PROVE Good
  <2>1. /\ rpc[g].st = "call" /\ rpc[g].req.op = "SendMsg" /\ h[g].pc = "route"
        /\ UNCHANGED <<rows, proved>>
    BY <1>8 DEF LookupRoute, Serving, dbVars
  <2>2. CASE Answer(g, "ERR_SUCCESS", h[g].mid, {}) /\ pushq' = pushq
    BY <1>2, <2>1, <2>2, AnswerKeeps, RowsKept
  <2>3. CASE ~(Answer(g, "ERR_SUCCESS", h[g].mid, {}) /\ pushq' = pushq)
    <3>1. /\ Goto(g, "pushing", h[g].mid)
          /\ \A p \in pushq' : p \in pushq \/ p.from = rpc[g].req.from
      BY <1>8, <2>3 DEF LookupRoute, Get, PackPushMsg
    <3>2. <<rpc[g].req.from, rpc[g].req.to>> \in Friends
      BY <2>1 DEF AInv, Checked
    <3>3. rpc[g].req.from \in proved
      BY <2>1 DEF AInv, Known
    <3>. QED  BY <1>2, <1>3, <2>1, <3>1, <3>2, <3>3, GotoKeeps, RowsKept
  <2>. QED  BY <2>2, <2>3
<1>9. ASSUME NEW g \in Gateways, PushReturns(g) PROVE Good
  <2>1. /\ rpc[g].st = "call" /\ rpc[g].req.op = "SendMsg"
        /\ UNCHANGED <<rows, proved>> /\ pushq' \subseteq pushq
        /\ Answer(g, "ERR_SUCCESS", h[g].mid, {})
    BY <1>9 DEF PushReturns, Serving, dbVars
  <2>. QED  BY <1>2, <2>1, AnswerKeeps, RowsKept
<1>10. ASSUME NEW g \in Gateways, SyncMsg(g) PROVE Good
  <2> DEFINE msgs == {ToChatMsg(r) : r \in OfflineRows(rpc[g].req.uid,
                                                       rpc[g].req.last)}
  <2>1. /\ rpc[g].st = "call" /\ rpc[g].req.op = "SyncMsg"
        /\ UNCHANGED <<rows, proved, pushq>>
        /\ \/ Answer(g, "ERR_SUCCESS", 0, msgs)
           \/ Answer(g, "ERR_SUCCESS", 0, {})
    BY <1>10 DEF SyncMsg, Serving, dbVars
  <2>2. \A m \in msgs : m.to = rpc[g].req.uid
    <3>1. \A r \in OfflineRows(rpc[g].req.uid, rpc[g].req.last) :
             r.to = rpc[g].req.uid
      BY DEF OfflineRows
    <3>2. \A r : ToChatMsg(r).to = r.to
      BY DEF ToChatMsg
    <3>. QED  BY <3>1, <3>2
  <2>. HIDE DEF msgs
  <2>3. CASE Answer(g, "ERR_SUCCESS", 0, msgs)
    BY <1>2, <2>1, <2>2, <2>3, AnswerKeeps, RowsKept
  <2>4. CASE Answer(g, "ERR_SUCCESS", 0, {})
    BY <1>2, <2>1, <2>4, AnswerKeeps, RowsKept
  <2>. QED  BY <2>1, <2>3, <2>4
<1>11. ASSUME LogicCrash PROVE Good
  <2>1. /\ UNCHANGED <<rows, proved, pushq>>
        /\ \A g \in Gateways : h'[g].pc = "start"
    BY <1>11 DEF LogicCrash, dbVars, AtStart
  <2>2. \A g \in Gateways :
           \/ rpc'[g] = rpc[g] /\ rpc[g].st # "call"
           \/ /\ rpc[g].st = "call" /\ rpc'[g].st = "fail"
              /\ rpc'[g].req = rpc[g].req
    BY <1>11 DEF LogicCrash, Fail
  <2>3. Known'
    BY <1>2, <2>1, <2>2 DEF AInv, Known
  <2>4. Checked' /\ SyncReplies'
    BY <2>1, <2>2 DEF AInv, Checked, SyncReplies
  <2>. QED  BY <1>2, <2>1, <2>3, <2>4, RowsKept
<1>12. ASSUME Tick PROVE Good
  <2>1. UNCHANGED <<h, rows, proved, rpc, pushq>>
    BY <1>12 DEF Tick, dbVars
  <2>. QED  BY <1>2, <2>1, RowsKept DEF AInv, Known, Checked, SyncReplies
<1>13. Good
  BY <1>4, <1>5, <1>6, <1>7, <1>8, <1>9, <1>10, <1>11, <1>12
     DEF LogicNext, HandlerStep
<1>. QED  BY <1>1, <1>13 DEF AInv

(* Steps of the gateways.                                                  *)
LEMMA GatewayKeepsAuthentic ==
    ASSUME AInv, GwNext, UNCHANGED logicVars
    PROVE  AInv'
<1>1. SInv'
  BY GatewayKeepsSessions DEF AInv
<1>2. UNCHANGED <<h, rows, proved>>
  BY DEF logicVars
<1>4. /\ rpc \in [Gateways -> CallState] /\ GwOf \in [Ws -> Gateways]
      /\ suid \in [Ws -> AnyUid] /\ inbox \in [Ws -> SUBSET Msg]
  BY GatewayAssumption DEF AInv, SInv, TypeOK, GwTypeOK
<1> DEFINE Good == Known' /\ Checked' /\ SyncReplies' /\ StoreOK'
<1>3. ASSUME UNCHANGED inbox PROVE StoreOK'
  BY <1>2, <1>3, RowsKept
<1>5. ASSUME NEW s \in Ws, Open(s) PROVE Good
  <2>1. /\ \A o \in Ws : suid'[o] = IF o = s THEN NoUid ELSE suid[o]
        /\ \A o \in Ws : inbox'[o] = IF o = s THEN {} ELSE inbox[o]
        /\ UNCHANGED <<rpc, pushq>>
    BY <1>4, <1>5 DEF Open
  <2>2. Known'
    BY <1>2, <2>1 DEF AInv, Known
  <2>3. Checked' /\ SyncReplies'
    BY <1>2, <2>1 DEF AInv, Checked, SyncReplies
  <2>4. StoreOK'
    BY <1>2, <2>1 DEF AInv, StoreOK, SenderAuthentic, StoredBetweenFriends
  <2>. QED  BY <2>2, <2>3, <2>4
<1>6. ASSUME \/ \E s \in Ws : Close(s) \/ RecvLoginCrash(s)
             \/ \E g \in Gateways : CloseEnd(g)
      PROVE  Good
  <2>1. UNCHANGED <<suid, inbox, rpc, pushq>>
    BY <1>6 DEF Close, RecvLoginCrash, CloseEnd
  <2>. QED  BY <1>2, <1>3, <2>1 DEF AInv, Known, Checked, SyncReplies
<1>7. ASSUME NEW s \in Ws, NEW r, LoopFree(s), CallLogic(s, r),
             r.op = "SendMsg" => r.from \in proved,
             UNCHANGED <<suid, inbox, pushq>>
      PROVE  Good
  <2>1. \A g \in Gateways : rpc'[g] = IF g = GwOf[s] THEN Call(r) ELSE rpc[g]
    BY <1>4, <1>7 DEF CallLogic
  <2>2. Call(r).st = "call" /\ Call(r).req = r
    BY DEF Call
  <2>3. GwOf[s] \in Gateways /\ h[GwOf[s]].pc = "start"
    BY <1>4, <1>7 DEF LoopFree, AInv, SInv, Busy, Checked
  <2>4. Known'
    BY <1>2, <1>7, <2>1, <2>2, <2>3 DEF AInv, Known
  <2>5. Checked'
    BY <1>2, <2>1, <2>2, <2>3 DEF AInv, Checked
  <2>6. SyncReplies'
    BY <2>1, <2>2 DEF AInv, SyncReplies
  <2>. QED  BY <1>3, <1>7, <2>4, <2>5, <2>6
<1>8. ASSUME NEW s \in Ws, NEW u \in Uids, NEW tok \in Tokens, RecvLogin(s, u, tok)
      PROVE  Good
  BY <1>7, <1>8 DEF RecvLogin
<1>9. ASSUME NEW s \in Ws, NEW f \in Uids, NEW t \in Uids, NEW b \in Bodies,
             RecvSend(s, f, t, b)
      PROVE  Good
  <2>1. suid[s] \in proved
    BY <1>9 DEF RecvSend, AInv, Known
  <2>2. CallLogic(s, [op |-> "SendMsg", from |-> suid[s], to |-> t, body |-> b])
    BY <1>9 DEF RecvSend
  <2>. QED  BY <1>7, <1>9, <2>1, <2>2 DEF RecvSend
<1>10. ASSUME NEW s \in Ws, NEW f \in Uids, NEW k, RecvSync(s, f, k)
       PROVE  Good
  <2>1. CallLogic(s, [op |-> "SyncMsg", uid |-> suid[s], last |-> k])
    BY <1>10 DEF RecvSync
  <2>. QED  BY <1>7, <1>10, <2>1 DEF RecvSync
<1>11. ASSUME NEW g \in Gateways, NEW op, Returned(g, op),
              UNCHANGED <<inbox, pushq>>,
              \A s \in Ws : suid'[s] \in proved \cup {NoUid}
       PROVE  Good
  <2>1. \A x \in Gateways : rpc'[x] = IF x = g THEN NoCall ELSE rpc[x]
    BY <1>4, <1>11 DEF Returned
  <2>2. NoCall.st = "none" /\ h[g].pc = "start"
    BY <1>11 DEF NoCall, Returned, AInv, Checked
  <2>3. Known'
    BY <1>2, <1>11, <2>1, <2>2 DEF AInv, Known
  <2>4. Checked' /\ SyncReplies'
    BY <1>2, <2>1, <2>2 DEF AInv, Checked, SyncReplies
  <2>. QED  BY <1>3, <1>11, <2>3, <2>4
<1>12. ASSUME NEW g \in Gateways, FinishLogin(g) PROVE Good
  <2>1. Returned(g, "Login") /\ UNCHANGED <<inbox, pushq>>
    BY <1>12 DEF FinishLogin
  <2>2. (rpc[g].st = "ok" /\ rpc[g].res.err = "ERR_SUCCESS") =>
            rpc[g].req.uid \in proved
    BY <2>1 DEF Returned, AInv, Known
  <2>3. \A s \in Ws : suid'[s] \in proved \cup {NoUid}
    BY <1>4, <1>12, <2>2 DEF FinishLogin, AInv, Known
  <2>. QED  BY <1>11, <2>1, <2>3
<1>13. ASSUME NEW g \in Gateways, FinishSend(g) \/ FinishSync(g) PROVE Good
  <2>1. /\ Returned(g, "SendMsg") \/ Returned(g, "SyncMsg")
        /\ UNCHANGED <<suid, inbox, pushq>>
    BY <1>13 DEF FinishSend, FinishSync
  <2>2. \A s \in Ws : suid'[s] \in proved \cup {NoUid}
    BY <2>1 DEF AInv, Known
  <2>. QED  BY <1>11, <2>1, <2>2
<1>14. ASSUME NEW p \in pushq, PushMsg(p) PROVE Good
  <2> DEFINE m == [from |-> p.from, to |-> p.to, body |-> p.body]
  <2>1. /\ UNCHANGED <<suid, rpc>> /\ pushq' \subseteq pushq
        /\ \A s \in Ws : inbox'[s] \subseteq inbox[s] \cup {m}
    BY <1>4, <1>14 DEF PushMsg
  <2>2. m.from \in proved
    BY DEF AInv, Known
  <2>. HIDE DEF m
  <2>3. Known' /\ Checked' /\ SyncReplies'
    BY <1>2, <2>1 DEF AInv, Known, Checked, SyncReplies
  <2>4. StoreOK'
    BY <1>2, <2>1, <2>2 DEF AInv, StoreOK, SenderAuthentic, StoredBetweenFriends
  <2>. QED  BY <2>3, <2>4
<1>15. Good
  BY <1>5, <1>6, <1>8, <1>9, <1>10, <1>12, <1>13, <1>14 DEF GwNext
<1>. QED  BY <1>1, <1>15 DEF AInv

(* The authenticity invariant holds in every reachable state.              *)
THEOREM AuthenticInvariant == Spec => []AInv
<1>1. Init /\ SInv => AInv
  <2>1. SUFFICES ASSUME Init, SInv PROVE AInv
    OBVIOUS
  <2>2. /\ \A g \in Gateways : rpc[g].st = "none" /\ h[g].pc = "start"
        /\ \A s \in Ws : suid[s] = NoUid /\ inbox[s] = {}
        /\ pushq = {} /\ rows = SeedRows
    BY <2>1 DEF Init, GwInit, LogicInit, NoCall, AtStart
  <2>3. Known /\ Checked /\ SyncReplies
    BY <2>2 DEF Known, Checked, SyncReplies
  <2>4. StoreOK
    BY <2>2, LogicAssumption DEF StoreOK, SenderAuthentic, StoredBetweenFriends
  <2>. QED  BY <2>1, <2>3, <2>4 DEF AInv
<1>2. AInv /\ SInv' /\ [Next]_vars => AInv'
  <2>1. ASSUME AInv, SInv', UNCHANGED vars PROVE AInv'
    <3>1. UNCHANGED <<rpc, pushq, suid, inbox, h, rows, proved>>
      BY <2>1 DEF vars, wireVars, gwVars, logicVars
    <3>. QED  BY <2>1, <3>1 DEF AInv, Known, Checked, SyncReplies,
                 StoreOK, SenderAuthentic, StoredBetweenFriends
  <2>. QED  BY <2>1, GatewayKeepsAuthentic, LogicKeepsAuthentic DEF Next
<1>. QED  BY <1>1, <1>2, SessionInvariant, PTL DEF Spec

(* As long as no content has a quote in it, messages are stored only       *)
(* between friends (logic_server/main.cc:86-91), whatever fails and        *)
(* crashes.  With one nothing is known of the table                        *)
(* (pool_db_client.cc:38-39).                                              *)
THEOREM StoredFriends ==
    ASSUME Quoted = {}
    PROVE  Spec => []StoredBetweenFriends
<1>1. AInv => StoredBetweenFriends
  BY DEF AInv, StoreOK
<1>. QED  BY <1>1, AuthenticInvariant, PTL

(* As long as no content has a quote in it, whoever appears as the sender  *)
(* of a stored or pushed message has presented the password of that uid    *)
(* (gateway/main.cc:182); the empty token never counts, not even when the  *)
(* query for the password fails (logic_server/main.cc:66).                 *)
THEOREM SendersAuthentic ==
    ASSUME Quoted = {}
    PROVE  Spec => []SenderAuthentic
<1>1. AInv => SenderAuthentic
  BY DEF AInv, StoreOK
<1>. QED  BY <1>1, AuthenticInvariant, PTL

(* A client is sent only its own history (gateway/main.cc:218).            *)
THEOREM SyncsOwn == Spec => []SyncOwn
<1>1. AInv => SyncOwn
  <2>1. SUFFICES ASSUME AInv, NEW g \in Gateways,
                        rpc[g].st = "ok", rpc[g].req.op = "SyncMsg",
                        NEW m \in rpc[g].res.msgs
                 PROVE  m.to = suid[cur[g]]
    BY DEF SyncOwn
  <2>2. m.to = rpc[g].req.uid
    BY <2>1 DEF AInv, SyncReplies
  <2>3. rpc[g].req.uid = suid[cur[g]]
    BY <2>1 DEF AInv, SInv, CallerStays
  <2>. QED  BY <2>2, <2>3
<1>. QED  BY <1>1, AuthenticInvariant, PTL

=============================================================================
