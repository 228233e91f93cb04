----------------------------- MODULE ChatSystem -----------------------------
(***************************************************************************)
(* The running system: gateways with their clients, and one logic server   *)
(* with its databases, joined by the two gRPC interfaces of Wire.          *)
(*                                                                         *)
(* A gateway changes rpc[g] when it calls and when it takes the reply, the *)
(* logic server when it answers; pushes go the other way.                  *)
(***************************************************************************)
EXTENDS Gateway, LogicServer

vars == <<wireVars, gwVars, logicVars>>

Init ==
    /\ GwInit
    /\ LogicInit
    /\ rpc = [g \in Gateways |-> NoCall]
    /\ pushq = {}

Next ==
    \/ GwNext /\ UNCHANGED logicVars
    \/ LogicNext /\ UNCHANGED gwVars

Spec == Init /\ [][Next]_vars

(* The rest of a handler of gateway g once its call has returned.          *)
Finish(g) == FinishLogin(g) \/ FinishSend(g) \/ FinishSync(g)

(* The threads of both servers are scheduled, statements return (or fail), *)
(* and the call of PushMsg has a deadline.  Nothing is assumed of clients. *)
Fairness ==
    \A g \in Gateways :
        /\ WF_vars(HandlerStep(g) /\ UNCHANGED gwVars)
        /\ WF_vars(CloseEnd(g) /\ UNCHANGED logicVars)
        /\ WF_vars(Finish(g) /\ UNCHANGED logicVars)

FairSpec == Spec /\ Fairness

-----------------------------------------------------------------------------
(* The variables of both servers have their types.                         *)
TypeOK == GwTypeOK /\ LogicTypeOK

(* A stored message, and a message pushed to a client, names as its sender *)
(* a user whose password was presented to Login: the from_uid of the       *)
(* client is never believed (gateway/main.cc:182), nor is the empty token, *)
(* which equals what a failed query gives (logic_server/main.cc:66).       *)
SenderAuthentic ==
    /\ \A r \in rows \ SeedRows : r.from \in proved
    /\ \A s \in Ws : \A m \in inbox[s] : m.from \in proved

(* A message on its way to its receiver, or received, is in the table: the *)
(* row comes before the push ("SendMsg: store the message, query the       *)
(* route, start the push", readme.md:126), and stays.  The exception is a  *)
(* message whose INSERT was reported to have failed, which the code pushes *)
(* all the same (logic_server/main.cc:96-98).                              *)
PushAfterStore ==
    /\ \A p \in pushq : \E r \in rows \cup unsaved :
          <<r.mid, r.from, r.to, r.body>> = <<p.mid, p.from, p.to, p.body>>
    /\ \A s \in Ws : \A m \in inbox[s] : \E r \in rows \cup unsaved :
          <<r.from, r.to, r.body>> = <<m.from, m.to, m.body>>

(* A reply to SyncMsg carries only messages addressed to the user of the   *)
(* socket that waits for it (gateway/main.cc:218).                         *)
SyncOwn ==
    \A g \in Gateways :
        (rpc[g].st = "ok" /\ rpc[g].req.op = "SyncMsg") =>
            \A m \in rpc[g].res.msgs : m.to = suid[cur[g]]

(* A request accepted by a gateway is stored at most once, whatever        *)
(* crashes and failures happen between the insert and the reply: the       *)
(* gateway never repeats a call (gateway/main.cc:187-210).                 *)
StoredAtMostOnce == Cardinality(rows) <= Cardinality(SeedRows) + sends

(* The system seen as a mailbox: the table, and what clients have got.     *)
MB == INSTANCE Mailbox WITH
    Users <- AnyUid, Contacts <- Friends,
    Seed <- {ToChatMsg(r) : r \in SeedRows},
    box <- {ToChatMsg(r) : r \in rows}, got <- have

(* The message path implements Mailbox: with several gateways, failing     *)
(* statements, lost replies and crashes, a stored message is never         *)
(* changed, lost or overwritten, and a client gets from SyncMsg stored     *)
(* messages of its own only (pool_db_client.cc:33-70, gateway/main.cc:     *)
(* 212-243).                                                               *)
ImplementsMailbox == MB!MailboxSpec

(* Every call is answered or fails, every close callback ends, and the     *)
(* event loop of the gateway is free again for its other clients: the      *)
(* logic server's push back to the gateway that is waiting for it          *)
(* (main.cc:120) cannot block both.                                        *)
LoopFreed == \A g \in Gateways : cur[g] # NoWs ~> cur[g] = NoWs

(* "Key: IM:USER:SESS:{uid}, Value: {gateway_ip}:{grpc_port} ... by this   *)
(* key the logic server finds the gateway the target user is connected to" *)
(* (readme.md:111-115): while a user is logged in, what SendMsg reads for  *)
(* him (main.cc:101-102) names the gateway of his socket.                  *)
RouteNamesGateway ==
    \A s \in open : suid[s] # NoUid => redis[RouteKey][suid[s]] = GwOf[s]

(* "SyncMsg: query the history table, return the list of unread messages"  *)
(* (readme.md:128): a client that has received everything its cursors      *)
(* (0 and the msg_ids the server has sent it) select has all its messages. *)
SyncComplete ==
    \A u \in Uids :
        LET got(r) == \E m \in have[u] : m.id = r.id IN
        (\A k \in told[u] : \A r \in OfflineRows(u, k) : got(r)) =>
            \A r \in rows : r.to = u => got(r)

=============================================================================
