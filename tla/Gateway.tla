------------------------------ MODULE Gateway -------------------------------
(***************************************************************************)
(* The gateway (server/gateway/main.cc): WebSocket connections, the table  *)
(* SessionManager::sessions_ from uid to socket, the message handlers that *)
(* run on the event loop, and the PushMsg service that runs on gRPC        *)
(* threads.                                                                *)
(*                                                                         *)
(* A handler runs to its end before the event loop does anything else; the *)
(* synchronous RPC in its middle is the only point where other threads     *)
(* (PushMsg, the logic server) are seen to move, so a handler is two       *)
(* actions: Recv... up to the call and Finish... from its return.  The     *)
(* callback of a closed connection is two actions as well, since a push    *)
(* can find the entry of the socket before it is erased.                   *)
(*                                                                         *)
(* A socket is the address of a WebSocket object; the address of a closed  *)
(* one can be used again for a new connection.                             *)
(***************************************************************************)
EXTENDS Wire

CONSTANTS
    Ws,                 \* addresses of WebSocket objects
    NoWs,               \* no socket
    GwOf,               \* GwOf[s]: the gateway socket s belongs to
    MaxSends,           \* bound: message requests accepted in a behaviour
    OneLoginPerSocket,  \* clients: a connection logs in at most once
    OneSocketPerUid     \* clients: a user has one logged-in connection

ASSUME GatewayAssumption ==
    /\ NoWs \notin Ws
    /\ GwOf \in [Ws -> Gateways]
    /\ MaxSends \in Nat
    /\ OneLoginPerSocket \in BOOLEAN
    /\ OneSocketPerUid \in BOOLEAN

VARIABLES
    open,       \* sockets that are connected
    suid,       \* suid[s]: PerSocketData::uid
    sessions,   \* sessions[g][u]: SessionManager::sessions_ of gateway g
    cur,        \* cur[g]: the socket whose callback the event loop runs:
                \* its handler waits for rpc[g], or it is being closed
    inbox,      \* inbox[s]: messages pushed over the connection
    sends,      \* number of message requests accepted so far
    told,       \* told[u]: msg_ids the replies to user u have carried, and
                \* 0: the cursors its client can put in a SyncMsgReq
    have        \* have[u]: messages the client of u got from SyncMsg

clientVars == <<told, have>>
gwVars == <<open, suid, sessions, cur, inbox, sends, told, have>>

Msg == [from : AnyUid, to : Uids, body : Bodies]

GwInit ==
    /\ open = {}
    /\ suid = [s \in Ws |-> NoUid]
    /\ sessions = [g \in Gateways |-> [u \in Uids |-> NoWs]]
    /\ cur = [g \in Gateways |-> NoWs]
    /\ inbox = [s \in Ws |-> {}]
    /\ sends = 0
    /\ told = [u \in AnyUid |-> {0}]
    /\ have = [u \in AnyUid |-> {}]

-----------------------------------------------------------------------------
(* The event loop of the gateway of socket s is free to run a callback.    *)
LoopFree(s) == cur[GwOf[s]] = NoWs

(* .open, with the PerSocketData of the new connection.                    *)
Open(s) ==
    /\ LoopFree(s)
    /\ s \notin open
    /\ open' = open \cup {s}
    /\ suid' = [suid EXCEPT ![s] = NoUid]
    /\ inbox' = [inbox EXCEPT ![s] = {}]
    /\ UNCHANGED <<sessions, cur, sends, rpc, pushq, clientVars>>

(* A handler sends its request to the logic server and blocks.             *)
CallLogic(s, r) ==
    /\ rpc' = [rpc EXCEPT ![GwOf[s]] = Call(r)]
    /\ cur' = [cur EXCEPT ![GwOf[s]] = s]

(* What clients are assumed to respect, if anything, before they log in.   *)
ClientMayLogin(s, u) ==
    /\ OneLoginPerSocket => suid[s] = NoUid
    /\ OneSocketPerUid =>
          \A o \in open \ {s} : GwOf[o] = GwOf[s] => suid[o] # u

(* Command 0x1001 up to the call of Login.                                 *)
RecvLogin(s, u, tok) ==
    /\ LoopFree(s)
    /\ s \in open
    /\ ClientMayLogin(s, u)
    /\ CallLogic(s, [op |-> "Login", uid |-> u, token |-> tok])
    /\ UNCHANGED <<open, suid, sessions, inbox, sends, pushq, clientVars>>

(* A login frame whose header gives a length that is not its own (main.cc: *)
(* 136 does not compare the two): ParseFromArray reads beyond the frame.   *)
(* What it finds there is a login like any other, or no login at all, or   *)
(* the process dies, and with it every connection and the whole table.     *)
(* This is the last case; the gateway is started again.  A push that had   *)
(* not been sent finds the new process.                                    *)
RecvLoginCrash(s) ==
    LET g == GwOf[s] IN
    /\ LoopFree(s)
    /\ s \in open
    /\ open' = {o \in open : GwOf[o] # g}
    /\ sessions' = [sessions EXCEPT ![g] = [u \in Uids |-> NoWs]]
    /\ UNCHANGED <<suid, cur, inbox, sends, rpc, pushq, clientVars>>

(* Command 0x1003 up to the call of SendMsg: without a login the request   *)
(* is dropped; otherwise the from_uid claimed by the client is overwritten *)
(* by the uid of the socket.                                               *)
RecvSend(s, claimed, to, body) ==
    /\ LoopFree(s)
    /\ s \in open
    /\ suid[s] # NoUid
    /\ sends < MaxSends
    /\ LET msg == [from |-> claimed, to |-> to, body |-> body]
           own == [msg EXCEPT !.from = suid[s]]
       IN  CallLogic(s, [op |-> "SendMsg", from |-> own.from,
                         to |-> own.to, body |-> own.body])
    /\ sends' = sends + 1
    /\ UNCHANGED <<open, suid, sessions, inbox, pushq, clientVars>>

(* Faulty variant of RecvSync: the uid is left as the client set it.       *)
RecvSyncAsClaimed(s, claimed, last) ==
    /\ LoopFree(s)
    /\ s \in open
    /\ CallLogic(s, [op |-> "SyncMsg", uid |-> claimed, last |-> last])
    /\ UNCHANGED <<open, suid, sessions, inbox, sends, pushq, clientVars>>

(* Command 0x1006 up to the call of SyncMsg, with the uid of the socket    *)
(* (0 before a login: there is no check).                                  *)
RecvSync(s, claimed, last) ==
    /\ LoopFree(s)
    /\ s \in open
    /\ LET req == [op |-> "SyncMsg", uid |-> claimed, last |-> last]
       IN  CallLogic(s, [req EXCEPT !.uid = suid[s]])
    /\ UNCHANGED <<open, suid, sessions, inbox, sends, pushq, clientVars>>

(* The call has returned; the handler ends and the event loop is free.     *)
Returned(g, op) ==
    /\ rpc[g].st \in {"ok", "fail"}
    /\ rpc[g].req.op = op
    /\ rpc' = [rpc EXCEPT ![g] = NoCall]
    /\ cur' = [cur EXCEPT ![g] = NoWs]

(* AddSession and RemoveSession.  The table has no entry for uid 0.        *)
AddSession(g, u, s) == sessions' = [sessions EXCEPT ![g][u] = s]

RemoveSession(g, u) ==
    IF u # NoUid THEN sessions' = [sessions EXCEPT ![g][u] = NoWs]
                 ELSE UNCHANGED sessions

(* Faulty variant of FinishLogin: the socket is not entered in the table.  *)
FinishLoginNoSession(g) ==
    /\ Returned(g, "Login")
    /\ IF rpc[g].st = "ok" /\ rpc[g].res.err = "ERR_SUCCESS"
       THEN suid' = [suid EXCEPT ![cur[g]] = rpc[g].req.uid]
       ELSE UNCHANGED suid
    /\ UNCHANGED <<open, sessions, inbox, sends, pushq, clientVars>>

(* The rest of command 0x1001: after a successful login the uid is stored  *)
(* in the socket's data and AddSession points the uid at the socket; an    *)
(* earlier uid of the socket and an earlier socket of the uid are          *)
(* forgotten.                                                              *)
FinishLogin(g) ==
    /\ Returned(g, "Login")
    /\ IF rpc[g].st = "ok" /\ rpc[g].res.err = "ERR_SUCCESS"
       THEN LET u == rpc[g].req.uid IN
            /\ suid' = [suid EXCEPT ![cur[g]] = u]
            /\ AddSession(g, u, cur[g])
       ELSE UNCHANGED <<suid, sessions>>
    /\ UNCHANGED <<open, inbox, sends, pushq, clientVars>>

(* The rest of command 0x1003: the reply, if there is one, is passed to    *)
(* the client, which learns the msg_id.                                    *)
FinishSend(g) ==
    /\ Returned(g, "SendMsg")
    /\ IF rpc[g].st = "ok"
       THEN told' = [told EXCEPT ![suid[cur[g]]] = @ \cup {rpc[g].res.msg_id}]
       ELSE UNCHANGED told
    /\ UNCHANGED <<open, suid, sessions, inbox, sends, have, pushq>>

(* The rest of command 0x1006: the reply, if there is one, is passed to    *)
(* the client, with the messages and their msg_ids.                        *)
FinishSync(g) ==
    /\ Returned(g, "SyncMsg")
    /\ IF rpc[g].st = "ok"
       THEN LET u    == suid[cur[g]]
                msgs == rpc[g].res.msgs IN
            /\ have' = [have EXCEPT ![u] = @ \cup msgs]
            /\ told' = [told EXCEPT ![u] = @ \cup {m.msg_id : m \in msgs}]
       ELSE UNCHANGED clientVars
    /\ UNCHANGED <<open, suid, sessions, inbox, sends, pushq>>

(* Faulty variant of Close: it does not wait for the running handler.      *)
CloseAnyTime(s) ==
    /\ s \in open
    /\ open' = open \ {s}
    /\ RemoveSession(GwOf[s], suid[s])
    /\ UNCHANGED <<suid, cur, inbox, sends, rpc, pushq, clientVars>>

(* The connection is gone and the event loop enters .close; the table      *)
(* still has its entry.                                                    *)
Close(s) ==
    /\ LoopFree(s)
    /\ s \in open
    /\ open' = open \ {s}
    /\ cur' = [cur EXCEPT ![GwOf[s]] = s]
    /\ UNCHANGED <<suid, sessions, inbox, sends, rpc, pushq, clientVars>>

(* The event loop of g is inside .close of socket cur[g].                  *)
Closing(g) == cur[g] # NoWs /\ rpc[g].st = "none"

(* Faulty variant of CloseEnd: the session table is left alone.            *)
CloseEndKeepsSession(g) ==
    /\ Closing(g)
    /\ cur' = [cur EXCEPT ![g] = NoWs]
    /\ UNCHANGED <<open, suid, sessions, inbox, sends, rpc, pushq, clientVars>>

(* .close: RemoveSession erases the entry of the socket's uid, whatever    *)
(* socket it points to, and the callback ends.                             *)
CloseEnd(g) ==
    /\ Closing(g)
    /\ RemoveSession(g, suid[cur[g]])
    /\ cur' = [cur EXCEPT ![g] = NoWs]
    /\ UNCHANGED <<open, suid, inbox, sends, rpc, pushq, clientVars>>

(* The socket PushToUser finds for a uid.                                  *)
PushTarget(g, u) == sessions[g][u]

(* PushMsg on a gRPC thread: lookup and send under the mutex of the table. *)
(* send is called outside the event loop's thread and its result is not    *)
(* looked at, so the message may or may not reach the client.              *)
PushMsg(p) ==
    LET s == PushTarget(p.gw, p.to)
        m == [from |-> p.from, to |-> p.to, body |-> p.body] IN
    /\ p \in pushq
    /\ pushq' = pushq \ {p}
    /\ \/ s # NoWs /\ inbox' = [inbox EXCEPT ![s] = @ \cup {m}]
       \/ UNCHANGED inbox
    /\ UNCHANGED <<open, suid, sessions, cur, sends, rpc, clientVars>>

(* One step of the gateways.  Clients send what they like within their     *)
(* assumed discipline; the cursor of a sync is one the client knows.       *)
GwNext ==
    \/ \E s \in Ws : Open(s) \/ Close(s) \/ RecvLoginCrash(s)
    \/ \E s \in Ws, u \in Uids, tok \in Tokens : RecvLogin(s, u, tok)
    \/ \E s \in Ws, f, t \in Uids, b \in Bodies : RecvSend(s, f, t, b)
    \/ \E s \in Ws, f \in Uids : \E k \in told[suid[s]] : RecvSync(s, f, k)
    \/ \E g \in Gateways : FinishLogin(g) \/ FinishSend(g) \/ FinishSync(g)
    \/ \E g \in Gateways : CloseEnd(g)
    \/ \E p \in pushq : PushMsg(p)

-----------------------------------------------------------------------------
(* The type invariant of the gateway and of its RPC interfaces.            *)
GwTypeOK ==
    /\ rpc \in [Gateways -> CallState]
    /\ pushq \in SUBSET PushMsgReq
    /\ open \in SUBSET Ws
    /\ suid \in [Ws -> AnyUid]
    /\ sessions \in [Gateways -> [Uids -> Ws \cup {NoWs}]]
    /\ cur \in [Gateways -> Ws \cup {NoWs}]
    /\ inbox \in [Ws -> SUBSET Msg]
    /\ sends \in 0..MaxSends
    /\ told \in [AnyUid -> SUBSET Nat]
    /\ have \in [AnyUid -> SUBSET ChatMsg]

(* PushMsg for a uid goes to a socket that is logged in as that uid        *)
(* ("pushes over the WebSocket to the client of the given UID",            *)
(* readme.md:134) and is connected or, at worst, in its close callback:    *)
(* the object is still there, and its address is not that of a later       *)
(* connection.                                                             *)
PushReachesOwner ==
    \A g \in Gateways, u \in Uids :
        LET s == PushTarget(g, u) IN
        s # NoWs => s \in open \cup {cur[g]} /\ GwOf[s] = g /\ suid[s] = u

(* A user with a logged-in connection is found by PushMsg: "User not found *)
(* locally" (main.cc:61) is never the answer for a connected user.         *)
LoggedInReachable ==
    \A s \in open :
        suid[s] # NoUid => PushTarget(GwOf[s], suid[s]) # NoWs

(* A handler that waits for the logic server replies on a socket that is   *)
(* still connected and still belongs to the uid the request was sent for:  *)
(* the blocked event loop cannot close it or log it in again.              *)
CallerStays ==
    \A g \in Gateways :
        rpc[g].st # "none" =>
            /\ cur[g] \in open
            /\ GwOf[cur[g]] = g
            /\ rpc[g].req.op = "SendMsg" => rpc[g].req.from = suid[cur[g]]
            /\ rpc[g].req.op = "SyncMsg" => rpc[g].req.uid = suid[cur[g]]

(* Every message pushed over a connection is addressed to the user of that *)
(* connection.                                                             *)
InboxOwn == \A s \in open : \A m \in inbox[s] : m.to = suid[s]

=============================================================================
