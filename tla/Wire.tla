-------------------------------- MODULE Wire --------------------------------
(***************************************************************************)
(* The two gRPC interfaces between the gateways and the logic server       *)
(* (proto/im_service.proto) and the message types they carry               *)
(* (proto/im.proto).                                                       *)
(*                                                                         *)
(* A gateway calls LogicService synchronously from its only event-loop     *)
(* thread (gateway/main.cc:140,187,221), so it has at most one call under  *)
(* way: rpc[g].  PushMsg calls go the other way and are answered by the    *)
(* gRPC threads of the gateway: pushq.                                     *)
(***************************************************************************)
EXTENDS Integers, FiniteSets

CONSTANTS
    Gateways,   \* gateway processes
    Uids,       \* user ids (positive); 0 is the uid of a socket not logged in
    Tokens,     \* passwords and tokens a client may present, with the
                \* empty one
    Bodies      \* message contents

ASSUME WireAssumption == Uids \subseteq (Nat \ {0})

NoUid == 0
AnyUid == Uids \cup {NoUid}

VARIABLES
    rpc,        \* rpc[g]: the LogicService call of gateway g's event loop
    pushq       \* PushMsg requests under way to a gateway

(* Requests, as the gateway passes them on.                                *)
LoginReq   == [op : {"Login"}, uid : Uids, token : Tokens]
MsgSendReq == [op : {"SendMsg"}, from : AnyUid, to : Uids, body : Bodies]
SyncMsgReq == [op : {"SyncMsg"}, uid : AnyUid, last : Nat]
Request    == LoginReq \cup MsgSendReq \cup SyncMsgReq

(* A row of t_chat_msg: id is the serial key, mid the msg_id column.       *)
ChatRow == [id : Nat, mid : Nat, from : AnyUid, to : Uids, body : Bodies]

(* A ChatMsg as a client receives it from SyncMsg.  Its msg_id field stays *)
(* 0: GetofflineMsgs selects the column and never sets the field           *)
(* (pool_db_client.cc:54-65).  The serial key is not sent; the model keeps *)
(* it in id to tell messages apart.                                        *)
ChatMsg == [id : Nat, msg_id : {0}, from : AnyUid, to : Uids, body : Bodies]

ErrorCode == {"ERR_SUCCESS", "ERR_AUTH_FAIL", "ERR_NOT_FRIEND"}

(* Replies: the error code, the msg_id of MsgSendRes, the list of          *)
(* SyncMsgRes (a set: the rows carry their order).                         *)
Reply == [err : ErrorCode, msg_id : Nat, msgs : SUBSET ChatMsg]

(* The states of a unary call: none, sent, answered, or failed in          *)
(* transport (status.ok() is false).                                       *)
NoCall     == [st |-> "none"]
Call(r)    == [st |-> "call", req |-> r]
Ok(r, res) == [st |-> "ok", req |-> r, res |-> res]
Fail(r)    == [st |-> "fail", req |-> r]

CallState == {NoCall} \cup [st : {"call", "fail"}, req : Request]
                      \cup [st : {"ok"}, req : Request, res : Reply]

(* A PushMsg request: the handler that sent it, the gateway addressed, the *)
(* message (with the request's own fields: PackPushMsg copies the request, *)
(* not the stored row).  mid is not sent: it tells the calls apart.        *)
PushMsgReq == [by : Gateways, gw : Gateways, mid : Nat, from : AnyUid,
               to : Uids, body : Bodies]

wireVars == <<rpc, pushq>>

=============================================================================
