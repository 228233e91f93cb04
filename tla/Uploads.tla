------------------------------ MODULE Uploads -------------------------------
(***************************************************************************)
(* Upload URLs: command 0x1008 of the gateway (gateway/main.cc:244-275),   *)
(* GetUploadUrl of the logic server (logic_server/main.cc:177-197) and the *)
(* storage client behind it (s3_client.h), between processes that start,   *)
(* fail and are started again.                                             *)
(*                                                                         *)
(* A call is a handler thread of the logic server; the gateway it serves   *)
(* blocks until it is answered.  A URL is the file id it names: the rest   *)
(* is the same in all URLs.  The SeaweedFS master is external: each assign *)
(* that succeeds hands out a new file id.                                  *)
(***************************************************************************)
EXTENDS Packet, Startup

CONSTANTS
    NoGateway,      \* the gateway of a call whose caller has gone
    Uids,           \* uids of the sockets; 0 before a login
    Files,          \* values of file_name
    Frames,         \* frames of command 0x1008: the bytes of the header,
                    \* the length, and whether the body can be parsed
    BodySize,       \* size of the reply in case of success and of error
    MaxCalls,       \* bound on the number of calls
    MaxTick         \* bound on the clock

ASSUME UploadsAssumption ==
    /\ NoGateway \notin Gateways
    /\ \A f \in Frames : /\ f.head \in Seq(0..ByteBase - 1)
                         /\ Len(f.head) = HEADER_LEN
                         /\ f.len \in Nat /\ f.parses \in BOOLEAN
                         /\ f.len < U32 \div 2   \* maxPayloadLength is 16 KiB
    /\ BodySize \in [BOOLEAN -> Nat]
    /\ \A ok \in BOOLEAN :                       \* two URLs and a code
          HEADER_LEN + BodySize[ok] < U32
    /\ MaxCalls \in Nat /\ MaxTick \in Nat

Calls == 1..MaxCalls

(* A whole response gives call n the file id n.                            *)
NoFid == 0          \* the empty string
CutFid == -1        \* what is left of a file id in a response that was cut
Fid == Calls \cup {NoFid, CutFid}

Key == Uids \X (0..MaxTick) \X Files
NoKey == <<>>

VARIABLES
    call,           \* call[n]: the n-th call, kept when it has ended
    object_fid_map, \* object key -> file id
    clock           \* system_clock, read by the handlers

uploadVars == <<call, object_fid_map, clock>>
vars == <<logic, gw, push, uploadVars>>

NoCall == [st |-> "none"]

(* Steps of a call in the logic server, before it, and after it.           *)
Running == {"assign", "insert", "lookup", "done"}
Ended == {"none", "replied", "lost"}

Call ==
    {NoCall} \cup
    [st : Running \cup {"recv", "failed", "replied", "lost"},
     g : Gateways \cup {NoGateway}, uid : Uids, file : Files, frame : Frames,
     key : Key \cup {NoKey}, up : Fid, down : Fid, reply : Seq(Nat)]

Init ==
    /\ StartInit
    /\ call = [n \in Calls |-> NoCall]
    /\ object_fid_map = [k \in Key |-> NoFid]
    /\ clock = 0

-----------------------------------------------------------------------------
(* Call n goes on; processes, map and clock stay as they are.              *)
Update(n, c) ==
    /\ call' = [call EXCEPT ![n] = c]
    /\ UNCHANGED <<logic, gw, push, clock>>

Waits(g, n) == call[n].st \notin Ended /\ call[n].g = g

(* The handler of 0x1008 takes the frame: the call is made with the uid of *)
(* the socket.  A frame that fails the checks is dropped.                  *)
RecvUpload(g, n, uid, file, frame) ==
    /\ gw[g] = "serving"
    /\ \A m \in Calls : ~Waits(g, m)
    /\ call[n] = NoCall
    /\ \A m \in 1..n - 1 : call[m] # NoCall
    /\ frame.len >= HEADER_LEN
    /\ LengthCheck(frame.len, DecodeHeader(frame.head))
    /\ frame.parses
    /\ Update(n, [st |-> "recv", g |-> g, uid |-> uid, file |-> file,
                  frame |-> frame, key |-> NoKey, up |-> NoFid,
                  down |-> NoFid, reply |-> <<>>])
    /\ UNCHANGED object_fid_map

(* GetUploadUrl begins: the object key is made from the clock.             *)
MakeKey(n) ==
    /\ call[n].st = "recv"
    /\ logic = "up"
    /\ Update(n, [call[n] EXCEPT !.st = "assign",
                                 !.key = <<call[n].uid, clock, call[n].file>>])
    /\ UNCHANGED object_fid_map

(* How HttpGet can end: with the whole response, with one that ends in the *)
(* middle, or with nothing of use (no connection, no file id).             *)
HttpGet == {"whole", "cut", "none"}

(* Faulty variant of Extracted: what stands in a response without a file   *)
(* id is taken for one.                                                    *)
ExtractedUnchecked(n, response) ==
    IF response = "whole" THEN n ELSE CutFid - 1

(* ExtractJsonValue: a response that ends inside the file id gives its     *)
(* beginning, one without it the empty string.                             *)
Extracted(n, response) ==
    CASE response = "whole" -> n
      [] response = "cut"   -> CutFid
      [] response = "none"  -> NoFid

(* GetPresignedPutUrl: /dir/assign.                                        *)
Assign(n, response) ==
    LET fid == Extracted(n, response) IN
    /\ call[n].st = "assign"
    /\ Update(n, [call[n] EXCEPT !.st = IF fid = NoFid THEN "lookup" ELSE "insert",
                                 !.up = fid])
    /\ UNCHANGED object_fid_map

(* object_fid_map_[object_name] = fid, under the mutex.                    *)
Insert(n) ==
    /\ call[n].st = "insert"
    /\ object_fid_map' = [object_fid_map EXCEPT ![call[n].key] = call[n].up]
    /\ Update(n, [call[n] EXCEPT !.st = "lookup"])

(* Faulty variants of Lookup: the upload URL is taken from the map too;    *)
(* any entry of the file is taken.                                         *)
LookupBoth(n) ==
    LET fid == object_fid_map[call[n].key] IN
    /\ call[n].st = "lookup"
    /\ Update(n, [call[n] EXCEPT !.st = "done", !.up = fid, !.down = fid])
    /\ UNCHANGED object_fid_map

LookupByFile(n) ==
    /\ call[n].st = "lookup"
    /\ \E k \in Key :
          /\ k[3] = call[n].file /\ object_fid_map[k] # NoFid
          /\ Update(n, [call[n] EXCEPT !.st = "done", !.down = object_fid_map[k]])
    /\ UNCHANGED object_fid_map

(* GetDownloadUrl, also after a failed assign, under the mutex again.      *)
Lookup(n) ==
    /\ call[n].st = "lookup"
    /\ Update(n, [call[n] EXCEPT !.st = "done", !.down = object_fid_map[call[n].key]])
    /\ UNCHANGED object_fid_map

(* Both URLs are there; otherwise the reply is ERR_SYS_ERROR.              *)
Success(n) == call[n].up # NoFid /\ call[n].down # NoFid

(* The call returns and the gateway sends command 0x1009.                  *)
Reply(n) ==
    LET h == DecodeHeader(call[n].frame.head) IN
    /\ call[n].st = "done" /\ call[n].g # NoGateway
    /\ Update(n, [call[n] EXCEPT
                    !.st = "replied",
                    !.g = NoGateway,
                    !.reply = EncodeHeader(ReplyHeader(h, GetUploadUrlRes,
                                                       BodySize[Success(n)]))])
    /\ UNCHANGED object_fid_map

(* The call fails, or nobody waits for it any more: no reply is sent.      *)
CallLost(n) ==
    /\ \/ call[n].st = "failed"
       \/ call[n].st = "recv" /\ logic # "up"
       \/ call[n].st \in {"recv", "done"} /\ call[n].g = NoGateway
    /\ Update(n, [call[n] EXCEPT !.st = "lost", !.g = NoGateway])
    /\ UNCHANGED object_fid_map

Tick ==
    /\ clock < MaxTick
    /\ clock' = clock + 1
    /\ UNCHANGED <<logic, gw, push, call, object_fid_map>>

(* The logic server dies: its handlers and the map are lost.               *)
LogicCrash ==
    /\ logic = "up"
    /\ logic' = "down"
    /\ call' = [n \in Calls |-> IF call[n].st \in Running
                                THEN [call[n] EXCEPT !.st = "failed"]
                                ELSE call[n]]
    /\ object_fid_map' = [k \in Key |-> NoFid]
    /\ UNCHANGED <<gw, push, clock>>

(* Gateway g has gone down: the handler that serves it runs on for nobody. *)
Orphan(g) ==
    /\ call' = [n \in Calls |-> IF Waits(g, n)
                                THEN [call[n] EXCEPT !.g = NoGateway]
                                ELSE call[n]]
    /\ UNCHANGED <<object_fid_map, clock>>

(* A gateway goes down, while it starts or while it serves clients.        *)
GatewayGone(g) ==
    /\ GatewayLoadFails(g) \/ ListenFails(g) \/ PushFails(g) \/ GatewayKilled(g)
    /\ Orphan(g)

(* The other steps of starting.                                            *)
Start ==
    /\ \/ LogicBegin \/ LogicLoad \/ LogicLoadFails
       \/ LogicCheck \/ LogicServe \/ LogicStartFails
       \/ \E g \in Gateways :
             GatewayBegin(g) \/ GatewayLoad(g) \/ Listen(g) \/ PushListens(g)
    /\ UNCHANGED uploadVars

Next ==
    \/ Start
    \/ \E g \in Gateways : GatewayGone(g)
    \/ LogicCrash
    \/ Tick
    \/ \E g \in Gateways, n \in Calls, u \in Uids, f \in Files, p \in Frames :
          RecvUpload(g, n, u, f, p)
    \/ \E n \in Calls :
          \/ MakeKey(n) \/ Insert(n) \/ Lookup(n) \/ Reply(n) \/ CallLost(n)
          \/ \E r \in HttpGet : Assign(n, r)

Spec == Init /\ [][Next]_vars

(* The detached thread of a gateway is scheduled, and its server starts or *)
(* does not.                                                               *)
PushStarts(g) ==
    \/ PushListens(g) /\ UNCHANGED uploadVars
    \/ PushFails(g) /\ Orphan(g)

FairSpec == Spec /\ \A g \in Gateways : WF_vars(PushStarts(g))

-----------------------------------------------------------------------------
(* The variables have their types.                                         *)
TypeOK ==
    /\ StartTypeOK
    /\ call \in [Calls -> Call]
    /\ object_fid_map \in [Key -> Fid]
    /\ clock \in 0..MaxTick

Replied == {n \in Calls : call[n].st = "replied"}

(* When the storage has assigned a file, the reply has both URLs: between  *)
(* insert and lookup nothing makes the entry disappear.  They name files   *)
(* assigned for the same object key, and the same file unless another call *)
(* has made that key in the same clock tick (logic_server/main.cc:179-182: *)
(* the map is written and read in two critical sections, under a key that  *)
(* need not be new).                                                       *)
PairUnlessClash ==
    \A n \in Replied : call[n].up # NoFid =>
        LET same == {m \in Calls : call[m] # NoCall /\ call[m].key = call[n].key} IN
        /\ Success(n)
        /\ \E m \in same : call[m].up = call[n].down
        /\ same = {n} => call[n].up = call[n].down

(* No two replies send their clients to upload to the same file, whatever  *)
(* the keys, crashes and retries; except to the useless beginning of a     *)
(* file id out of a response that was cut.                                 *)
FidNotShared ==
    \A n, m \in Replied :
        n # m /\ Success(n) /\ Success(m) /\ call[n].up = call[m].up
            => call[n].up = CutFid

(* A client can match a reply to its request: the bytes sent decode to the *)
(* sequence number and version of the request, command 0x1009 and the      *)
(* true length (gateway/main.cc:260-272).                                  *)
ReplyMatches ==
    \A n \in Replied :
        LET h == DecodeHeader(call[n].reply)
            req == DecodeHeader(call[n].frame.head) IN
        /\ Len(call[n].reply) = HEADER_LEN
        /\ h.seq_id = req.seq_id /\ h.version = req.version
        /\ h.cmd_id = GetUploadUrlRes
        /\ h.length = HEADER_LEN + BodySize[Success(n)]

(* The length check of a serving gateway, in wrapping arithmetic, lets     *)
(* pass exactly the frames that are as long as their header says, so that  *)
(* no request comes from a frame that is short; and for a frame whose      *)
(* header says its true length, the login command parses its own body      *)
(* (gateway/main.cc:136, 246).                                             *)
LengthCheckExact ==
    /\ \A n \in Calls : call[n] # NoCall =>
          call[n].frame.len >= DecodeHeader(call[n].frame.head).length
    /\ \A g \in Gateways, f \in Frames : gw[g] = "serving" =>
          LET h == DecodeHeader(f.head) IN
          /\ LengthCheck(f.len, h) <=> f.len >= h.length
          /\ f.len = h.length => LoginParseSize(h) = f.len - HEADER_LEN

=============================================================================
