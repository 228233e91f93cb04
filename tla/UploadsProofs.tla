--------------------------- MODULE UploadsProofs ----------------------------
(***************************************************************************)
(* Proofs about Uploads, for any number of gateways, calls and files.      *)
(*                                                                         *)
(* The URLs of a reply are right because of a chain through three steps of *)
(* the call: the file id is assigned, entered into the map, and read from  *)
(* the map again, while other calls write the same map, the gateway goes   *)
(* away or the process ends.  UInv keeps what each of them relies on: an   *)
(* entry of the map is a file id some call has been given for that key,    *)
(* and the entry a call is about to read has not disappeared.              *)
(***************************************************************************)
EXTENDS Uploads, PacketProofs

(* A call that has been made.                                              *)
FullCall ==
    [st : Running \cup {"recv", "failed", "replied", "lost"},
     g : Gateways \cup {NoGateway}, uid : Uids, file : Files, frame : Frames,
     key : Key \cup {NoKey}, up : Fid, down : Fid, reply : Seq(Nat)]

(* The bytes of the header that answers call c.                            *)
ReplyBytes(c) ==
    EncodeHeader(ReplyHeader(DecodeHeader(c.frame.head), GetUploadUrlRes,
                             BodySize[c.up # NoFid /\ c.down # NoFid]))

(* What the steps of call n keep true of it: the frame passed the length   *)
(* check, the file id is its own, and the map has an entry when the call   *)
(* is about to read it.                                                    *)
CallOK(n, c, map) ==
    c.st # "none" =>
        /\ c.frame.len >= DecodeHeader(c.frame.head).length
        /\ c.up \in {NoFid, CutFid, n}
        /\ c.st \in {"recv", "assign"} => c.up = NoFid
        /\ c.st \in Running => c.key \in Key
        /\ c.st = "insert" => c.up # NoFid
        /\ (c.st = "lookup" /\ c.up # NoFid) => map[c.key] # NoFid
        /\ (c.st \in {"done", "replied"} /\ c.up # NoFid) => c.down # NoFid
        /\ c.st = "replied" => c.reply = ReplyBytes(c)

(* Some call has been given file id f for key k.                           *)
Holder(calls, k, f) ==
    \E m \in Calls : calls[m].st # "none" /\ calls[m].key = k /\ calls[m].up = f

(* The entries of the map were assigned for their keys, and so was what a  *)
(* call has read from it.                                                  *)
MapOK ==
    \A k \in Key : object_fid_map[k] # NoFid => Holder(call, k, object_fid_map[k])

DownOK ==
    \A n \in Calls :
        (call[n].st \in {"done", "replied"} /\ call[n].down # NoFid)
            => Holder(call, call[n].key, call[n].down)

(* A handler that runs has its process, and a gateway that waits is up and *)
(* waits for one call.                                                     *)
CallsOwned ==
    /\ \A n \in Calls : call[n].st \in Running => logic = "up"
    /\ \A g \in Gateways, n \in Calls : Waits(g, n) =>
          /\ gw[g] = "serving"
          /\ \A m \in Calls : Waits(g, m) => m = n

UInv ==
    /\ TypeOK
    /\ CallsOwned
    /\ \A n \in Calls : CallOK(n, call[n], object_fid_map)
    /\ MapOK
    /\ DownOK

-----------------------------------------------------------------------------
(* A call is none, or has all its fields.                                  *)
LEMMA CallParts ==
    /\ Call = {NoCall} \cup FullCall
    /\ NoCall.st = "none"
    /\ \A c \in FullCall : c.st # "none"
BY DEF Call, FullCall, NoCall, Running

(* A frame is bytes whose header can be decoded.                           *)
LEMMA FrameParts ==
    ASSUME NEW f \in Frames
    PROVE  /\ DecodeHeader(f.head) \in PacketHeader
           /\ f.len \in Nat /\ f.len < U32 \div 2
<1>1. /\ f.head \in Seq(Bytes) /\ Len(f.head) = HEADER_LEN
      /\ f.len \in Nat /\ f.len < U32 \div 2
  BY UploadsAssumption DEF Bytes
<1>. QED  BY <1>1, DecodeType

(* The reply to a frame decodes to the sequence number and version of the  *)
(* request and to the true length, which 32 bits hold.                     *)
LEMMA ReplyParts ==
    ASSUME NEW c \in FullCall
    PROVE  LET h == DecodeHeader(ReplyBytes(c))
               req == DecodeHeader(c.frame.head) IN
           /\ ReplyBytes(c) \in Seq(Nat)
           /\ Len(ReplyBytes(c)) = HEADER_LEN
           /\ h.seq_id = req.seq_id /\ h.version = req.version
           /\ h.cmd_id = GetUploadUrlRes
           /\ h.length = HEADER_LEN + BodySize[c.up # NoFid /\ c.down # NoFid]
<1> DEFINE req == DecodeHeader(c.frame.head)
           ok == c.up # NoFid /\ c.down # NoFid
           size == HEADER_LEN + BodySize[ok]
           h == ReplyHeader(req, GetUploadUrlRes, BodySize[ok])
<1>1. req \in PacketHeader
  BY FrameParts DEF FullCall
<1>2. ok \in BOOLEAN
  OBVIOUS
<1> HIDE DEF ok
<1>3. BodySize[ok] \in Nat /\ HEADER_LEN + BodySize[ok] < U32
  BY <1>2, UploadsAssumption
<1>4. size \in 0..U32 - 1 /\ U32 \in Nat /\ U32 > 0
  BY <1>3, Widths DEF HEADER_LEN
<1> HIDE DEF size, req
<1>5. size % U32 = size
  BY <1>4, ModSmall
<1>6. GetUploadUrlRes \in 0..U16 - 1
  BY PacketAssumption, Widths DEF GetUploadUrlRes
<1>7. h = [length |-> size, version |-> req.version,
           cmd_id |-> GetUploadUrlRes, seq_id |-> req.seq_id]
  BY <1>5 DEF ReplyHeader, size
<1>8. h \in PacketHeader
  BY <1>1, <1>4, <1>6, <1>7 DEF PacketHeader
<1>9. /\ h.seq_id = req.seq_id /\ h.version = req.version
      /\ h.cmd_id = GetUploadUrlRes /\ h.length = size
  BY <1>7
<1> HIDE DEF h
<1>10. /\ EncodeHeader(h) \in Seq(Bytes) /\ Len(EncodeHeader(h)) = HEADER_LEN
       /\ DecodeHeader(EncodeHeader(h)) = h
  BY <1>8, CodecRoundTrip
<1>11. EncodeHeader(h) \in Seq(Nat)
  <2>1. Bytes \subseteq Nat
    BY Widths DEF Bytes
  <2> DEFINE e == EncodeHeader(h)
  <2>. HIDE DEF e
  <2>2. e \in Seq(Bytes)
    BY <1>10 DEF e
  <2>3. e \in [1..Len(e) -> Bytes] /\ Len(e) \in Nat
    BY <2>2
  <2>4. e \in [1..Len(e) -> Nat]
    BY <2>1, <2>3
  <2>5. e \in Seq(Nat)
    BY <2>3, <2>4
  <2>. QED  BY <2>5 DEF e
<1>12. ReplyBytes(c) = EncodeHeader(h)
  BY DEF ReplyBytes, h, req, ok
<1>. QED  BY <1>9, <1>10, <1>11, <1>12 DEF size, req, ok

-----------------------------------------------------------------------------
(* Call n goes on as c: the other calls keep what they have, and the       *)
(* entries they rely on.                                                   *)
LEMMA CallMoves ==
    ASSUME UInv, NEW n \in Calls, NEW c \in FullCall,
           call' = [call EXCEPT ![n] = c],
           UNCHANGED <<logic, gw, push, clock>>,
           object_fid_map' \in [Key -> Fid],
           \A k \in Key : object_fid_map[k] # NoFid => object_fid_map'[k] # NoFid,
           \A k \in Key : \/ object_fid_map'[k] = object_fid_map[k]
                          \/ c.key = k /\ c.up = object_fid_map'[k],
           CallOK(n, c, object_fid_map'),
           \/ call[n].st = "none"
           \/ call[n].up = NoFid
           \/ c.up = call[n].up /\ c.key = call[n].key,
           c.st \in Running => logic = "up",
           (c.st \notin Ended /\ c.g \in Gateways) =>
               /\ gw[c.g] = "serving"
               /\ \A m \in Calls : Waits(c.g, m) => m = n,
           (c.st \in {"done", "replied"} /\ c.down # NoFid) =>
               Holder(call, c.key, c.down)
    PROVE  UInv'
<1>1. /\ call \in [Calls -> Call] /\ call'[n] = c /\ DOMAIN call' = Calls
      /\ \A m \in Calls : m # n => call'[m] = call[m]
      /\ call' \in [Calls -> Call] /\ c.st # "none"
  BY CallParts DEF UInv, TypeOK
<1>2. TypeOK'
  BY <1>1 DEF UInv, TypeOK, StartTypeOK
<1>3. CallsOwned'
  <2>1. ASSUME NEW m \in Calls, call'[m].st \in Running PROVE logic' = "up"
    BY <1>1, <2>1 DEF UInv, CallsOwned
  <2>2. ASSUME NEW g \in Gateways, NEW m \in Calls, Waits(g, m)'
        PROVE  /\ gw'[g] = "serving"
               /\ \A o \in Calls : Waits(g, o)' => o = m
    <3>1. CASE c.st \notin Ended /\ c.g = g
      <4>1. gw[g] = "serving" /\ \A o \in Calls : Waits(g, o) => o = n
        BY <3>1
      <4>2. \A o \in Calls : Waits(g, o)' => o = n
        BY <1>1, <4>1 DEF Waits
      <4>. QED  BY <2>2, <4>1, <4>2
    <3>2. CASE ~(c.st \notin Ended /\ c.g = g)
      <4>1. \A o \in Calls : Waits(g, o)' => Waits(g, o)
        BY <1>1, <3>2 DEF Waits
      <4>. QED  BY <2>2, <4>1 DEF UInv, CallsOwned
    <3>. QED  BY <3>1, <3>2
  <2>. QED  BY <2>1, <2>2 DEF CallsOwned
<1>4. ASSUME NEW m \in Calls PROVE CallOK(m, call'[m], object_fid_map')
  <2>1. CASE m = n
    BY <1>1, <2>1
  <2>2. CASE m # n
    <3>1. CallOK(m, call[m], object_fid_map) /\ call'[m] = call[m]
      BY <1>1, <2>2 DEF UInv
    <3>. QED  BY <3>1 DEF CallOK, Running
  <2>. QED  BY <2>1, <2>2
<1>5. ASSUME NEW k, NEW f, f # NoFid, Holder(call, k, f)
      PROVE  Holder(call', k, f)
  <2>1. PICK m \in Calls : call[m].st # "none" /\ call[m].key = k /\ call[m].up = f
    BY <1>5 DEF Holder
  <2>2. call'[m].st # "none" /\ call'[m].key = k /\ call'[m].up = f
    BY <1>1, <1>5, <2>1
  <2>. QED  BY <2>2 DEF Holder
<1>6. MapOK'
  <2> SUFFICES ASSUME NEW k \in Key, object_fid_map'[k] # NoFid
               PROVE  Holder(call', k, object_fid_map'[k])
    BY DEF MapOK
  <2>1. CASE object_fid_map'[k] = object_fid_map[k]
    BY <1>5, <2>1 DEF UInv, MapOK
  <2>2. CASE c.key = k /\ c.up = object_fid_map'[k]
    BY <1>1, <2>2 DEF Holder
  <2>. QED  BY <2>1, <2>2
<1>7. DownOK'
  <2> SUFFICES ASSUME NEW m \in Calls, call'[m].st \in {"done", "replied"},
                      call'[m].down # NoFid
               PROVE  Holder(call', call'[m].key, call'[m].down)
    BY DEF DownOK
  <2>1. CASE m = n
    BY <1>1, <1>5, <2>1
  <2>2. CASE m # n
    BY <1>1, <1>5, <2>2 DEF UInv, DownOK
  <2>. QED  BY <2>1, <2>2
<1>. QED  BY <1>2, <1>3, <1>4, <1>6, <1>7 DEF UInv

(* A call that is under way has all its fields, and its gateway waits for  *)
(* it alone.                                                               *)
LEMMA UnderWay ==
    ASSUME UInv, NEW n \in Calls, call[n].st # "none"
    PROVE  /\ call[n] \in FullCall
           /\ CallOK(n, call[n], object_fid_map)
           /\ (call[n].st \notin Ended /\ call[n].g \in Gateways) =>
                 /\ gw[call[n].g] = "serving"
                 /\ \A m \in Calls : Waits(call[n].g, m) => m = n
<1>1. call[n] \in FullCall
  BY CallParts DEF UInv, TypeOK
<1>2. ASSUME NEW g \in Gateways, call[n].st \notin Ended, g = call[n].g
      PROVE  gw[g] = "serving" /\ \A m \in Calls : Waits(g, m) => m = n
  <2>1. Waits(g, n)
    BY <1>2 DEF Waits
  <2>. QED  BY <2>1 DEF UInv, CallsOwned
<1>. QED  BY <1>1, <1>2 DEF UInv

LEMMA RecvKeeps ==
    ASSUME UInv, NEW g \in Gateways, NEW n \in Calls, NEW u \in Uids,
           NEW f \in Files, NEW p \in Frames, RecvUpload(g, n, u, f, p)
    PROVE  UInv'
<1> DEFINE c == [st |-> "recv", g |-> g, uid |-> u, file |-> f,
                 frame |-> p, key |-> NoKey, up |-> NoFid,
                 down |-> NoFid, reply |-> <<>>]
<1>1. /\ gw[g] = "serving" /\ \A m \in Calls : ~Waits(g, m)
      /\ call[n].st = "none" /\ LengthCheck(p.len, DecodeHeader(p.head))
      /\ call' = [call EXCEPT ![n] = c]
      /\ UNCHANGED <<logic, gw, push, clock>> /\ object_fid_map' = object_fid_map
  BY CallParts DEF RecvUpload, Update
<1>2. p.len >= DecodeHeader(p.head).length
  BY <1>1, FrameParts, LengthChecksExact
<1>3. c \in FullCall
  BY DEF FullCall, Fid
<1>4. /\ c.st = "recv" /\ c.g = g /\ c.frame = p /\ c.up = NoFid
  OBVIOUS
<1> HIDE DEF c
<1>5. CallOK(n, c, object_fid_map')
  BY <1>2, <1>4 DEF CallOK, Running
<1>6. object_fid_map \in [Key -> Fid]
  BY DEF UInv, TypeOK
<1>7. c.st \notin Running /\ c.st \notin {"done", "replied"}
  BY <1>4 DEF Running
<1>. QED  BY <1>1, <1>3, <1>4, <1>5, <1>6, <1>7, CallMoves

LEMMA MakeKeyKeeps ==
    ASSUME UInv, NEW n \in Calls, MakeKey(n)
    PROVE  UInv'
<1> DEFINE k == <<call[n].uid, clock, call[n].file>>
           c == [call[n] EXCEPT !.st = "assign", !.key = k]
<1>1. /\ call[n].st = "recv" /\ logic = "up"
      /\ call' = [call EXCEPT ![n] = c]
      /\ UNCHANGED <<logic, gw, push, clock>> /\ object_fid_map' = object_fid_map
  BY DEF MakeKey, Update
<1>2. /\ call[n] \in FullCall /\ CallOK(n, call[n], object_fid_map)
      /\ (call[n].st \notin Ended /\ call[n].g \in Gateways) =>
            /\ gw[call[n].g] = "serving"
            /\ \A m \in Calls : Waits(call[n].g, m) => m = n
  BY <1>1, UnderWay
<1>3. k \in Key
  BY <1>2 DEF FullCall, Key, UInv, TypeOK
<1> HIDE DEF k
<1>4. /\ c \in FullCall
      /\ c.st = "assign" /\ c.g = call[n].g /\ c.key = k
      /\ c.frame = call[n].frame /\ c.up = call[n].up
  BY <1>2, <1>3 DEF FullCall, Running
<1> HIDE DEF c
<1>5. call[n].up = NoFid
  BY <1>1, <1>2 DEF CallOK
<1>6. CallOK(n, c, object_fid_map')
  BY <1>1, <1>2, <1>3, <1>4, <1>5 DEF CallOK, Running
<1>7. object_fid_map \in [Key -> Fid]
  BY DEF UInv, TypeOK
<1>8. /\ c.st \notin {"done", "replied"} /\ call[n].st \notin Ended
  BY <1>1, <1>4 DEF Ended
<1>. QED  BY <1>1, <1>2, <1>4, <1>5, <1>6, <1>7, <1>8, CallMoves

LEMMA AssignKeeps ==
    ASSUME UInv, NEW n \in Calls, NEW r \in HttpGet, Assign(n, r)
    PROVE  UInv'
<1> DEFINE fid == Extracted(n, r)
           st == IF fid = NoFid THEN "lookup" ELSE "insert"
           c == [call[n] EXCEPT !.st = st, !.up = fid]
<1>1. /\ call[n].st = "assign"
      /\ call' = [call EXCEPT ![n] = c]
      /\ UNCHANGED <<logic, gw, push, clock>> /\ object_fid_map' = object_fid_map
  BY DEF Assign, Update
<1>2. /\ call[n] \in FullCall /\ CallOK(n, call[n], object_fid_map)
      /\ (call[n].st \notin Ended /\ call[n].g \in Gateways) =>
            /\ gw[call[n].g] = "serving"
            /\ \A m \in Calls : Waits(call[n].g, m) => m = n
  BY <1>1, UnderWay
<1>3. fid \in {NoFid, CutFid, n} /\ fid \in Fid
  BY DEF Extracted, HttpGet, Fid
<1> HIDE DEF fid
<1>4. /\ st \in {"lookup", "insert"}
      /\ st = "insert" => fid # NoFid
      /\ st = "lookup" => fid = NoFid
  OBVIOUS
<1> HIDE DEF st
<1>5. /\ c \in FullCall
      /\ c.st = st /\ c.g = call[n].g /\ c.key = call[n].key
      /\ c.frame = call[n].frame /\ c.up = fid
  BY <1>2, <1>3, <1>4 DEF FullCall, Running
<1> HIDE DEF c
<1>6. call[n].up = NoFid
  BY <1>1, <1>2 DEF CallOK
<1>7. CallOK(n, c, object_fid_map')
  BY <1>1, <1>2, <1>3, <1>4, <1>5 DEF CallOK, Running
<1>8. object_fid_map \in [Key -> Fid] /\ logic = "up"
  BY <1>1 DEF UInv, TypeOK, CallsOwned, Running
<1>9. /\ c.st \notin {"done", "replied"} /\ call[n].st \notin Ended
  BY <1>1, <1>4, <1>5 DEF Ended
<1>. QED  BY <1>1, <1>2, <1>5, <1>6, <1>7, <1>8, <1>9, CallMoves

(* The entry of a key is overwritten, never removed.                       *)
LEMMA InsertKeeps ==
    ASSUME UInv, NEW n \in Calls, Insert(n)
    PROVE  UInv'
<1> DEFINE c == [call[n] EXCEPT !.st = "lookup"]
<1>1. /\ call[n].st = "insert"
      /\ call' = [call EXCEPT ![n] = c]
      /\ UNCHANGED <<logic, gw, push, clock>>
      /\ object_fid_map' = [object_fid_map EXCEPT ![call[n].key] = call[n].up]
  BY DEF Insert, Update
<1>2. /\ call[n] \in FullCall /\ CallOK(n, call[n], object_fid_map)
      /\ (call[n].st \notin Ended /\ call[n].g \in Gateways) =>
            /\ gw[call[n].g] = "serving"
            /\ \A m \in Calls : Waits(call[n].g, m) => m = n
  BY <1>1, UnderWay
<1>3. /\ c \in FullCall
      /\ c.st = "lookup" /\ c.g = call[n].g /\ c.key = call[n].key
      /\ c.frame = call[n].frame /\ c.up = call[n].up
  BY <1>2 DEF FullCall, Running
<1> HIDE DEF c
<1>4. c.key \in Key /\ c.up # NoFid /\ c.up \in Fid
  BY <1>1, <1>2, <1>3 DEF CallOK, Running, FullCall
<1>5. object_fid_map \in [Key -> Fid] /\ logic = "up"
  BY <1>1 DEF UInv, TypeOK, CallsOwned, Running
<1>6. /\ object_fid_map' \in [Key -> Fid]
      /\ object_fid_map'[c.key] = c.up
      /\ \A k \in Key : k # c.key => object_fid_map'[k] = object_fid_map[k]
  BY <1>1, <1>3, <1>4, <1>5
<1>7. CallOK(n, c, object_fid_map')
  BY <1>1, <1>2, <1>3, <1>4, <1>6 DEF CallOK, Running
<1>8. /\ c.st \notin {"done", "replied"} /\ call[n].st \notin Ended
  BY <1>1, <1>3 DEF Ended
<1>9. /\ \A k \in Key : object_fid_map[k] # NoFid => object_fid_map'[k] # NoFid
      /\ \A k \in Key : \/ object_fid_map'[k] = object_fid_map[k]
                        \/ c.key = k /\ c.up = object_fid_map'[k]
  BY <1>4, <1>6
<1>. QED  BY <1>1, <1>2, <1>3, <1>5, <1>6, <1>7, <1>8, <1>9, CallMoves

(* What is read from the map was assigned for the key.                     *)
LEMMA LookupKeeps ==
    ASSUME UInv, NEW n \in Calls, Lookup(n)
    PROVE  UInv'
<1> DEFINE fid == object_fid_map[call[n].key]
           c == [call[n] EXCEPT !.st = "done", !.down = fid]
<1>1. /\ call[n].st = "lookup"
      /\ call' = [call EXCEPT ![n] = c]
      /\ UNCHANGED <<logic, gw, push, clock>> /\ object_fid_map' = object_fid_map
  BY DEF Lookup, Update
<1>2. /\ call[n] \in FullCall /\ CallOK(n, call[n], object_fid_map)
      /\ (call[n].st \notin Ended /\ call[n].g \in Gateways) =>
            /\ gw[call[n].g] = "serving"
            /\ \A m \in Calls : Waits(call[n].g, m) => m = n
  BY <1>1, UnderWay
<1>3. object_fid_map \in [Key -> Fid] /\ logic = "up"
  BY <1>1 DEF UInv, TypeOK, CallsOwned, Running
<1>4. call[n].key \in Key /\ (call[n].up # NoFid => fid # NoFid)
  BY <1>1, <1>2 DEF CallOK, Running
<1>5. fid \in Fid /\ (fid # NoFid => Holder(call, call[n].key, fid))
  BY <1>3, <1>4 DEF UInv, MapOK
<1> HIDE DEF fid
<1>6. /\ c \in FullCall
      /\ c.st = "done" /\ c.g = call[n].g /\ c.key = call[n].key
      /\ c.frame = call[n].frame /\ c.up = call[n].up /\ c.down = fid
  BY <1>2, <1>5 DEF FullCall, Running
<1> HIDE DEF c
<1>7. CallOK(n, c, object_fid_map')
  BY <1>1, <1>2, <1>4, <1>6 DEF CallOK, Running
<1>8. call[n].st \notin Ended
  BY <1>1 DEF Ended
<1>. QED  BY <1>1, <1>2, <1>3, <1>5, <1>6, <1>7, <1>8, CallMoves

LEMMA ReplyKeeps ==
    ASSUME UInv, NEW n \in Calls, Reply(n)
    PROVE  UInv'
<1> DEFINE b == ReplyBytes(call[n])
           c == [call[n] EXCEPT !.st = "replied", !.g = NoGateway, !.reply = b]
<1>1. /\ call[n].st = "done"
      /\ call' = [call EXCEPT ![n] = c]
      /\ UNCHANGED <<logic, gw, push, clock>> /\ object_fid_map' = object_fid_map
  BY DEF Reply, Update, ReplyBytes, Success
<1>2. /\ call[n] \in FullCall /\ CallOK(n, call[n], object_fid_map)
  BY <1>1, UnderWay
<1>3. b \in Seq(Nat)
  BY <1>2, ReplyParts
<1> HIDE DEF b
<1>4. /\ c \in FullCall
      /\ c.st = "replied" /\ c.key = call[n].key /\ c.reply = b
      /\ c.frame = call[n].frame /\ c.up = call[n].up /\ c.down = call[n].down
  BY <1>2, <1>3 DEF FullCall, Running
<1> HIDE DEF c
<1>5. c.reply = ReplyBytes(c)
  BY <1>4 DEF b, ReplyBytes
<1>6. CallOK(n, c, object_fid_map')
  BY <1>1, <1>2, <1>4, <1>5 DEF CallOK, Running
<1>7. object_fid_map \in [Key -> Fid]
  BY DEF UInv, TypeOK
<1>8. c.st \notin Running /\ c.st \in Ended
  BY <1>4 DEF Running, Ended
<1>9. c.down # NoFid => Holder(call, c.key, c.down)
  BY <1>1, <1>4 DEF UInv, DownOK
<1>. QED  BY <1>1, <1>2, <1>4, <1>6, <1>7, <1>8, <1>9, CallMoves

LEMMA LostKeeps ==
    ASSUME UInv, NEW n \in Calls, CallLost(n)
    PROVE  UInv'
<1> DEFINE c == [call[n] EXCEPT !.st = "lost", !.g = NoGateway]
<1>1. /\ call[n].st \in {"failed", "recv", "done"}
      /\ call' = [call EXCEPT ![n] = c]
      /\ UNCHANGED <<logic, gw, push, clock>> /\ object_fid_map' = object_fid_map
  BY DEF CallLost, Update
<1>2. /\ call[n] \in FullCall /\ CallOK(n, call[n], object_fid_map)
  BY <1>1, UnderWay
<1>3. /\ c \in FullCall
      /\ c.st = "lost" /\ c.key = call[n].key
      /\ c.frame = call[n].frame /\ c.up = call[n].up
  BY <1>2 DEF FullCall, Running
<1> HIDE DEF c
<1>4. CallOK(n, c, object_fid_map')
  BY <1>1, <1>2, <1>3 DEF CallOK, Running
<1>5. object_fid_map \in [Key -> Fid]
  BY DEF UInv, TypeOK
<1>6. /\ c.st \notin Running /\ c.st \in Ended
      /\ c.st \notin {"done", "replied"}
  BY <1>3 DEF Running, Ended
<1>. QED  BY <1>1, <1>2, <1>3, <1>4, <1>5, <1>6, CallMoves

(* The process ends with all its handlers: nobody is left to read from the *)
(* map, which is empty when it starts again.                               *)
LEMMA LogicCrashKeeps ==
    ASSUME UInv, LogicCrash
    PROVE  UInv'
<1>1. /\ logic' = "down" /\ UNCHANGED <<gw, push, clock>>
      /\ call \in [Calls -> Call] /\ DOMAIN call' = Calls
      /\ object_fid_map' = [k \in Key |-> NoFid]
  BY DEF LogicCrash, UInv, TypeOK
<1>2. ASSUME NEW n \in Calls
      PROVE  /\ call[n] = NoCall => call'[n] = NoCall
             /\ call[n] # NoCall =>
                  /\ call'[n] \in FullCall
                  /\ call'[n].st = IF call[n].st \in Running
                                   THEN "failed" ELSE call[n].st
                  /\ call'[n].g = call[n].g /\ call'[n].frame = call[n].frame
                  /\ call'[n].key = call[n].key /\ call'[n].up = call[n].up
                  /\ call'[n].down = call[n].down
                  /\ call'[n].reply = call[n].reply
  <2>1. call'[n] = IF call[n].st \in Running
                   THEN [call[n] EXCEPT !.st = "failed"] ELSE call[n]
    BY DEF LogicCrash
  <2>2. call[n] = NoCall => call[n].st \notin Running
    BY CallParts DEF Running
  <2>3. call[n] # NoCall => call[n] \in FullCall
    BY <1>1, CallParts
  <2>. QED  BY <2>1, <2>2, <2>3 DEF FullCall
<1>3. ASSUME NEW n \in Calls
      PROVE  /\ call'[n].st \notin Running
             /\ call'[n].st = "none" <=> call[n].st = "none"
             /\ call'[n].st # "none" <=> call[n] # NoCall
             /\ call'[n].st \in Ended <=> call[n].st \in Ended
             /\ call'[n].st \in {"recv", "assign", "replied"} =>
                  call'[n].st = call[n].st
  BY <1>1, <1>2, CallParts DEF Running, Ended
<1>4. TypeOK'
  <2>1. \A n \in Calls : call'[n] \in Call
    BY <1>2, CallParts
  <2>2. call' = [n \in Calls |-> call'[n]]
    BY DEF LogicCrash
  <2>3. call' \in [Calls -> Call]
    BY <2>1, <2>2
  <2>. QED  BY <1>1, <2>3 DEF UInv, TypeOK, StartTypeOK, Fid
<1>5. CallsOwned'
  <2>1. \A g \in Gateways, n \in Calls : Waits(g, n)' <=> Waits(g, n)
    BY <1>2, <1>3, CallParts DEF Waits, Ended
  <2>. QED  BY <1>1, <1>3, <2>1 DEF UInv, CallsOwned
<1>6. ASSUME NEW n \in Calls PROVE CallOK(n, call'[n], object_fid_map')
  <2> SUFFICES ASSUME call'[n].st # "none" PROVE CallOK(n, call'[n], object_fid_map')
    BY DEF CallOK
  <2>1. CallOK(n, call[n], object_fid_map) /\ call[n] # NoCall /\ call[n].st # "none"
    BY <1>3 DEF UInv
  <2>2. ReplyBytes(call'[n]) = ReplyBytes(call[n])
    BY <1>2, <2>1 DEF ReplyBytes
  <2>. QED  BY <1>2, <1>3, <2>1, <2>2 DEF CallOK, Running
<1>7. MapOK'
  BY <1>1 DEF MapOK
<1>8. DownOK'
  <2> SUFFICES ASSUME NEW n \in Calls, call'[n].st \in {"done", "replied"},
                      call'[n].down # NoFid
               PROVE  Holder(call', call'[n].key, call'[n].down)
    BY DEF DownOK
  <2>1. /\ call[n].st = "replied" /\ call[n] # NoCall
        /\ call'[n].key = call[n].key /\ call'[n].down = call[n].down
    BY <1>2, <1>3 DEF Running
  <2>2. PICK m \in Calls : /\ call[m].st # "none" /\ call[m].key = call[n].key
                           /\ call[m].up = call[n].down
    BY <2>1 DEF UInv, DownOK, Holder
  <2>3. call'[m].st # "none" /\ call'[m].key = call[n].key
        /\ call'[m].up = call[n].down
    BY <1>2, <1>3, <2>2
  <2>. QED  BY <2>1, <2>3 DEF Holder
<1>. QED  BY <1>4, <1>5, <1>6, <1>7, <1>8 DEF UInv

(* A gateway goes down: the calls keep all but the one who waits.          *)
LEMMA GatewayGoneKeeps ==
    ASSUME UInv, NEW g \in Gateways, GatewayGone(g)
    PROVE  UInv'
<1>1. /\ gw' = [gw EXCEPT ![g] = "down"] /\ push' = [push EXCEPT ![g] = "none"]
      /\ logic' = logic /\ clock' = clock /\ object_fid_map' = object_fid_map
      /\ call \in [Calls -> Call] /\ DOMAIN call' = Calls
      /\ gw \in [Gateways -> {"down", "loading", "loaded", "serving"}]
  BY DEF GatewayGone, Orphan, GatewayLoadFails, ListenFails, PushFails, GatewayKilled,
     GatewayDown, UInv, TypeOK, StartTypeOK
<1>2. ASSUME NEW n \in Calls
      PROVE  /\ call[n] = NoCall => call'[n] = NoCall
             /\ call[n] # NoCall =>
                  /\ call'[n] \in FullCall /\ call'[n].st = call[n].st
                  /\ call'[n].g = IF Waits(g, n) THEN NoGateway ELSE call[n].g
                  /\ call'[n].frame = call[n].frame
                  /\ call'[n].key = call[n].key /\ call'[n].up = call[n].up
                  /\ call'[n].down = call[n].down
                  /\ call'[n].reply = call[n].reply
             /\ call'[n].st = call[n].st
             /\ call'[n].st # "none" => call[n] # NoCall
  <2>1. call'[n] = IF Waits(g, n) THEN [call[n] EXCEPT !.g = NoGateway] ELSE call[n]
    BY DEF GatewayGone, Orphan
  <2>2. call[n] = NoCall => ~Waits(g, n) /\ call[n].st = "none"
    BY CallParts DEF Waits, Ended
  <2>3. call[n] # NoCall => call[n] \in FullCall
    BY <1>1, CallParts
  <2>4. CASE call[n] = NoCall
    BY <2>1, <2>2, <2>4
  <2>5. CASE call[n] # NoCall
    BY <2>1, <2>3, <2>5 DEF FullCall
  <2>. QED  BY <2>4, <2>5
<1>3. TypeOK'
  <2>1. \A n \in Calls : call'[n] \in Call
    BY <1>2, CallParts
  <2>2. call' = [n \in Calls |-> call'[n]]
    BY DEF GatewayGone, Orphan
  <2>3. call' \in [Calls -> Call]
    BY <2>1, <2>2
  <2>. QED  BY <1>1, <2>3 DEF UInv, TypeOK, StartTypeOK
<1>4. CallsOwned'
  <2>1. ASSUME NEW q \in Gateways, NEW n \in Calls, Waits(q, n)'
        PROVE  q # g /\ Waits(q, n)
    BY <1>2, <2>1, CallParts, UploadsAssumption DEF Waits, Ended
  <2>2. ASSUME NEW q \in Gateways, NEW n \in Calls, Waits(q, n)'
        PROVE  /\ gw'[q] = "serving" /\ \A m \in Calls : Waits(q, m)' => m = n
    BY <1>1, <2>1, <2>2 DEF UInv, CallsOwned
  <2>. QED  BY <1>1, <1>2, <2>2 DEF UInv, CallsOwned
<1>5. ASSUME NEW n \in Calls PROVE CallOK(n, call'[n], object_fid_map')
  <2> SUFFICES ASSUME call'[n].st # "none" PROVE CallOK(n, call'[n], object_fid_map')
    BY DEF CallOK
  <2>1. CallOK(n, call[n], object_fid_map) /\ call[n] # NoCall
    BY <1>2 DEF UInv
  <2>2. ReplyBytes(call'[n]) = ReplyBytes(call[n])
    BY <1>2, <2>1 DEF ReplyBytes
  <2>. QED  BY <1>1, <1>2, <2>1, <2>2 DEF CallOK
<1>6. ASSUME NEW k, NEW f, Holder(call, k, f) PROVE Holder(call', k, f)
  BY <1>2, <1>6, CallParts DEF Holder
<1>7. MapOK'
  BY <1>1, <1>6 DEF UInv, MapOK
<1>8. DownOK'
  BY <1>2, <1>6, CallParts DEF UInv, DownOK
<1>. QED  BY <1>3, <1>4, <1>5, <1>7, <1>8 DEF UInv

(* Starting and the clock leave the calls alone; no process that serves a  *)
(* call starts.                                                            *)
LEMMA StartKeeps ==
    ASSUME UInv, Start \/ Tick \/ UNCHANGED vars
    PROVE  UInv'
<1>1. /\ call' = call /\ object_fid_map' = object_fid_map
      /\ clock' \in 0..MaxTick
      /\ logic = "up" => logic' = "up"
      /\ \A g \in Gateways : gw[g] = "serving" => gw'[g] = "serving"
      /\ StartTypeOK'
  <2>1. CASE Start
    BY <2>1 DEF Start, uploadVars, UInv, TypeOK, StartTypeOK, LogicBegin,
       LogicLoad, LogicLoadFails, LogicCheck, LogicServe, LogicStartFails,
       GatewayBegin, GatewayLoad, Listen, PushListens
  <2>2. CASE Tick
    BY <2>2, UploadsAssumption DEF Tick, UInv, TypeOK, StartTypeOK
  <2>3. CASE UNCHANGED vars
    BY <2>3 DEF vars, uploadVars, UInv, TypeOK, StartTypeOK
  <2>. QED  BY <2>1, <2>2, <2>3
<1>2. TypeOK'
  BY <1>1 DEF UInv, TypeOK
<1>3. CallsOwned'
  BY <1>1 DEF UInv, CallsOwned, Waits
<1>4. \A n \in Calls : CallOK(n, call'[n], object_fid_map')
  BY <1>1 DEF UInv
<1>5. MapOK' /\ DownOK'
  BY <1>1 DEF UInv, MapOK, DownOK
<1>. QED  BY <1>2, <1>3, <1>4, <1>5 DEF UInv

-----------------------------------------------------------------------------
LEMMA UInvStep ==
    ASSUME UInv, Next \/ UNCHANGED vars
    PROVE  UInv'
BY StartKeeps, GatewayGoneKeeps, LogicCrashKeeps, RecvKeeps, MakeKeyKeeps,
   InsertKeeps, LookupKeeps, ReplyKeeps, LostKeeps, AssignKeeps DEF Next

(* UInv holds in every state, whatever the interleaving of the handlers,   *)
(* the ends of the processes and the answers of the storage.               *)
THEOREM UploadsInvariant == Spec => []UInv
<1>1. Init => UInv
  <2> SUFFICES ASSUME Init PROVE UInv
    OBVIOUS
  <2>1. \A n \in Calls : call[n] = NoCall /\ call[n].st = "none"
    BY CallParts DEF Init
  <2>2. TypeOK
    BY CallParts, UploadsAssumption DEF Init, StartInit, TypeOK, StartTypeOK, Fid
  <2>3. CallsOwned
    BY <2>1 DEF CallsOwned, Waits, Running, Ended
  <2>4. \A n \in Calls : CallOK(n, call[n], object_fid_map)
    BY <2>1 DEF CallOK
  <2>5. MapOK /\ DownOK
    BY <2>1 DEF Init, MapOK, DownOK
  <2>. QED  BY <2>2, <2>3, <2>4, <2>5 DEF UInv
<1>2. UInv /\ [Next]_vars => UInv'
  BY UInvStep
<1>. QED  BY <1>1, <1>2, PTL DEF Spec

(* TypeOK: calls, map, clock and phases keep their types.                  *)
THEOREM UploadsTypeCorrect == Spec => []TypeOK
<1>1. UInv => TypeOK
  BY DEF UInv
<1>. QED  BY <1>1, UploadsInvariant, PTL

(* PairUnlessClash: a reply after a successful assign has both URLs, of    *)
(* files assigned for its object key, and of the same file unless another  *)
(* call has the key (logic_server/main.cc:179-193).                        *)
THEOREM UrlsPair == Spec => []PairUnlessClash
<1>1. UInv => PairUnlessClash
  <2> SUFFICES ASSUME UInv, NEW n \in Replied, call[n].up # NoFid
               PROVE  LET same == {m \in Calls : /\ call[m] # NoCall
                                                 /\ call[m].key = call[n].key} IN
                      /\ Success(n)
                      /\ \E m \in same : call[m].up = call[n].down
                      /\ same = {n} => call[n].up = call[n].down
    BY DEF PairUnlessClash
  <2>1. n \in Calls /\ call[n].st = "replied"
    BY DEF Replied
  <2>2. call[n].down # NoFid
    BY <2>1 DEF UInv, CallOK
  <2>3. PICK m \in Calls : /\ call[m].st # "none" /\ call[m].key = call[n].key
                           /\ call[m].up = call[n].down
    BY <2>1, <2>2 DEF UInv, DownOK, Holder
  <2>4. call[m] # NoCall
    BY <2>3, CallParts
  <2>. QED  BY <2>2, <2>3, <2>4 DEF Success
<1>. QED  BY <1>1, UploadsInvariant, PTL

(* FidNotShared: two replies never name the same file to upload to, except *)
(* for the beginning of a file id out of a response that was cut           *)
(* (s3_client.h, ExtractJsonValue).                                        *)
THEOREM UploadsApart == Spec => []FidNotShared
<1>1. UInv => FidNotShared
  <2> SUFFICES ASSUME UInv, NEW n \in Replied, NEW m \in Replied, n # m,
                      Success(n), call[n].up = call[m].up
               PROVE  call[n].up = CutFid
    BY DEF FidNotShared
  <2>1. /\ n \in Calls /\ m \in Calls
        /\ call[n].up \in {NoFid, CutFid, n} /\ call[m].up \in {NoFid, CutFid, m}
    BY DEF Replied, UInv, CallOK
  <2>2. call[n].up # NoFid
    BY DEF Success
  <2>3. n # CutFid /\ m # CutFid /\ n # NoFid /\ m # NoFid
    BY <2>1 DEF Calls, CutFid, NoFid
  <2>. QED  BY <2>1, <2>2, <2>3
<1>. QED  BY <1>1, UploadsInvariant, PTL

(* ReplyMatches: the bytes of a reply decode to the sequence number and    *)
(* version of the request, command 0x1009 and the true length, for bytes   *)
(* of any width (gateway/main.cc:260-272).                                 *)
THEOREM RepliesMatch == Spec => []ReplyMatches
<1>1. UInv => ReplyMatches
  <2> SUFFICES ASSUME UInv, NEW n \in Replied
               PROVE  LET h == DecodeHeader(call[n].reply)
                          req == DecodeHeader(call[n].frame.head) IN
                      /\ Len(call[n].reply) = HEADER_LEN
                      /\ h.seq_id = req.seq_id /\ h.version = req.version
                      /\ h.cmd_id = GetUploadUrlRes
                      /\ h.length = HEADER_LEN + BodySize[Success(n)]
    BY DEF ReplyMatches
  <2>1. n \in Calls /\ call[n].st = "replied"
    BY DEF Replied
  <2>2. call[n] \in FullCall /\ call[n].reply = ReplyBytes(call[n])
    BY <2>1, UnderWay DEF CallOK
  <2>3. Success(n) = (call[n].up # NoFid /\ call[n].down # NoFid)
    BY DEF Success
  <2>. QED  BY <2>2, <2>3, ReplyParts
<1>. QED  BY <1>1, UploadsInvariant, PTL

(* LengthCheckExact: every request comes from a frame at least as long as  *)
(* its header says, the wrapping check is exact, and the login command     *)
(* parses its own body, for every header (gateway/main.cc:136, 246).       *)
THEOREM FramesAreWhole == Spec => []LengthCheckExact
<1>1. UInv => LengthCheckExact
  <2> SUFFICES ASSUME UInv PROVE LengthCheckExact
    OBVIOUS
  <2>1. ASSUME NEW n \in Calls, call[n] # NoCall
        PROVE  call[n].frame.len >= DecodeHeader(call[n].frame.head).length
    <3>1. call[n].st # "none"
      BY <2>1, CallParts DEF UInv, TypeOK
    <3>. QED  BY <3>1 DEF UInv, CallOK
  <2>2. ASSUME NEW f \in Frames
        PROVE  LET h == DecodeHeader(f.head) IN
               /\ LengthCheck(f.len, h) <=> f.len >= h.length
               /\ f.len = h.length => LoginParseSize(h) = f.len - HEADER_LEN
    <3> DEFINE h == DecodeHeader(f.head)
    <3>1. h \in PacketHeader /\ f.len \in Nat /\ f.len < U32 \div 2
      BY FrameParts
    <3>. HIDE DEF h
    <3>2. LengthCheck(f.len, h) <=> f.len >= h.length
      BY <3>1, LengthChecksExact
    <3>3. f.len = h.length => LoginParseSize(h) = f.len - HEADER_LEN
      <4>1. h.length \in Nat
        BY <3>1 DEF PacketHeader
      <4>2. CASE h.length < HEADER_LEN
        BY <3>1, <4>2, LoginParsesShort
      <4>3. CASE h.length >= HEADER_LEN
        BY <3>1, <4>3, LoginParsesBody
      <4>. QED  BY <4>1, <4>2, <4>3 DEF HEADER_LEN
    <3>. QED  BY <3>2, <3>3 DEF h
  <2>. QED  BY <2>1, <2>2 DEF LengthCheckExact
<1>. QED  BY <1>1, UploadsInvariant, PTL

=============================================================================
