------------------------------- MODULE Packet -------------------------------
(***************************************************************************)
(* The packet header (gateway/packet.h) and the length arithmetic of the   *)
(* message handler of the gateway.  A packet is a header and a protobuf    *)
(* body, of which only the size is kept.                                   *)
(*                                                                         *)
(* ByteBase is 256 in the code; a smaller base keeps the 64-bit values of  *)
(* a TLC run within its integers.                                          *)
(***************************************************************************)
EXTENDS Integers, Sequences

CONSTANTS
    ByteBase,   \* number of values of a byte
    Cmd0        \* command 0x1000

U16 == ByteBase * ByteBase
U32 == U16 * U16
U64 == U32 * U32

ASSUME PacketAssumption ==
    /\ ByteBase \in Nat /\ ByteBase >= 4
    /\ Cmd0 \in Nat /\ Cmd0 + 9 < U16

HEADER_LEN == 12

PacketHeader ==
    [length : 0..U32 - 1, version : 0..U16 - 1,
     cmd_id : 0..U16 - 1, seq_id : 0..U32 - 1]

GetUploadUrlReq == Cmd0 + 8
GetUploadUrlRes == Cmd0 + 9

-----------------------------------------------------------------------------
(* Network byte order, from an integer and to an integer.                  *)
htons(v) == <<v \div ByteBase, v % ByteBase>>
htonl(v) == htons(v \div U16) \o htons(v % U16)
ntohs(b, at) == b[at + 1] * ByteBase + b[at + 2]
ntohl(b, at) == ntohs(b, at) * U16 + ntohs(b, at + 2)

(* Faulty variant of EncodeHeader: the sequence number is left in host     *)
(* order.                                                                  *)
EncodeHeaderHostSeq(h) ==
    LET seq == htonl(h.seq_id) IN
    htonl(h.length) \o htons(h.version) \o htons(h.cmd_id)
        \o <<seq[4], seq[3], seq[2], seq[1]>>

EncodeHeader(h) ==
    htonl(h.length) \o htons(h.version) \o htons(h.cmd_id) \o htonl(h.seq_id)

DecodeHeader(b) ==
    [length |-> ntohl(b, 0), version |-> ntohs(b, 4),
     cmd_id |-> ntohs(b, 6), seq_id |-> ntohl(b, 8)]

(* The header of a reply with a body of this size to request header h: the *)
(* length is cut to 32 bits.                                               *)
ReplyHeader(h, cmd, body) ==
    [length |-> (HEADER_LEN + body) % U32, version |-> h.version,
     cmd_id |-> cmd, seq_id |-> h.seq_id]

(* Faulty variant of LengthCheck: HEADER_LEN is brought to the other side. *)
LengthCheckMoved(len, h) == len - HEADER_LEN >= (h.length - HEADER_LEN) % U64

(* message.length() >= HEADER_LEN + (header.length - HEADER_LEN), computed *)
(* in size_t, where the subtraction wraps around for a length below 12.    *)
LengthCheck(len, h) ==
    len >= (HEADER_LEN + ((h.length - HEADER_LEN) % U64)) % U64

(* A size_t as the int parameter of ParseFromArray.                        *)
ToInt(n) ==
    LET w == n % U32 IN IF w < U32 \div 2 THEN w ELSE w - U32

(* The size the login command hands to ParseFromArray, from the header     *)
(* alone; the other commands hand it the size of the frame less 12.        *)
LoginParseSize(h) == ToInt((h.length - HEADER_LEN) % U64)

=============================================================================
