---------------------------- MODULE PacketProofs ----------------------------
(***************************************************************************)
(* Proofs about the packet header, for every size of a byte; in particular *)
(* for the 32- and 64-bit integers of the code, which are out of reach of  *)
(* a TLC run.                                                              *)
(***************************************************************************)
EXTENDS Packet, TLAPS, SequenceTheorems

-----------------------------------------------------------------------------
(* The moduli are positive integers.                                       *)
LEMMA Widths ==
    /\ ByteBase \in Nat /\ ByteBase >= 4
    /\ U16 \in Nat /\ U16 >= 16
    /\ U32 \in Nat /\ U32 >= 256
    /\ U64 \in Nat /\ U64 >= 65536 /\ U64 >= 256 * U32
<1>1. ByteBase \in Nat /\ ByteBase >= 4
  BY PacketAssumption
<1>2. \A a, b, n, m \in Nat : a >= n /\ b >= m => a * b \in Nat /\ a * b >= n * m
  <2> TAKE a, b, n, m \in Nat
  <2> HAVE a >= n /\ b >= m
  <2>1. a * b >= n * b
    OBVIOUS
  <2>2. n * b >= n * m
    OBVIOUS
  <2>. QED  BY <2>1, <2>2
<1>3. U16 \in Nat /\ U16 >= 4 * 4
  BY <1>1, <1>2 DEF U16
<1>4. U32 \in Nat /\ U32 >= 16 * 16
  BY <1>2, <1>3 DEF U32
<1>5. U64 \in Nat /\ U64 >= 256 * 256
  BY <1>2, <1>4 DEF U64
<1>6. U64 >= 256 * U32
  BY <1>4 DEF U64
<1>. QED  BY <1>1, <1>3, <1>4, <1>5, <1>6

(* Quotient and remainder.                                                 *)
LEMMA DivMod ==
    ASSUME NEW v \in Int, NEW d \in Nat, d > 0
    PROVE  /\ v \div d \in Int /\ v % d \in 0..d - 1
           /\ ((v \div d) * d) + (v % d) = v
OBVIOUS

(* A remainder is determined by its range and a quotient.                  *)
LEMMA ModUnique ==
    ASSUME NEW v \in Int, NEW d \in Nat, d > 0,
           NEW q \in Int, NEW r \in 0..d - 1, v = q * d + r
    PROVE  v % d = r
<1> DEFINE p == v \div d
           s == v % d
<1>1. p \in Int /\ s \in 0..d - 1 /\ p * d + s = v
  BY DivMod
<1>2. (p - q) * d = r - s
  BY <1>1
<1>3. r - s < d /\ r - s > -d
  BY <1>1
<1> HIDE DEF p, s
<1>4. p - q = 0
  <2>1. p - q >= 1 => (p - q) * d >= d
    BY <1>1
  <2>2. p - q <= -1 => (p - q) * d <= -d
    BY <1>1
  <2>. QED  BY <1>1, <1>2, <1>3, <2>1, <2>2
<1>5. r = s
  BY <1>1, <1>2, <1>4
<1>. QED  BY <1>5 DEF s

(* Reducing a number that is in range, or one that has left it downwards.  *)
LEMMA ModSmall ==
    ASSUME NEW d \in Nat, d > 0, NEW r \in 0..d - 1
    PROVE  r % d = r /\ (r - d) % d = r
<1>1. r % d = r
  <2>1. r = 0 * d + r
    OBVIOUS
  <2>. QED  BY <2>1, ModUnique
<1>2. (r - d) % d = r
  <2>1. r - d = (-1) * d + r
    OBVIOUS
  <2>2. r - d \in Int /\ -1 \in Int
    OBVIOUS
  <2>. QED  BY <2>1, <2>2, ModUnique
<1>. QED  BY <1>1, <1>2

-----------------------------------------------------------------------------
(* The bytes of a 16-bit and of a 32-bit integer are bytes.                *)
LEMMA DivRange ==
    ASSUME NEW a \in Nat, a > 0, NEW b \in Nat, NEW v \in 0..(a * b) - 1
    PROVE  v \div a \in 0..b - 1
<1> DEFINE q == v \div a
           r == v % a
<1>1. q \in Int /\ r \in 0..a - 1 /\ (q * a) + r = v /\ a * b \in Nat
  BY DivMod
<1> HIDE DEF q, r
<1>2. q >= 0
  <2>1. q <= -1 => q * a <= -a
    BY <1>1
  <2>. QED  BY <1>1, <2>1
<1>3. q < b
  <2>1. q >= b => q * a >= a * b
    BY <1>1
  <2>. QED  BY <1>1, <2>1
<1>. QED  BY <1>1, <1>2, <1>3 DEF q

Bytes == 0..ByteBase - 1

Cat(s, t) == s \o t

(* Two runs of bytes put one after the other, and what stands where.       *)
LEMMA Joined ==
    ASSUME NEW s \in Seq(Bytes), NEW t \in Seq(Bytes)
    PROVE  /\ Cat(s, t) \in Seq(Bytes)
           /\ Len(Cat(s, t)) = Len(s) + Len(t)
           /\ \A i \in 1..Len(s) : Cat(s, t)[i] = s[i]
           /\ \A i \in 1..Len(t) : Cat(s, t)[Len(s) + i] = t[i]
<1>1. /\ Cat(s, t) \in Seq(Bytes)
      /\ Len(Cat(s, t)) = Len(s) + Len(t)
      /\ \A i \in 1..Len(s) + Len(t) :
            Cat(s, t)[i] = IF i <= Len(s) THEN s[i] ELSE t[i - Len(s)]
  BY ConcatProperties, Zenon DEF Cat
<1>2. Len(s) \in Nat /\ Len(t) \in Nat
  OBVIOUS
<1>3. ASSUME NEW i \in 1..Len(t)
      PROVE  Cat(s, t)[Len(s) + i] = t[i]
  <2>1. /\ Len(s) + i \in 1..Len(s) + Len(t) /\ ~(Len(s) + i <= Len(s))
        /\ (Len(s) + i) - Len(s) = i
    BY <1>2
  <2>. QED  BY <1>1, <2>1
<1>4. ASSUME NEW i \in 1..Len(s)
      PROVE  Cat(s, t)[i] = s[i]
  <2>1. i \in 1..Len(s) + Len(t) /\ i <= Len(s)
    BY <1>2
  <2>. QED  BY <1>1, <2>1
<1>. QED  BY <1>1, <1>3, <1>4

(* htons gives two bytes.                                                  *)
LEMMA Htons ==
    ASSUME NEW v \in 0..U16 - 1
    PROVE  htons(v) \in Seq(Bytes) /\ Len(htons(v)) = 2
<1>1. v \div ByteBase \in Bytes
  BY DivRange, Widths DEF U16, Bytes
<1>2. v % ByteBase \in Bytes
  BY DivMod, Widths DEF Bytes
<1>. QED  BY <1>1, <1>2 DEF htons

(* htonl writes the high half, then the low half.                          *)
LEMMA Htonl ==
    ASSUME NEW v \in 0..U32 - 1
    PROVE  /\ htonl(v) \in Seq(Bytes) /\ Len(htonl(v)) = 4
           /\ \A i \in 1..2 : htonl(v)[i] = htons(v \div U16)[i]
           /\ \A i \in 1..2 : htonl(v)[2 + i] = htons(v % U16)[i]
<1> DEFINE hi == htons(v \div U16)
           lo == htons(v % U16)
<1>1. v \div U16 \in 0..U16 - 1
  BY DivRange, Widths DEF U32
<1>2. v % U16 \in 0..U16 - 1
  BY DivMod, Widths
<1>3. hi \in Seq(Bytes) /\ Len(hi) = 2 /\ lo \in Seq(Bytes) /\ Len(lo) = 2
  BY <1>1, <1>2, Htons
<1> DEFINE all == Cat(hi, lo)
<1>4. htonl(v) = all
  BY DEF htonl, Cat
<1> HIDE DEF hi, lo
<1>5. /\ all \in Seq(Bytes) /\ Len(all) = Len(hi) + Len(lo)
      /\ \A i \in 1..Len(hi) : all[i] = hi[i]
      /\ \A i \in 1..Len(lo) : all[Len(hi) + i] = lo[i]
  BY <1>3, Joined, Zenon
<1> HIDE DEF all
<1>6. /\ all \in Seq(Bytes) /\ Len(all) = 4
      /\ \A i \in 1..2 : all[i] = hi[i]
      /\ \A i \in 1..2 : all[2 + i] = lo[i]
  BY <1>3, <1>5
<1>. QED  BY <1>4, <1>6, Zenon DEF hi, lo

(* Reading at an offset what was written there.                            *)
LEMMA NtohsAt ==
    ASSUME NEW v \in 0..U16 - 1, NEW b, NEW at \in Nat,
           b[at + 1] = htons(v)[1], b[at + 2] = htons(v)[2]
    PROVE  ntohs(b, at) = v
<1>1. ((v \div ByteBase) * ByteBase) + (v % ByteBase) = v
  BY DivMod, Widths
<1>. QED  BY <1>1 DEF ntohs, htons

(* ntohl reads back what htonl has written.                                *)
LEMMA NtohlAt ==
    ASSUME NEW v \in 0..U32 - 1, NEW b, NEW at \in Nat,
           \A i \in 1..4 : b[at + i] = htonl(v)[i]
    PROVE  ntohl(b, at) = v
<1> DEFINE hi == v \div U16
           lo == v % U16
<1>1. hi \in 0..U16 - 1 /\ lo \in 0..U16 - 1 /\ (hi * U16) + lo = v
  BY DivRange, DivMod, Widths DEF U32
<1> HIDE DEF hi, lo
<1>2. /\ b[at + 1] = htons(hi)[1] /\ b[at + 2] = htons(hi)[2]
      /\ b[at + 3] = htons(lo)[1] /\ b[at + 4] = htons(lo)[2]
  <2>1. /\ \A i \in 1..2 : htonl(v)[i] = htons(hi)[i]
        /\ \A i \in 1..2 : htonl(v)[2 + i] = htons(lo)[i]
    BY Htonl DEF hi, lo
  <2>. QED  BY <2>1
<1>3. ntohs(b, at) = hi
  BY <1>1, <1>2, NtohsAt
<1>4. ntohs(b, at + 2) = lo
  <2>1. b[(at + 2) + 1] = b[at + 3] /\ b[(at + 2) + 2] = b[at + 4]
    BY (at + 2) + 1 = at + 3, (at + 2) + 2 = at + 4
  <2>. QED  BY <1>1, <1>2, <2>1, NtohsAt
<1>. QED  BY <1>1, <1>3, <1>4 DEF ntohl

(* A header survives EncodeHeader and DecodeHeader (packet.h:19-37), and   *)
(* is written in twelve bytes: the fields are laid out without overlap and *)
(* read where they were written, for all values of their types.            *)
THEOREM CodecRoundTrip ==
    \A h \in PacketHeader :
        /\ EncodeHeader(h) \in Seq(Bytes)
        /\ Len(EncodeHeader(h)) = HEADER_LEN
        /\ DecodeHeader(EncodeHeader(h)) = h
<1> SUFFICES ASSUME NEW h \in PacketHeader
             PROVE  /\ EncodeHeader(h) \in Seq(Bytes)
                    /\ Len(EncodeHeader(h)) = HEADER_LEN
                    /\ DecodeHeader(EncodeHeader(h)) = h
  OBVIOUS
<1> DEFINE l == htonl(h.length)
           v == htons(h.version)
           c == htons(h.cmd_id)
           s == htonl(h.seq_id)
           b == EncodeHeader(h)
<1>1. /\ h.length \in 0..U32 - 1 /\ h.version \in 0..U16 - 1
      /\ h.cmd_id \in 0..U16 - 1 /\ h.seq_id \in 0..U32 - 1
  BY DEF PacketHeader
<1>2. /\ l \in Seq(Bytes) /\ Len(l) = 4 /\ v \in Seq(Bytes) /\ Len(v) = 2
      /\ c \in Seq(Bytes) /\ Len(c) = 2 /\ s \in Seq(Bytes) /\ Len(s) = 4
  BY <1>1, Htonl, Htons
<1>3. b = Cat(Cat(Cat(l, v), c), s)
  BY DEF EncodeHeader, Cat
<1> HIDE DEF l, v, c, s, b
<1> DEFINE lv == Cat(l, v)
           lvc == Cat(lv, c)
           all == Cat(lvc, s)
<1>4. /\ lv \in Seq(Bytes) /\ Len(lv) = 6
      /\ \A i \in 1..4 : lv[i] = l[i]
      /\ \A i \in 1..2 : lv[4 + i] = v[i]
  <2>1. /\ lv \in Seq(Bytes) /\ Len(lv) = Len(l) + Len(v)
        /\ \A i \in 1..Len(l) : lv[i] = l[i]
        /\ \A i \in 1..Len(v) : lv[Len(l) + i] = v[i]
    BY <1>2, Joined, Zenon
  <2>. QED  BY <1>2, <2>1
<1> HIDE DEF lv
<1>5. /\ lvc \in Seq(Bytes) /\ Len(lvc) = 8
      /\ \A i \in 1..6 : lvc[i] = lv[i]
      /\ \A i \in 1..2 : lvc[6 + i] = c[i]
  <2>1. /\ lvc \in Seq(Bytes) /\ Len(lvc) = Len(lv) + Len(c)
        /\ \A i \in 1..Len(lv) : lvc[i] = lv[i]
        /\ \A i \in 1..Len(c) : lvc[Len(lv) + i] = c[i]
    BY <1>2, <1>4, Joined, Zenon
  <2>. QED  BY <1>2, <1>4, <2>1
<1> HIDE DEF lvc
<1>6. b = all
  BY <1>3 DEF lvc, lv
<1>7. /\ b \in Seq(Bytes) /\ Len(b) = 12
      /\ \A i \in 1..8 : b[i] = lvc[i]
      /\ \A i \in 1..4 : b[8 + i] = s[i]
  <2>1. /\ all \in Seq(Bytes) /\ Len(all) = Len(lvc) + Len(s)
        /\ \A i \in 1..Len(lvc) : all[i] = lvc[i]
        /\ \A i \in 1..Len(s) : all[Len(lvc) + i] = s[i]
    BY <1>2, <1>5, Joined, Zenon
  <2> HIDE DEF all
  <2>. QED  BY <1>2, <1>5, <1>6, <2>1
<1>8. /\ \A i \in 1..4 : b[0 + i] = l[i]
      /\ b[4 + 1] = v[1] /\ b[4 + 2] = v[2]
      /\ b[6 + 1] = c[1] /\ b[6 + 2] = c[2]
      /\ \A i \in 1..4 : b[8 + i] = s[i]
  BY <1>4, <1>5, <1>7
<1>9. ntohl(b, 0) = h.length
  BY <1>1, <1>8, NtohlAt DEF l
<1>10. ntohs(b, 4) = h.version
  BY <1>1, <1>8, NtohsAt DEF v
<1>11. ntohs(b, 6) = h.cmd_id
  BY <1>1, <1>8, NtohsAt DEF c
<1>12. ntohl(b, 8) = h.seq_id
  BY <1>1, <1>8, NtohlAt DEF s
<1>13. DecodeHeader(b) = h
  BY <1>9, <1>10, <1>11, <1>12 DEF DecodeHeader, PacketHeader
<1>. QED  BY <1>7, <1>13 DEF b, HEADER_LEN

-----------------------------------------------------------------------------
(* The length check of the handlers (gateway/main.cc:175, 215, 246), whose *)
(* subtraction wraps around in size_t, lets pass exactly the frames that   *)
(* are as long as their header says.                                       *)
THEOREM LengthChecksExact ==
    \A h \in PacketHeader, len \in Nat : LengthCheck(len, h) <=> len >= h.length
<1> SUFFICES ASSUME NEW h \in PacketHeader, NEW len \in Nat
             PROVE  LengthCheck(len, h) <=> len >= h.length
  OBVIOUS
<1> DEFINE n == h.length
           k == n - HEADER_LEN
<1>1. n \in 0..U32 - 1 /\ n \in Nat /\ n < U64 /\ U64 \in Nat /\ U64 > 12
  BY Widths DEF PacketHeader
<1>2. (HEADER_LEN + (k % U64)) % U64 = n
  <2>1. CASE n >= 12
    <3>1. k \in 0..U64 - 1 /\ HEADER_LEN + k = n /\ n \in 0..U64 - 1
      BY <1>1, <2>1 DEF HEADER_LEN
    <3>2. k % U64 = k
      BY <1>1, <3>1, ModSmall
    <3>3. n % U64 = n
      BY <1>1, <3>1, ModSmall
    <3>. QED  BY <3>1, <3>2, <3>3
  <2>2. CASE n < 12
    <3> DEFINE r == k + U64
    <3>1. /\ r \in 0..U64 - 1 /\ k = r - U64 /\ HEADER_LEN + r = 1 * U64 + n
          /\ n \in 0..U64 - 1 /\ HEADER_LEN + r \in Int
      BY <1>1, <2>2 DEF HEADER_LEN
    <3>2. k % U64 = r
      BY <1>1, <3>1, ModSmall
    <3>3. (HEADER_LEN + r) % U64 = n
      BY <1>1, <3>1, ModUnique
    <3>. QED  BY <3>2, <3>3
  <2>. QED  BY <1>1, <2>1, <2>2
<1>. QED  BY <1>2 DEF LengthCheck

(* When the header of a login says the true length of its frame, and this  *)
(* is below 2^31, what the command parses (gateway/main.cc:136) is the     *)
(* body of the frame.                                                      *)
THEOREM LoginParsesBody ==
    \A h \in PacketHeader :
        h.length >= HEADER_LEN /\ h.length < U32 \div 2
            => LoginParseSize(h) = h.length - HEADER_LEN
<1> SUFFICES ASSUME NEW h \in PacketHeader,
                    h.length >= HEADER_LEN, h.length < U32 \div 2
             PROVE  LoginParseSize(h) = h.length - HEADER_LEN
  OBVIOUS
<1> DEFINE k == h.length - HEADER_LEN
<1>1. /\ k \in 0..U32 - 1 /\ k \in 0..U64 - 1 /\ k < U32 \div 2
      /\ U32 \in Nat /\ U64 \in Nat /\ U32 > 0 /\ U64 > 0
  BY Widths DEF PacketHeader, HEADER_LEN
<1>2. k % U64 = k /\ k % U32 = k
  BY <1>1, ModSmall
<1>. QED  BY <1>1, <1>2 DEF LoginParseSize, ToInt

(* A header that says less than its own size: the subtraction wraps        *)
(* around, and the conversion to int wraps it back to a small negative     *)
(* number.                                                                 *)
LEMMA LoginParsesShort ==
    ASSUME NEW h \in PacketHeader, h.length < HEADER_LEN
    PROVE  LoginParseSize(h) = h.length - HEADER_LEN
<1> DEFINE k == h.length - HEADER_LEN
<1>1. /\ k \in Int /\ k < 0 /\ k >= -12
      /\ U32 \in Nat /\ U32 >= 256 /\ U64 \in Nat /\ U64 >= 65536
  BY Widths DEF PacketHeader, HEADER_LEN
<1> HIDE DEF k
<1>2. k % U64 = k + U64
  <2>1. k + U64 \in 0..U64 - 1 /\ (k + U64) - U64 = k
    BY <1>1
  <2>. QED  BY <1>1, <2>1, ModSmall
<1>3. (k + U64) % U32 = k + U32
  <2>1. k + U32 \in 0..U32 - 1 /\ U32 - 1 \in Int /\ k + U64 \in Int
    BY <1>1
  <2>2. k + U64 = ((U32 - 1) * U32) + (k + U32)
    BY <1>1 DEF U64
  <2> DEFINE v == k + U64
             q == U32 - 1
             r == k + U32
  <2>3. v \in Int /\ q \in Int /\ r \in 0..U32 - 1 /\ v = q * U32 + r /\ U32 > 0
    BY <1>1, <2>1, <2>2
  <2>. HIDE DEF v, q, r
  <2>4. v % U32 = r
    BY <1>1, <2>3, ModUnique
  <2>. QED  BY <2>4 DEF v, r
<1>4. ~(k + U32 < U32 \div 2)
  BY <1>1
<1>5. ToInt(k + U64) = k
  <2> DEFINE w == (k + U64) % U32
  <2>1. w = k + U32 /\ ~(w < U32 \div 2)
    BY <1>3, <1>4
  <2>2. ToInt(k + U64) = IF w < U32 \div 2 THEN w ELSE w - U32
    BY DEF ToInt
  <2>. HIDE DEF w
  <2>. QED  BY <1>1, <2>1, <2>2
<1>6. LoginParseSize(h) = ToInt(k % U64)
  BY DEF LoginParseSize, k
<1>. QED  BY <1>2, <1>5, <1>6 DEF k

(* Two digits below the base make a number below its square.               *)
LEMMA TwoDigits ==
    ASSUME NEW d \in Nat, d > 0, NEW hi \in 0..d - 1, NEW lo \in 0..d - 1
    PROVE  hi * d + lo \in 0..(d * d) - 1
<1>1. hi * d <= (d - 1) * d
  OBVIOUS
<1>2. (d - 1) * d = (d * d) - d
  OBVIOUS
<1>3. hi * d \in Nat /\ d * d \in Nat
  OBVIOUS
<1>. QED  BY <1>1, <1>2, <1>3

(* Any twelve bytes decode to a header.                                    *)
LEMMA DecodeType ==
    ASSUME NEW b \in Seq(Bytes), Len(b) = HEADER_LEN
    PROVE  DecodeHeader(b) \in PacketHeader
<1>1. \A i \in 1..12 : b[i] \in Bytes
  <2>1. \A i \in 1..Len(b) : b[i] \in Bytes
    <3>. HIDE DEF HEADER_LEN
    <3>. QED  OBVIOUS
  <2>2. Len(b) = 12
    BY DEF HEADER_LEN
  <2>. QED  BY <2>1, <2>2
<1>2. ASSUME NEW at \in 0..10 PROVE ntohs(b, at) \in 0..U16 - 1
  <2>1. b[at + 1] \in Bytes /\ b[at + 2] \in Bytes
    BY <1>1
  <2> DEFINE x == b[at + 1]
             y == b[at + 2]
  <2>2. x \in 0..ByteBase - 1 /\ y \in 0..ByteBase - 1
    BY <2>1 DEF Bytes
  <2>. HIDE DEF x, y
  <2>3. x * ByteBase + y \in 0..(ByteBase * ByteBase) - 1
    BY <2>2, Widths, TwoDigits
  <2>. QED  BY <2>3 DEF ntohs, U16, x, y
<1>3. ASSUME NEW at \in 0..8 PROVE ntohl(b, at) \in 0..U32 - 1
  <2> DEFINE x == ntohs(b, at)
             y == ntohs(b, at + 2)
  <2>1. x \in 0..U16 - 1
    <3>1. at \in 0..10
      OBVIOUS
    <3>. QED  BY <1>2, <3>1 DEF x
  <2>2. y \in 0..U16 - 1
    <3> DEFINE next == at + 2
    <3>1. next \in 0..10
      OBVIOUS
    <3>. HIDE DEF next
    <3>2. ntohs(b, next) \in 0..U16 - 1
      BY <1>2, <3>1
    <3>. QED  BY <3>2 DEF next
  <2>. HIDE DEF x, y
  <2>3. x * U16 + y \in 0..(U16 * U16) - 1
    <3>1. U16 \in Nat /\ U16 > 0
      BY Widths
    <3>. HIDE DEF U16
    <3>. QED  BY <2>1, <2>2, <3>1, TwoDigits
  <2>. QED  BY <2>3 DEF ntohl, U32, x, y
<1>4. /\ ntohl(b, 0) \in 0..U32 - 1 /\ ntohl(b, 8) \in 0..U32 - 1
      /\ ntohs(b, 4) \in 0..U16 - 1 /\ ntohs(b, 6) \in 0..U16 - 1
  BY <1>2, <1>3
<1>. QED  BY <1>4 DEF DecodeHeader, PacketHeader

=============================================================================
