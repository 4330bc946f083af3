------------------------------ MODULE WireProofs ------------------------------
(***************************************************************************)
(* What one server sends another decodes, for all events, whatever was     *)
(* received before (Wire).                                                 *)
(*                                                                         *)
(* The argument is about where the parts of an event lie: Holds(b, k, x)   *)
(* says that the bytes x lie in b after the first k.  It splits along the  *)
(* concatenations of the encoder, and Read returns what is held.  For the  *)
(* gossip both sides are recursive, and the argument is an induction over  *)
(* the records, with a set in the place of a predicate (NatSetInduction).  *)
(***************************************************************************)
EXTENDS Wire, SetInduction

Holds(b, k, x) ==
  k + Len(x) <= Len(b) /\ \A i \in 1..Len(x) : b[k + i] = x[i]

------------------------------------------------------------------------------
\* Tuples of bytes

\* A block of n bytes is a sequence of bytes of length n.
LEMMA BytesSeq ==
  ASSUME NEW n \in Nat, NEW x \in Bytes(n)
  PROVE  x \in Seq(Byte) /\ Len(x) = n
BY DEF Bytes

\* A sequence of bytes is a block of its own length.
LEMMA SeqBytes ==
  ASSUME NEW x \in Seq(Byte)
  PROVE  x \in Bytes(Len(x)) /\ Len(x) \in Nat
BY DEF Bytes

\* The sizes of blocks add up under concatenation.
LEMMA BytesConcat ==
  ASSUME NEW m \in Nat, NEW n \in Nat, NEW x \in Bytes(m), NEW y \in Bytes(n)
  PROVE  x \o y \in Bytes(m + n)
<1>1. x \in Seq(Byte) /\ y \in Seq(Byte) /\ Len(x) = m /\ Len(y) = n
  BY BytesSeq
<1>2. x \o y \in Seq(Byte) /\ Len(x \o y) = m + n
  BY <1>1
<1>. QED BY <1>2, SeqBytes, Zenon

\* A buffer holds itself from its start.
LEMMA HoldsSelf ==
  ASSUME NEW x \in Seq(Byte)
  PROVE  Holds(x, 0, x)
BY DEF Holds

\* A buffer that holds two blocks in a row holds each where it lies.
LEMMA HoldsConcat ==
  ASSUME NEW b \in Seq(Byte), NEW k \in Nat, NEW m \in Nat, NEW n \in Nat,
         NEW x \in Bytes(m), NEW y \in Bytes(n), Holds(b, k, x \o y)
  PROVE  Holds(b, k, x) /\ Holds(b, k + m, y)
<1>0. x \in Seq(Byte) /\ y \in Seq(Byte) /\ Len(x) = m /\ Len(y) = n
  BY BytesSeq
<1>1. x \o y \in Seq(Byte) /\ Len(x \o y) = m + n
  BY <1>0
<1>2. k + m + n <= Len(b)
  BY <1>1 DEF Holds
<1>3. \A i \in 1..m : b[k + i] = x[i]
  BY <1>0, <1>1 DEF Holds
<1>4. ASSUME NEW i \in 1..n PROVE b[k + m + i] = y[i]
  <2>0. \A j \in 1..Len(y) : (x \o y)[Len(x) + j] = y[j]
    BY <1>0
  <2>1. m + i \in 1..Len(x \o y) /\ (x \o y)[m + i] = y[i]
    BY <1>0, <1>1, <2>0
  <2>2. b[k + (m + i)] = y[i]
    BY <2>1 DEF Holds
  <2>. QED BY <2>2
<1>. QED BY <1>0, <1>2, <1>3, <1>4 DEF Holds

\* Read returns what is held.
LEMMA ReadHeld ==
  ASSUME NEW b \in Seq(Byte), NEW k \in Nat, NEW n \in Nat, NEW x \in Bytes(n),
         Holds(b, k, x)
  PROVE  Read(b, k, n) = x
<1>1. x \in Seq(Byte) /\ Len(x) = n
  BY BytesSeq
<1>2. Read(b, k, n) = [i \in 1..n |-> x[i]]
  BY <1>1 DEF Read, Holds
<1>. QED BY <1>1, <1>2

\* What is held in a part of b is held in b.
LEMMA HoldsTransitive ==
  ASSUME NEW b \in Seq(Byte), NEW h \in Seq(Byte), NEW x \in Seq(Byte),
         NEW k \in Nat, Holds(b, 0, h), Holds(h, k, x)
  PROVE  Holds(b, k, x)
<1>1. Len(h) <= Len(b) /\ \A i \in 1..Len(h) : b[i] = h[i]
  BY DEF Holds
<1>2. k + Len(x) <= Len(h) /\ \A i \in 1..Len(x) : h[k + i] = x[i]
  BY DEF Holds
<1>3. \A i \in 1..Len(x) : k + i \in 1..Len(h)
  BY <1>2
<1>4. \A i \in 1..Len(x) : b[k + i] = x[i]
  BY <1>1, <1>2, <1>3
<1>5. k + Len(x) <= Len(b)
  BY <1>1, <1>2
<1>. QED BY <1>4, <1>5 DEF Holds

\* The same at the start of the buffer.
LEMMA HoldsStart ==
  ASSUME NEW b \in Seq(Byte), NEW m \in Nat, NEW n \in Nat,
         NEW x \in Bytes(m), NEW y \in Bytes(n), Holds(b, 0, x \o y)
  PROVE  Holds(b, 0, x) /\ Holds(b, m, y)
<1>1. 0 \in Nat /\ 0 + m = m
  OBVIOUS
<1>2. Holds(b, 0, x) /\ Holds(b, 0 + m, y)
  BY <1>1, HoldsConcat, Zenon
<1>. QED BY <1>1, <1>2, Zenon

\* Cleared memory is made of bytes.
LEMMA ZerosBytes ==
  ASSUME NEW n \in Nat
  PROVE  Zeros(n) \in Bytes(n)
<1>1. 0 \in Byte
  BY DEF Byte
<1>. QED BY <1>1, Zenon DEF Zeros, Bytes

------------------------------------------------------------------------------
\* Integers, addresses and records

\* A pair is a sequence of two.
LEMMA Pair ==
  ASSUME NEW S, NEW q \in S, NEW r \in S
  PROVE  /\ <<q, r>> \in Seq(S) /\ Len(<<q, r>>) = 2
         /\ <<q, r>>[1] = q /\ <<q, r>>[2] = r
OBVIOUS

\* A 16-bit number is made of its two bytes.
LEMMA Quotient ==
  ASSUME NEW n \in Uint16
  PROVE  n \div 256 \in Byte /\ n % 256 \in Byte /\ 256 * (n \div 256) + (n % 256) = n
<1>1. n \div 256 \in Int /\ n \div 256 >= 0
  BY Z3 DEF Uint16
<1>2. n \div 256 <= 255
  BY Z3 DEF Uint16
<1>3. n % 256 \in 0..255
  BY Z3 DEF Uint16
<1>4. 256 * (n \div 256) + (n % 256) = n
  BY Z3 DEF Uint16
<1> DEFINE q == n \div 256
           r == n % 256
<1>5. q \in Int /\ q >= 0 /\ q <= 255 /\ r \in 0..255
  BY <1>1, <1>2, <1>3
<1> HIDE DEF q, r
<1>6. q \in Byte /\ r \in Byte
  BY <1>5 DEF Byte
<1>. QED BY <1>4, <1>6 DEF q, r

\* swim_encode_uint16 writes the high byte, then the low one.
LEMMA EncodeUint16 ==
  ASSUME NEW n \in Uint16
  PROVE  /\ swim_encode_uint16(n) \in Bytes(2)
         /\ 256 * swim_encode_uint16(n)[1] + swim_encode_uint16(n)[2] = n
<1> DEFINE q == n \div 256
           r == n % 256
<1>1. q \in Byte /\ r \in Byte /\ 256 * q + r = n
  BY Quotient
<1>2. swim_encode_uint16(n) = <<q, r>>
  BY Zenon DEF swim_encode_uint16
<1> HIDE DEF q, r
<1>3. /\ <<q, r>> \in Seq(Byte) /\ Len(<<q, r>>) = 2
      /\ <<q, r>>[1] = q /\ <<q, r>>[2] = r
  BY <1>1, Pair
<1>4. <<q, r>> \in Bytes(2)
  BY <1>3, SeqBytes, Zenon
<1>. QED BY <1>1, <1>2, <1>3, <1>4, Zenon

\* swim_decode_uint16 reads back what swim_encode_uint16 wrote.
LEMMA DecodeUint16 ==
  ASSUME NEW b \in Seq(Byte), NEW k \in Nat, NEW n \in Uint16,
         Holds(b, k, swim_encode_uint16(n))
  PROVE  swim_decode_uint16(b, k) = n
<1>1. Read(b, k, 2) = swim_encode_uint16(n)
  <2>1. 2 \in Nat
    OBVIOUS
  <2>. QED BY <2>1, EncodeUint16, ReadHeld, Zenon
<1>. QED BY <1>1, EncodeUint16, Zenon DEF swim_decode_uint16

\* The sizes of the structures are naturals; a sockaddr_storage fits the 16-bit
\* length that precedes an address.
LEMMA Sizes ==
  /\ MAX_PACKET_SIZE \in Nat /\ SizeofSockAddr \in Nat /\ SizeofNodeInfo \in Nat
  /\ SizeofEvent \in Nat /\ MAX_GOSSIP_SIZE \in Nat
  /\ SizeofSockAddr \in Uint16
<1>1. /\ MAX_PACKET_SIZE \in Nat /\ SizeofSockAddr \in Nat /\ SizeofNodeInfo \in Nat
      /\ SizeofEvent \in Nat /\ MAX_GOSSIP_SIZE \in Nat
      /\ MAX_PACKET_SIZE < 256 * 256
  BY SizeAssumption, RoomAssumption DEF Uint16
<1>2. MAX_GOSSIP_SIZE * SizeofNodeInfo \in Nat
  BY <1>1
<1>3. SizeofSockAddr <= MAX_PACKET_SIZE
  BY <1>1, <1>2, RoomAssumption
<1>. QED BY <1>1, <1>3 DEF Uint16

\* An address is a block of bytes no longer than a sockaddr_storage.
LEMMA SockAddrBytes ==
  ASSUME NEW a \in SockAddr
  PROVE  /\ a \in Bytes(Len(a)) /\ Len(a) \in Nat /\ Len(a) \in Uint16
         /\ Len(a) <= SizeofSockAddr
<1>1. a \in Seq(Byte) /\ Len(a) <= SizeofSockAddr
  BY DEF SockAddr
<1>2. a \in Bytes(Len(a)) /\ Len(a) \in Nat
  BY <1>1, SeqBytes
<1>3. Len(a) \in Uint16
  BY <1>1, <1>2, Sizes DEF Uint16
<1>. QED BY <1>1, <1>2, <1>3

\* swim_encode_varlen writes a length of two bytes and the address.
LEMMA EncodeVarlen ==
  ASSUME NEW a \in SockAddr
  PROVE  swim_encode_varlen(a) \in Bytes(2 + Len(a))
<1>1. 2 \in Nat /\ Len(a) \in Nat /\ a \in Bytes(Len(a))
  BY SockAddrBytes
<1>2. swim_encode_uint16(Len(a)) \in Bytes(2)
  BY SockAddrBytes, EncodeUint16
<1>. QED BY <1>1, <1>2, BytesConcat, Zenon DEF swim_encode_varlen

\* swim_decode_varlen reads the address back and advances past it.
LEMMA DecodeVarlen ==
  ASSUME NEW b \in Seq(Byte), NEW k \in Nat, NEW a \in SockAddr,
         Holds(b, k, swim_encode_varlen(a))
  PROVE  /\ swim_decode_varlen(b, k).data = a
         /\ swim_decode_varlen(b, k).next = k + 2 + Len(a)
<1> DEFINE n == Len(a)
           l == swim_encode_uint16(n)
<1>1. a \in Bytes(n) /\ n \in Nat /\ n \in Uint16
  BY SockAddrBytes
<1>2. l \in Bytes(2) /\ 2 \in Nat /\ k + 2 \in Nat
  BY <1>1, EncodeUint16
<1>3. Holds(b, k, l \o a)
  BY Zenon DEF swim_encode_varlen
<1> HIDE DEF l
<1>4. Holds(b, k, l) /\ Holds(b, k + 2, a)
  BY <1>1, <1>2, <1>3, HoldsConcat, Zenon
<1>5. swim_decode_uint16(b, k) = n
  BY <1>1, <1>4, DecodeUint16, Zenon DEF l
<1>6. Read(b, k + 2, n) = a
  BY <1>1, <1>2, <1>4, ReadHeld, Zenon
<1>7. swim_decode_varlen(b, k) = [data |-> a, next |-> k + 2 + n]
  BY <1>5, <1>6, Zenon DEF swim_decode_varlen
<1>. QED BY <1>7

\* The parts of a gossip record and their sizes.
LEMMA InfoParts ==
  ASSUME NEW info \in NodeInfo
  PROVE  /\ info.uuid \in Bytes(16) /\ info.last_seen \in Bytes(8)
         /\ info.status \in Uint16
         /\ swim_encode_uint16(info.status) \in Bytes(2)
         /\ info.incarnation \in Bytes(4)
         /\ info.addr \in SockAddr /\ Len(info.addr) \in Nat
         /\ swim_encode_varlen(info.addr) \in Bytes(2 + Len(info.addr))
<1>1. /\ info.uuid \in Bytes(16) /\ info.last_seen \in Bytes(8)
      /\ info.incarnation \in Bytes(4)
      /\ info.status \in Uint16 /\ info.addr \in SockAddr
  BY DEF NodeInfo
<1>. QED BY <1>1, EncodeUint16, EncodeVarlen, SockAddrBytes, Zenon

\* A record takes 32 bytes and its address.
LEMMA EncodeInfo ==
  ASSUME NEW info \in NodeInfo
  PROVE  /\ swim_encode_info(info) \in Bytes(32 + Len(info.addr))
         /\ Len(info.addr) \in Nat /\ Len(info.addr) <= SizeofSockAddr
<1> DEFINE n == Len(info.addr)
           a == swim_encode_varlen(info.addr)
           y2 == info.uuid \o info.last_seen
           y3 == y2 \o swim_encode_uint16(info.status)
           y4 == y3 \o info.incarnation
<1>1. n \in Nat /\ a \in Bytes(2 + n) /\ n <= SizeofSockAddr
  BY InfoParts, SockAddrBytes, Zenon
<1>2. 2 \in Nat /\ 4 \in Nat /\ 8 \in Nat /\ 16 \in Nat /\ 24 \in Nat /\ 26 \in Nat
      /\ 30 \in Nat /\ 16 + 8 = 24 /\ 24 + 2 = 26 /\ 26 + 4 = 30
  OBVIOUS
<1>3. y2 \in Bytes(24)
  BY <1>2, InfoParts, BytesConcat, Zenon
<1>4. y3 \in Bytes(26)
  BY <1>2, <1>3, InfoParts, BytesConcat, Zenon
<1>5. y4 \in Bytes(30)
  BY <1>2, <1>4, InfoParts, BytesConcat, Zenon
<1>6. swim_encode_info(info) = y4 \o a
  BY Zenon DEF swim_encode_info
<1> HIDE DEF y4, a, n
<1>7. 2 + n \in Nat /\ 30 + (2 + n) = 32 + n
  BY <1>1
<1>8. y4 \o a \in Bytes(30 + (2 + n))
  BY <1>1, <1>2, <1>5, <1>7, BytesConcat, Zenon
<1>. QED BY <1>1, <1>6, <1>7, <1>8, Zenon DEF n

\* swim_decode_info reads back what swim_encode_info wrote, and stops behind it.
LEMMA DecodeInfo ==
  ASSUME NEW b \in Seq(Byte), NEW k \in Nat, NEW info \in NodeInfo,
         Holds(b, k, swim_encode_info(info))
  PROVE  /\ Info(swim_decode_info(b, k)) = info
         /\ swim_decode_info(b, k).next = k + (32 + Len(info.addr))
<1> DEFINE n == Len(info.addr)
           a == swim_encode_varlen(info.addr)
           st == swim_encode_uint16(info.status)
           y2 == info.uuid \o info.last_seen
           y3 == y2 \o st
           y4 == y3 \o info.incarnation
<1>1. n \in Nat /\ a \in Bytes(2 + n) /\ st \in Bytes(2) /\ info.addr \in SockAddr
  BY InfoParts, Zenon
<1>2. 2 \in Nat /\ 4 \in Nat /\ 8 \in Nat /\ 16 \in Nat /\ 24 \in Nat /\ 26 \in Nat
      /\ 30 \in Nat /\ 16 + 8 = 24 /\ 24 + 2 = 26 /\ 26 + 4 = 30
  OBVIOUS
<1>3. y2 \in Bytes(24)
  BY <1>2, InfoParts, BytesConcat, Zenon
<1>4. y3 \in Bytes(26)
  BY <1>2, <1>3, InfoParts, BytesConcat, Zenon
<1>5. y4 \in Bytes(30)
  BY <1>2, <1>4, InfoParts, BytesConcat, Zenon
<1>6. Holds(b, k, y4 \o a)
  BY Zenon DEF swim_encode_info
<1>7. k + 16 \in Nat /\ k + 24 \in Nat /\ k + 26 \in Nat /\ k + 30 \in Nat /\ 2 + n \in Nat
  BY <1>1
<1>8. Holds(b, k, y4) /\ Holds(b, k + 30, a)
  <2> HIDE DEF y4, a, n
  <2>. QED BY <1>1, <1>2, <1>5, <1>6, <1>7, HoldsConcat, Zenon
<1>9. Holds(b, k, y3) /\ Holds(b, k + 26, info.incarnation)
  <2> HIDE DEF y3, a, n
  <2>. QED BY <1>2, <1>4, <1>8, InfoParts, HoldsConcat, Zenon
<1>10. Holds(b, k, y2) /\ Holds(b, k + 24, st)
  <2> HIDE DEF y2, st, a, n
  <2>. QED BY <1>1, <1>2, <1>3, <1>9, HoldsConcat, Zenon
<1>11. Holds(b, k, info.uuid) /\ Holds(b, k + 16, info.last_seen)
  BY <1>2, <1>10, InfoParts, HoldsConcat, Zenon
<1> HIDE DEF y2, y3, y4
<1>12. Read(b, k, 16) = info.uuid
  BY <1>2, <1>11, InfoParts, ReadHeld, Zenon
<1>13. Read(b, k + 16, 8) = info.last_seen
  BY <1>2, <1>7, <1>11, InfoParts, ReadHeld, Zenon
<1>14. Read(b, k + 26, 4) = info.incarnation
  BY <1>2, <1>7, <1>9, InfoParts, ReadHeld, Zenon
<1>15. swim_decode_uint16(b, k + 24) = info.status
  BY <1>7, <1>10, InfoParts, DecodeUint16, Zenon
<1>16. /\ swim_decode_varlen(b, k + 30).data = info.addr
       /\ swim_decode_varlen(b, k + 30).next = k + 30 + 2 + n
  BY <1>1, <1>7, <1>8, DecodeVarlen, Zenon
<1>17. info = [uuid |-> info.uuid, last_seen |-> info.last_seen,
               status |-> info.status, incarnation |-> info.incarnation,
               addr |-> info.addr]
  BY DEF NodeInfo
<1>18. Info(swim_decode_info(b, k)) = info
  BY <1>12, <1>13, <1>14, <1>15, <1>16, <1>17 DEF Info, swim_decode_info
<1>19. swim_decode_info(b, k).next = swim_decode_varlen(b, k + 30).next
  BY DEF swim_decode_info
<1> HIDE DEF n
<1>20. k + 30 + 2 + n = k + (32 + n)
  BY <1>1
<1>. QED BY <1>16, <1>18, <1>19, <1>20, Zenon DEF n

------------------------------------------------------------------------------
\* Gossip

\* What the first n of the sequences give lies at the same place.
LEMMA Prefix ==
  ASSUME NEW b \in Seq(Byte), NEW k \in Nat, NEW N \in Nat,
         NEW s \in [1..N -> Seq(Byte)], NEW p \in [0..N -> Seq(Byte)],
         \A i \in 1..N : p[i] = p[i - 1] \o s[i],
         Holds(b, k, p[N])
  PROVE  \A n \in 0..N : Holds(b, k, p[n])
<1> DEFINE T == {n \in Nat : n \in 0..N => Holds(b, k, p[N - n])}
<1>1. 0 \in T
  OBVIOUS
<1>2. ASSUME NEW n \in Nat, n \in T PROVE n + 1 \in T
  <2> SUFFICES ASSUME n + 1 \in 0..N PROVE Holds(b, k, p[N - (n + 1)])
    OBVIOUS
  <2> DEFINE i == N - n
  <2>1. i \in 1..N /\ i - 1 = N - (n + 1) /\ i - 1 \in 0..N /\ i \in 0..N
    OBVIOUS
  <2>2. Holds(b, k, p[i])
    BY <1>2
  <2> HIDE DEF i
  <2>3. p[i] = p[i - 1] \o s[i] /\ p[i - 1] \in Seq(Byte) /\ s[i] \in Seq(Byte)
    BY <2>1, Zenon
  <2>4. Holds(b, k, p[i - 1] \o s[i])
    BY <2>2, <2>3, Zenon
  <2>5. Holds(b, k, p[i - 1])
    <3>1. /\ p[i - 1] \in Bytes(Len(p[i - 1])) /\ s[i] \in Bytes(Len(s[i]))
          /\ Len(p[i - 1]) \in Nat /\ Len(s[i]) \in Nat
      BY <2>3, SeqBytes, Zenon
    <3>. QED BY <2>4, <3>1, HoldsConcat, Zenon
  <2>. QED BY <2>1, <2>5, Zenon
<1>3. \A n \in Nat : n \in T
  <2> HIDE DEF T
  <2>. QED BY <1>1, <1>2, NatSetInduction, Zenon
<1>4. ASSUME NEW n \in 0..N PROVE Holds(b, k, p[n])
  <2>1. N - n \in Nat /\ N - n \in 0..N /\ N - (N - n) = n
    OBVIOUS
  <2>. QED BY <1>3, <2>1, Zenon
<1>. QED BY <1>4

\* An encoded record is a sequence of bytes.
LEMMA EncodedInfoSeq ==
  ASSUME NEW info \in NodeInfo
  PROVE  swim_encode_info(info) \in Seq(Byte)
<1>1. 32 + Len(info.addr) \in Nat
  <2>1. Len(info.addr) \in Nat
    BY EncodeInfo
  <2>. QED BY <2>1
<1>. QED BY <1>1, EncodeInfo, BytesSeq, Zenon

\* f[n] is what is known after n of the N records that lie in b after k bytes.
Decodes(b, k, N, f) ==
  /\ f = [n \in 0..N |-> f[n]]
  /\ f[0] = [gossip |-> <<>>, next |-> k]
  /\ \A n \in 1..N : f[n] = DecodeNext(b, f[n - 1])

\* The recursive function of DecodeInfos is the only one with its equation.
LEMMA DecodeInfosUnique ==
  ASSUME NEW b, NEW k, NEW N \in Nat, NEW f, Decodes(b, k, N, f)
  PROVE  DecodeInfos(b, k, N) = f[N]
<1> DEFINE Rec(h) == h = [n \in 0..N |-> IF n = 0 THEN [gossip |-> <<>>, next |-> k]
                                         ELSE DecodeNext(b, h[n - 1])]
           after == CHOOSE h : Rec(h)
<1>1. DecodeInfos(b, k, N) = after[N]
  BY Zenon DEF DecodeInfos
<1>2. Rec(f)
  <2>1. ASSUME NEW n \in 0..N
        PROVE  f[n] = IF n = 0 THEN [gossip |-> <<>>, next |-> k]
                      ELSE DecodeNext(b, f[n - 1])
    <3>1. n # 0 => n \in 1..N
      OBVIOUS
    <3>. QED BY <3>1, Zenon DEF Decodes
  <2>2. f = [n \in 0..N |-> f[n]]
    BY Zenon DEF Decodes
  <2>. QED BY <2>1, <2>2, Zenon
<1>3. Rec(after)
  <2> HIDE DEF Rec
  <2>. QED BY <1>2
<1> HIDE DEF after
<1> DEFINE T == {n \in Nat : n \in 0..N => after[n] = f[n]}
<1>4. 0 \in T
  <2>1. after[0] = [gossip |-> <<>>, next |-> k]
    BY <1>3
  <2>2. f[0] = [gossip |-> <<>>, next |-> k]
    BY <1>2
  <2>. QED BY <2>1, <2>2
<1>5. ASSUME NEW n \in Nat, n \in T PROVE n + 1 \in T
  <2> SUFFICES ASSUME n + 1 \in 0..N PROVE after[n + 1] = f[n + 1]
    OBVIOUS
  <2>1. n \in 0..N /\ n + 1 # 0 /\ n + 1 - 1 = n
    OBVIOUS
  <2>2. after[n + 1] = DecodeNext(b, after[n])
    BY <1>3, <2>1
  <2>3. f[n + 1] = DecodeNext(b, f[n])
    BY <1>2, <2>1
  <2>4. after[n] = f[n]
    BY <1>5, <2>1
  <2>. QED BY <2>2, <2>3, <2>4, Zenon
<1>6. \A n \in Nat : n \in T
  <2> HIDE DEF T
  <2>. QED BY <1>4, <1>5, NatSetInduction
<1>7. after[N] = f[N]
  BY <1>6
<1>. QED BY <1>1, <1>7, Zenon

\* The records come back in order: after n of them SubSeq(g, 1, n) is known.
LEMMA DecodeGossip ==
  ASSUME NEW b \in Seq(Byte), NEW k \in Nat, NEW N \in Nat,
         NEW g \in Seq(NodeInfo), N = Len(g),
         NEW p \in [0..N -> Seq(Byte)],
         p[0] = <<>>,
         \A i \in 1..N : p[i] = p[i - 1] \o swim_encode_info(g[i]),
         Holds(b, k, p[N])
  PROVE  DecodeInfos(b, k, N) = [gossip |-> g, next |-> k + Len(p[N])]
<1> DEFINE F(n) == [gossip |-> SubSeq(g, 1, n), next |-> k + Len(p[n])]
           f == [n \in 0..N |-> F(n)]
<1>1. ASSUME NEW n \in 1..N
      PROVE  /\ Info(swim_decode_info(b, k + Len(p[n - 1]))) = g[n]
             /\ swim_decode_info(b, k + Len(p[n - 1])).next = k + Len(p[n])
  <2> DEFINE x == swim_encode_info(g[n])
             q == p[n - 1]
             l == 32 + Len(g[n].addr)
  <2>1. g[n] \in NodeInfo /\ n - 1 \in 0..N /\ n \in 0..N
    OBVIOUS
  <2>2. x \in Bytes(l) /\ x \in Seq(Byte)
    BY <2>1, EncodedInfoSeq, EncodeInfo, Zenon
  <2>3. l \in Nat
    <3>1. Len(g[n].addr) \in Nat
      BY <2>1, EncodeInfo, Zenon
    <3>. QED BY <3>1
  <2>4. q \in Seq(Byte) /\ p[n] = q \o x
    BY <2>1, Zenon
  <2>5. Holds(b, k, p[n])
    <3> DEFINE s == [i \in 1..N |-> swim_encode_info(g[i])]
    <3>1. s \in [1..N -> Seq(Byte)]
      BY EncodedInfoSeq
    <3>2. \A i \in 1..N : p[i] = p[i - 1] \o s[i]
      BY Zenon
    <3> HIDE DEF s
    <3>3. \A m \in 0..N : Holds(b, k, p[m])
      BY <3>1, <3>2, Prefix, Zenon
    <3>. QED BY <2>1, <3>3
  <2>6. Holds(b, k, q \o x)
    BY <2>4, <2>5, Zenon
  <2> HIDE DEF x, q, l
  <2>7. q \in Bytes(Len(q)) /\ Len(q) \in Nat
    BY <2>4, SeqBytes, Zenon
  <2>8. Holds(b, k + Len(q), x) /\ k + Len(q) \in Nat
    <3>1. Holds(b, k + Len(q), x)
      BY <2>2, <2>3, <2>6, <2>7, HoldsConcat, Zenon
    <3>. QED BY <2>7, <3>1
  <2>9. /\ Info(swim_decode_info(b, k + Len(q))) = g[n]
        /\ swim_decode_info(b, k + Len(q)).next = k + Len(q) + l
    BY <2>1, <2>8, DecodeInfo, Zenon DEF x, l
  <2>10. k + Len(q) + l = k + Len(p[n])
    <3>1. Len(p[n]) = Len(q) + l
      <4>1. q \o x \in Bytes(Len(q) + l) /\ Len(q) + l \in Nat
        <5>1. q \o x \in Bytes(Len(q) + l)
          BY <2>2, <2>3, <2>7, BytesConcat, Zenon
        <5>. QED BY <2>3, <2>7, <5>1
      <4>. QED BY <2>4, <4>1, BytesSeq, Zenon
    <3>. QED BY <2>3, <2>7, <3>1
  <2>. QED BY <2>9, <2>10, Zenon DEF q
<1>2. ASSUME NEW n \in 1..N PROVE F(n) = DecodeNext(b, F(n - 1))
  <2>1. SubSeq(g, 1, n) = Append(SubSeq(g, 1, n - 1), g[n])
    OBVIOUS
  <2>2. F(n - 1).gossip = SubSeq(g, 1, n - 1) /\ F(n - 1).next = k + Len(p[n - 1])
    OBVIOUS
  <2> DEFINE r == F(n - 1)
  <2> HIDE DEF r
  <2>3. DecodeNext(b, r) =
          [gossip |-> Append(r.gossip, Info(swim_decode_info(b, r.next))),
           next |-> swim_decode_info(b, r.next).next]
    BY Zenon DEF DecodeNext
  <2>4. /\ r.gossip = SubSeq(g, 1, n - 1)
        /\ Info(swim_decode_info(b, r.next)) = g[n]
        /\ swim_decode_info(b, r.next).next = k + Len(p[n])
    BY <1>1, <2>2, Zenon DEF r
  <2>5. DecodeNext(b, r) = F(n)
    BY <2>1, <2>3, <2>4, Zenon
  <2>. QED BY <2>5 DEF r
<1>3. F(0) = [gossip |-> <<>>, next |-> k]
  <2>1. SubSeq(g, 1, 0) = <<>> /\ k + Len(p[0]) = k
    OBVIOUS
  <2>. QED BY <2>1, Zenon
<1>4. F(N) = [gossip |-> g, next |-> k + Len(p[N])]
  <2>1. SubSeq(g, 1, N) = g
    OBVIOUS
  <2>. QED BY <2>1, Zenon
<1>5. Decodes(b, k, N, f)
  <2> HIDE DEF F
  <2>1. f[0] = F(0) /\ \A n \in 1..N : f[n] = F(n) /\ f[n - 1] = F(n - 1)
    OBVIOUS
  <2>2. f = [n \in 0..N |-> f[n]]
    OBVIOUS
  <2> HIDE DEF f
  <2>3. ASSUME NEW n \in 1..N PROVE f[n] = DecodeNext(b, f[n - 1])
    BY <1>2, <2>1, Zenon
  <2>. QED BY <1>3, <2>1, <2>2, <2>3, Zenon DEF Decodes
<1>6. DecodeInfos(b, k, N) = f[N]
  <2> HIDE DEF f, F
  <2>. QED BY <1>5, DecodeInfosUnique, Zenon
<1>7. f[N] = F(N)
  <2> HIDE DEF F
  <2>. QED OBVIOUS
<1>. QED BY <1>4, <1>6, <1>7, Zenon

\* The recursive function of EncodeInfos exists.
LEMMA EncodedExists ==
  ASSUME NEW g
  PROVE  \A n \in Nat : \E f : f = [i \in 0..n |-> IF i = 0 THEN <<>>
                            ELSE f[i - 1] \o swim_encode_info(g[i])]
<1> DEFINE Rec(f, n) == f = [i \in 0..n |-> IF i = 0 THEN <<>>
                               ELSE f[i - 1] \o swim_encode_info(g[i])]
           T == {n \in Nat : \E f : Rec(f, n)}
<1>1. 0 \in T
  <2> DEFINE f == [i \in 0..0 |-> <<>>]
  <2>1. Rec(f, 0)
    OBVIOUS
  <2> HIDE DEF Rec, f
  <2>. QED BY <2>1
<1>2. ASSUME NEW n \in Nat, n \in T PROVE n + 1 \in T
  <2>1. PICK f : Rec(f, n)
    BY <1>2, Zenon
  <2> DEFINE x == f[n] \o swim_encode_info(g[n + 1])
             h == [i \in 0..(n + 1) |-> IF i = n + 1 THEN x ELSE f[i]]
  <2>2. Rec(h, n + 1)
    <3>1. ASSUME NEW i \in 0..(n + 1)
          PROVE  h[i] = IF i = 0 THEN <<>>
                        ELSE h[i - 1] \o swim_encode_info(g[i])
      <4>1. CASE i = n + 1
        <5>1. /\ i # 0 /\ i - 1 = n /\ n # n + 1
              /\ n \in 0..(n + 1) /\ n + 1 \in 0..(n + 1)
          BY <4>1
        <5>2. h[n] = f[n] /\ h[n + 1] = x
          BY <5>1, Zenon
        <5>3. x = f[n] \o swim_encode_info(g[n + 1])
          OBVIOUS
        <5> HIDE DEF h, x
        <5>. QED BY <4>1, <5>1, <5>2, <5>3, Zenon
      <4>2. CASE i # n + 1
        <5>1. /\ i \in 0..n /\ h[i] = f[i]
              /\ i # 0 => i - 1 \in 0..n /\ h[i - 1] = f[i - 1]
          BY <4>2
        <5>2. f[i] = IF i = 0 THEN <<>>
                     ELSE f[i - 1] \o swim_encode_info(g[i])
          BY <2>1, <5>1
        <5>. QED BY <5>1, <5>2
      <4>. QED BY <4>1, <4>2
    <3>2. h = [i \in 0..(n + 1) |-> h[i]]
      OBVIOUS
    <3> HIDE DEF h
    <3>. QED BY <3>1, <3>2, Zenon
  <2> HIDE DEF Rec, h
  <2>. QED BY <2>2
<1> HIDE DEF T
<1>3. \A n \in Nat : n \in T
  BY <1>1, <1>2, NatSetInduction
<1>. QED BY <1>3, Zenon DEF T

\* The gossip is its count and then one record after the other: p[n] is what
\* the first n of them give.
LEMMA GossipBytes ==
  ASSUME NEW g \in Seq(NodeInfo), Len(g) \in Uint16
  PROVE  \E p \in [0..Len(g) -> Seq(Byte)] :
           /\ p[0] = <<>>
           /\ \A i \in 1..Len(g) : p[i] = p[i - 1] \o swim_encode_info(g[i])
           /\ swim_encode_gossip(g) = swim_encode_uint16(Len(g)) \o p[Len(g)]
<1> DEFINE N == Len(g)
           Rec(f) == f = [i \in 0..N |-> IF i = 0 THEN <<>>
                            ELSE f[i - 1] \o swim_encode_info(g[i])]
           upto == CHOOSE f : Rec(f)
<1>1. N \in Nat /\ \A i \in 1..N : g[i] \in NodeInfo
  OBVIOUS
<1>2. \A i \in 1..N : swim_encode_info(g[i]) \in Seq(Byte)
  BY <1>1, EncodedInfoSeq, Zenon
<1>3. Rec(upto)
  <2>1. \E f : Rec(f)
    BY <1>1, EncodedExists, Zenon
  <2> HIDE DEF Rec
  <2>. QED BY <2>1
<1>4. swim_encode_gossip(g) = swim_encode_uint16(Len(g)) \o upto[N]
  BY Zenon DEF swim_encode_gossip, EncodeInfos
<1> HIDE DEF upto, N
<1>5. /\ DOMAIN upto = 0..N /\ upto[0] = <<>>
      /\ \A i \in 1..N : upto[i] = upto[i - 1] \o swim_encode_info(g[i])
  <2>1. \A i \in 1..N : i \in 0..N /\ i # 0
    BY <1>1
  <2>2. 0 \in 0..N
    BY <1>1
  <2>3. /\ DOMAIN upto = 0..N
        /\ \A i \in 0..N : upto[i] = IF i = 0 THEN <<>>
                              ELSE upto[i - 1] \o swim_encode_info(g[i])
    BY <1>3, Zenon
  <2> HIDE DEF Rec
  <2>. QED BY <2>1, <2>2, <2>3, Zenon
<1>6. upto = [i \in 0..N |-> upto[i]]
  BY <1>3, Zenon
<1> DEFINE T == {n \in Nat : n \in 0..N => upto[n] \in Seq(Byte)}
<1> HIDE DEF Rec
<1>7. 0 \in T
  <2>1. upto[0] \in Seq(Byte)
    BY <1>5
  <2>. QED BY <2>1
<1>8. ASSUME NEW n \in Nat, n \in T PROVE n + 1 \in T
  <2> SUFFICES ASSUME n + 1 \in 0..N PROVE upto[n + 1] \in Seq(Byte)
    OBVIOUS
  <2>1. n + 1 \in 1..N /\ n \in 0..N /\ n + 1 - 1 = n
    BY <1>1
  <2>2. upto[n] \in Seq(Byte) /\ swim_encode_info(g[n + 1]) \in Seq(Byte)
    BY <1>2, <1>8, <2>1
  <2>3. upto[n + 1] = upto[n] \o swim_encode_info(g[n + 1])
    <3> DEFINE i == n + 1
    <3>1. i \in 1..N /\ i - 1 = n
      BY <2>1
    <3> HIDE DEF i
    <3>. QED BY <1>5, <3>1, Zenon DEF i
  <2>. QED BY <2>2, <2>3
<1>9. \A n \in Nat : n \in T
  <2> HIDE DEF T
  <2>. QED BY <1>7, <1>8, NatSetInduction
<1>10. upto \in [0..N -> Seq(Byte)]
  <2>1. \A n \in 0..N : upto[n] \in Seq(Byte)
    BY <1>1, <1>9
  <2>. QED BY <1>6, <2>1, Zenon
<1>. QED BY <1>4, <1>5, <1>10, Zenon DEF N

\* A record takes at most as many bytes as its struct.
LEMMA GossipLength ==
  ASSUME NEW g \in Seq(NodeInfo), NEW N \in Nat, N = Len(g),
         NEW p \in [0..N -> Seq(Byte)],
         p[0] = <<>>,
         \A i \in 1..N : p[i] = p[i - 1] \o swim_encode_info(g[i])
  PROVE  Len(p[N]) \in Nat /\ Len(p[N]) <= N * SizeofNodeInfo
<1> DEFINE Z == SizeofNodeInfo
           T == {n \in Nat : n \in 0..N => Len(p[n]) <= n * Z}
<1>0. Z \in Nat /\ 32 + SizeofSockAddr <= Z /\ SizeofSockAddr \in Nat
  BY Sizes, SizeAssumption
<1> HIDE DEF Z
<1>1. 0 \in T
  BY <1>0
<1>2. ASSUME NEW n \in Nat, n \in T PROVE n + 1 \in T
  <2> SUFFICES ASSUME n + 1 \in 0..N PROVE Len(p[n + 1]) <= (n + 1) * Z
    OBVIOUS
  <2> DEFINE x == swim_encode_info(g[n + 1])
             m == Len(g[n + 1].addr)
             l == Len(p[n])
             l1 == Len(p[n + 1])
  <2>1. n + 1 \in 1..N /\ n \in 0..N /\ g[n + 1] \in NodeInfo
    OBVIOUS
  <2>2. x \in Bytes(32 + m) /\ m \in Nat /\ m <= SizeofSockAddr
    BY <2>1, EncodeInfo, Zenon
  <2>3. p[n + 1] = p[n] \o x /\ p[n] \in Seq(Byte)
    <3> DEFINE i == n + 1
    <3>1. i \in 1..N /\ i - 1 = n
      BY <2>1
    <3> HIDE DEF i
    <3>2. p[i] = p[n] \o swim_encode_info(g[i])
      BY <3>1, Zenon
    <3>3. p[n] \in Seq(Byte)
      BY <2>1
    <3>. QED BY <3>2, <3>3 DEF i
  <2>4. p[n] \in Bytes(l) /\ l \in Nat
    BY <2>3, SeqBytes, Zenon
  <2>5. l1 = l + (32 + m)
    <3> HIDE DEF x, m, l
    <3>1. 32 + m \in Nat /\ l + (32 + m) \in Nat
      BY <2>2, <2>4
    <3>2. p[n] \o x \in Bytes(l + (32 + m))
      BY <2>2, <2>4, <3>1, BytesConcat, Zenon
    <3>3. p[n + 1] \in Bytes(l + (32 + m))
      BY <2>3, <3>2, Zenon
    <3>. QED BY <3>1, <3>3, BytesSeq, Zenon
  <2>6. Len(p[n]) <= n * Z
    BY <1>2, <2>1
  <2> HIDE DEF x, m, l, l1
  <2>7. l1 <= n * Z + Z
    <3>1. n * Z \in Nat
      BY <1>0
    <3>2. l <= n * Z
      BY <2>6, Zenon DEF l
    <3>3. \A c \in Nat : l <= c => l + (32 + m) <= c + Z
      BY <1>0, <2>2, <2>4
    <3>. QED BY <2>5, <3>1, <3>2, <3>3, Zenon
  <2>8. (n + 1) * Z = n * Z + Z
    BY <1>0
  <2>. QED BY <2>7, <2>8, Zenon DEF l1
<1>3. \A n \in Nat : n \in T
  <2> HIDE DEF T
  <2>. QED BY <1>1, <1>2, NatSetInduction
<1>4. Len(p[N]) <= N * Z
  BY <1>3
<1>5. Len(p[N]) \in Nat
  OBVIOUS
<1>. QED BY <1>4, <1>5 DEF Z

\* An encoded record takes no more room than sizeof(NodeInfo), from which
\* swim_decode_event computes how many records may follow.
LEMMA EncodeGossip ==
  ASSUME NEW g \in Seq(NodeInfo), Len(g) \in Uint16
  PROVE  /\ swim_encode_gossip(g) \in Seq(Byte)
         /\ Len(swim_encode_gossip(g)) <= 2 + Len(g) * SizeofNodeInfo
<1> DEFINE N == Len(g)
<1>0. N \in Nat /\ N = Len(g) /\ N \in Uint16
  OBVIOUS
<1>1. PICK p \in [0..N -> Seq(Byte)] :
           /\ p[0] = <<>>
           /\ \A i \in 1..N : p[i] = p[i - 1] \o swim_encode_info(g[i])
           /\ swim_encode_gossip(g) = swim_encode_uint16(N) \o p[N]
  BY GossipBytes, Zenon
<1> HIDE DEF N
<1> DEFINE l == Len(p[N])
<1>2. p[N] \in Bytes(l) /\ l \in Nat
  <2>1. p[N] \in Seq(Byte)
    BY <1>0
  <2>. QED BY <2>1, SeqBytes, Zenon
<1>3. swim_encode_uint16(N) \in Bytes(2) /\ 2 \in Nat
  BY <1>0, EncodeUint16
<1>4. l <= N * SizeofNodeInfo
  BY <1>0, <1>1, GossipLength, Zenon
<1> HIDE DEF l
<1>5. 2 + l \in Nat /\ 2 + l <= 2 + N * SizeofNodeInfo
  <2>1. N * SizeofNodeInfo \in Nat
    BY <1>0, Sizes
  <2>. QED BY <1>2, <1>4, <2>1
<1>6. swim_encode_gossip(g) \in Bytes(2 + l)
  BY <1>1, <1>2, <1>3, BytesConcat, Zenon
<1>7. swim_encode_gossip(g) \in Seq(Byte) /\ Len(swim_encode_gossip(g)) = 2 + l
  BY <1>5, <1>6, BytesSeq, Zenon
<1>. QED BY <1>0, <1>5, <1>7, Zenon

\* swim_decode_gossip reads back what swim_encode_gossip wrote, and stops
\* behind it.
LEMMA DecodeEncodedGossip ==
  ASSUME NEW g \in Seq(NodeInfo), Len(g) \in Uint16,
         NEW b \in Seq(Byte), NEW k \in Nat, Holds(b, k, swim_encode_gossip(g))
  PROVE  /\ swim_decode_uint16(b, k) = Len(g)
         /\ DecodeInfos(b, k + 2, Len(g)).gossip = g
         /\ DecodeInfos(b, k + 2, Len(g)).next = k + Len(swim_encode_gossip(g))
<1> DEFINE N == Len(g)
<1>0. N \in Nat /\ N = Len(g) /\ N \in Uint16
  OBVIOUS
<1>1. PICK p \in [0..N -> Seq(Byte)] :
           /\ p[0] = <<>>
           /\ \A i \in 1..N : p[i] = p[i - 1] \o swim_encode_info(g[i])
           /\ swim_encode_gossip(g) = swim_encode_uint16(N) \o p[N]
  BY GossipBytes, Zenon
<1> HIDE DEF N
<1> DEFINE l == Len(p[N])
<1>2. p[N] \in Bytes(l) /\ l \in Nat
  <2>1. p[N] \in Seq(Byte)
    BY <1>0
  <2>. QED BY <2>1, SeqBytes, Zenon
<1>3. swim_encode_uint16(N) \in Bytes(2) /\ 2 \in Nat
  BY <1>0, EncodeUint16
<1>4. Holds(b, k, swim_encode_uint16(N)) /\ Holds(b, k + 2, p[N])
  <2>1. Holds(b, k, swim_encode_uint16(N) \o p[N])
    BY <1>1, Zenon
  <2> HIDE DEF l
  <2>. QED BY <1>2, <1>3, <2>1, HoldsConcat, Zenon
<1>5. swim_decode_uint16(b, k) = N
  BY <1>0, <1>4, DecodeUint16, Zenon
<1>6. k + 2 \in Nat
  OBVIOUS
<1>7. DecodeInfos(b, k + 2, N) = [gossip |-> g, next |-> k + 2 + l]
  BY <1>0, <1>1, <1>4, <1>6, DecodeGossip, Zenon
<1> HIDE DEF l
<1>8. k + 2 + l = k + Len(swim_encode_gossip(g))
  <2>1. 2 + l \in Nat
    BY <1>2
  <2>2. swim_encode_gossip(g) \in Bytes(2 + l)
    BY <1>1, <1>2, <1>3, BytesConcat, Zenon
  <2>3. Len(swim_encode_gossip(g)) = 2 + l
    BY <2>1, <2>2, BytesSeq, Zenon
  <2>4. k + 2 + l = k + (2 + l)
    BY <1>2
  <2>. QED BY <2>3, <2>4, Zenon
<1>9. DecodeInfos(b, k + 2, N)
        = [gossip |-> g, next |-> k + Len(swim_encode_gossip(g))]
  BY <1>7, <1>8, Zenon
<1>10. /\ DecodeInfos(b, k + 2, N).gossip = g
       /\ DecodeInfos(b, k + 2, N).next = k + Len(swim_encode_gossip(g))
  BY <1>9
<1>. QED BY <1>0, <1>5, <1>10, Zenon

------------------------------------------------------------------------------
\* The header

\* The packet length 36 as swim_encode_event_header leaves it in memory:
\* little-endian, the one byte that is not zero comes first.
LEMMA LengthBytes ==
  ASSUME LittleEndian
  PROVE  /\ Host(Zeros(7) \o <<36>>)[1] = 36
         /\ \A i \in 2..8 : Host(Zeros(7) \o <<36>>)[i] = 0
<1> DEFINE z == Zeros(7) \o <<36>>
<1>1. ASSUME NEW n \in Nat, NEW x \in Seq(Byte), Len(x) = n, NEW y \in Byte
      PROVE  /\ x \o <<y>> \in Seq(Byte) /\ Len(x \o <<y>>) = n + 1
             /\ \A i \in 1..n : (x \o <<y>>)[i] = x[i]
             /\ (x \o <<y>>)[n + 1] = y
  BY <1>1
<1>2. Zeros(7) \in Seq(Byte) /\ Len(Zeros(7)) = 7 /\ \A i \in 1..7 : Zeros(7)[i] = 0
  BY DEF Zeros, Byte
<1>3. 36 \in Byte /\ 7 \in Nat /\ 7 + 1 = 8
  BY DEF Byte
<1>4. z \in Seq(Byte) /\ Len(z) = 8 /\ z[8] = 36 /\ \A i \in 1..7 : z[i] = 0
  <2>1. /\ z \in Seq(Byte) /\ Len(z) = 7 + 1
        /\ \A i \in 1..7 : z[i] = Zeros(7)[i]
        /\ z[7 + 1] = 36
    BY <1>1, <1>2, <1>3, Zenon
  <2>. QED BY <1>2, <1>3, <2>1, Zenon
<1>5. Host(z) = [i \in DOMAIN z |-> z[Len(z) + 1 - i]]
  BY Zenon DEF Host
<1> HIDE DEF z
<1>6. ASSUME NEW i \in 1..8 PROVE Host(z)[i] = z[(8 - i) + 1]
  <2>1. DOMAIN z = 1..8 /\ Len(z) + 1 - i = (8 - i) + 1
    BY <1>4
  <2>. QED BY <1>5, <2>1, Zenon
<1>7. Host(z)[1] = z[8]
  <2>1. 8 \in Nat /\ 1 \in 1..8 /\ (8 - 1) + 1 = 8
    OBVIOUS
  <2>. QED BY <1>4, <1>6, <2>1, Zenon
<1>8. ASSUME NEW i \in 2..8 PROVE Host(z)[i] = 0
  <2>1. 8 \in Nat /\ i \in 1..8 /\ (8 - i) + 1 \in 1..7
    OBVIOUS
  <2>. QED BY <1>4, <1>6, <2>1, Zenon
<1>. QED BY <1>4, <1>5, <1>7, <1>8, Zenon DEF z

\* The length is stored over the upper half of the time.
Stored(b) ==
  [i \in DOMAIN b |->
     IF i \in 5..12 THEN Host(Zeros(7) \o <<Len(b)>>)[i - 4] ELSE b[i]]

\* Storing the length touches only the upper half of the time and the reserved
\* bytes before it, and leaves the lower half of what it touches cleared.
LEMMA StoreLength ==
  ASSUME LittleEndian, NEW b \in Bytes(36)
  PROVE  /\ Stored(b) \in Bytes(36)
         /\ \A i \in 1..36 : i \notin 5..12 => Stored(b)[i] = b[i]
         /\ \A i \in 9..12 : Stored(b)[i] = 0
<1> DEFINE plen == Host(Zeros(7) \o <<Len(b)>>)
<1>0. Len(b) = 36
  <2>1. 36 \in Nat
    OBVIOUS
  <2>. QED BY <2>1, BytesSeq, Zenon
<1>1. plen[1] = 36 /\ \A i \in 2..8 : plen[i] = 0
  BY <1>0, LengthBytes, Zenon
<1>2. DOMAIN b = 1..36 /\ \A i \in 1..36 : b[i] \in Byte
  BY Zenon DEF Bytes
<1>3. Stored(b) = [i \in 1..36 |-> IF i \in 5..12 THEN plen[i - 4] ELSE b[i]]
  BY <1>2, Zenon DEF Stored
<1> HIDE DEF plen
<1>4. \A i \in 1..36 : Stored(b)[i] = IF i \in 5..12 THEN plen[i - 4] ELSE b[i]
  BY <1>3, Zenon
<1>5. \A i \in 5..12 : plen[i - 4] \in Byte
  <2>1. 36 \in Byte /\ 0 \in Byte
    BY DEF Byte
  <2>2. \A i \in 5..12 : i - 4 = 1 \/ i - 4 \in 2..8
    OBVIOUS
  <2>. QED BY <1>1, <2>1, <2>2, Zenon
<1>6. Stored(b) \in Bytes(36)
  BY <1>2, <1>3, <1>5, Zenon DEF Bytes
<1>7. \A i \in 9..12 : i \in 1..36 /\ i \in 5..12 /\ i - 4 \in 2..8
  OBVIOUS
<1>8. \A i \in 1..36 : i \notin 5..12 => Stored(b)[i] = b[i]
  BY <1>4, Zenon
<1>9. ASSUME NEW i \in 9..12 PROVE Stored(b)[i] = 0
  <2>1. Stored(b)[i] = plen[i - 4]
    BY <1>4, <1>7
  <2>. QED BY <1>1, <1>7, <2>1, Zenon
<1>. QED BY <1>6, <1>8, <1>9, Zenon

\* What a header holds outside the stored length it still holds afterwards.
LEMMA StoredElsewhere ==
  ASSUME LittleEndian, NEW b \in Bytes(36), NEW k \in Nat, NEW n \in Nat,
         NEW x \in Bytes(n), Holds(b, k, x), \A i \in 1..n : k + i \notin 5..12
  PROVE  Holds(Stored(b), k, x)
<1> DEFINE h == Stored(b)
<1>1. h \in Bytes(36) /\ \A i \in 1..36 : i \notin 5..12 => h[i] = b[i]
  BY StoreLength, Zenon
<1>2. Len(b) = 36 /\ Len(h) = 36 /\ Len(x) = n
  <2>1. 36 \in Nat
    OBVIOUS
  <2>. QED BY <1>1, <2>1, BytesSeq, Zenon
<1>3. k + n <= 36 /\ \A i \in 1..n : b[k + i] = x[i]
  BY <1>2, Zenon DEF Holds
<1>4. \A i \in 1..n : k + i \in 1..36
  BY <1>3
<1>5. \A i \in 1..n : h[k + i] = x[i]
  <2> HIDE DEF h
  <2>. QED BY <1>1, <1>3, <1>4
<1>. QED BY <1>2, <1>3, <1>5, Zenon DEF Holds

\* The header before the length is stored
HeaderBytes(v, t, z, time, uuid, inc) == v \o t \o z \o time \o uuid \o inc

\* Where the fields of a header lie.
LEMMA HeaderParts ==
  ASSUME NEW v \in Bytes(2), NEW t \in Bytes(2), NEW z \in Bytes(4),
         NEW time \in Bytes(8), NEW uuid \in Bytes(16), NEW inc \in Bytes(4)
  PROVE  /\ HeaderBytes(v, t, z, time, uuid, inc) \in Bytes(36)
         /\ Holds(HeaderBytes(v, t, z, time, uuid, inc), 2, t)
         /\ Holds(HeaderBytes(v, t, z, time, uuid, inc), 8, time)
         /\ Holds(HeaderBytes(v, t, z, time, uuid, inc), 16, uuid)
         /\ Holds(HeaderBytes(v, t, z, time, uuid, inc), 32, inc)
<1> DEFINE y2 == v \o t
           y3 == y2 \o z
           y4 == y3 \o time
           y5 == y4 \o uuid
           b == HeaderBytes(v, t, z, time, uuid, inc)
<1>1. /\ 2 \in Nat /\ 4 \in Nat /\ 8 \in Nat /\ 16 \in Nat
      /\ 32 \in Nat /\ 36 \in Nat
  OBVIOUS
<1>2. 2 + 2 = 4 /\ 4 + 4 = 8 /\ 8 + 8 = 16 /\ 16 + 16 = 32 /\ 32 + 4 = 36
  OBVIOUS
<1>3. y2 \in Bytes(4)
  BY <1>1, <1>2, BytesConcat, Zenon
<1>4. y3 \in Bytes(8)
  BY <1>1, <1>2, <1>3, BytesConcat, Zenon
<1>5. y4 \in Bytes(16)
  BY <1>1, <1>2, <1>4, BytesConcat, Zenon
<1>6. y5 \in Bytes(32)
  BY <1>1, <1>2, <1>5, BytesConcat, Zenon
<1>7. y5 \o inc \in Bytes(36)
  BY <1>1, <1>2, <1>6, BytesConcat, Zenon
<1>8. b = y5 \o inc
  BY Zenon DEF HeaderBytes
<1>9. b \in Seq(Byte) /\ Holds(b, 0, y5 \o inc) /\ b \in Bytes(36)
  BY <1>1, <1>7, <1>8, BytesSeq, HoldsSelf, Zenon
<1> HIDE DEF b
<1>10. Holds(b, 0, y5) /\ Holds(b, 32, inc)
  <2> HIDE DEF y5
  <2>. QED BY <1>1, <1>6, <1>9, HoldsStart, Zenon
<1>11. Holds(b, 0, y4) /\ Holds(b, 16, uuid)
  <2> HIDE DEF y4
  <2>. QED BY <1>1, <1>5, <1>9, <1>10, HoldsStart, Zenon
<1>12. Holds(b, 0, y3) /\ Holds(b, 8, time)
  <2> HIDE DEF y3
  <2>. QED BY <1>1, <1>4, <1>9, <1>11, HoldsStart, Zenon
<1>13. Holds(b, 0, y2)
  <2> HIDE DEF y2
  <2>1. Holds(b, 0, y2 \o z)
    BY <1>12, Zenon
  <2>2. 4 \in Nat
    OBVIOUS
  <2>3. Holds(b, 0, y2) /\ Holds(b, 4, z)
    BY <1>3, <1>9, <2>1, <2>2, HoldsStart, Zenon
  <2>. QED BY <2>3, Zenon
<1>14. Holds(b, 2, t)
  BY <1>1, <1>9, <1>13, HoldsStart, Zenon
<1>. QED BY <1>9, <1>10, <1>11, <1>12, <1>14, Zenon DEF b

\* The parts of the header lie where swim_decode_event_header reads them.
LEMMA EncodeHeader ==
  ASSUME LittleEndian, NEW e,
         e.type \in Uint16, e.time \in Time,
         e.uuid \in Bytes(16), e.incarnation \in Bytes(4)
  PROVE  /\ swim_encode_event_header(e) \in Bytes(36)
         /\ Holds(swim_encode_event_header(e), 2, swim_encode_uint16(e.type))
         /\ Holds(swim_encode_event_header(e), 8, e.time)
         /\ Holds(swim_encode_event_header(e), 16, e.uuid)
         /\ Holds(swim_encode_event_header(e), 32, e.incarnation)
<1> DEFINE t == swim_encode_uint16(e.type)
           b == swim_encode_uint16(1) \o t \o Zeros(4) \o e.time \o e.uuid
                  \o e.incarnation
           h == swim_encode_event_header(e)
<1>0. e.time \in Bytes(8) /\ \A i \in 1..4 : e.time[i] = 0
  BY Zenon DEF Time
<1>1. h = Stored(b)
  BY Zenon DEF swim_encode_event_header, Stored
<1>2. t \in Bytes(2)
  BY EncodeUint16
<1>3. swim_encode_uint16(1) \in Bytes(2)
  <2>1. 1 \in Uint16
    BY DEF Uint16
  <2>. QED BY <2>1, EncodeUint16
<1>4. Zeros(4) \in Bytes(4)
  <2>1. 4 \in Nat
    OBVIOUS
  <2>. QED BY <2>1, ZerosBytes, Zenon
<1>5. /\ b \in Bytes(36)
      /\ Holds(b, 2, t) /\ Holds(b, 8, e.time)
      /\ Holds(b, 16, e.uuid) /\ Holds(b, 32, e.incarnation)
  <2>1. b = HeaderBytes(swim_encode_uint16(1), t, Zeros(4), e.time, e.uuid,
                        e.incarnation)
    BY Zenon DEF HeaderBytes
  <2> HIDE DEF t, b
  <2> DEFINE v == swim_encode_uint16(1)
             z == Zeros(4)
             u == e.uuid
             n == e.incarnation
             s == e.time
             x == HeaderBytes(v, t, z, s, u, n)
  <2>2. /\ v \in Bytes(2) /\ z \in Bytes(4) /\ u \in Bytes(16)
        /\ n \in Bytes(4) /\ s \in Bytes(8)
    BY <1>0, <1>3, <1>4, Zenon
  <2> HIDE DEF v, z, u, n, s
  <2>3. /\ x \in Bytes(36) /\ Holds(x, 2, t) /\ Holds(x, 8, s)
        /\ Holds(x, 16, u) /\ Holds(x, 32, n)
    BY <1>2, <2>2, HeaderParts, Zenon
  <2>. QED BY <2>1, <2>3, Zenon DEF v, z, u, n, s
<1> HIDE DEF b, t, h
<1>6. /\ h \in Bytes(36)
      /\ \A i \in 1..36 : i \notin 5..12 => h[i] = b[i]
      /\ \A i \in 9..12 : h[i] = 0
  BY <1>1, <1>5, StoreLength, Zenon
<1>8. /\ 2 \in Nat /\ 4 \in Nat /\ 16 \in Nat /\ 32 \in Nat
      /\ \A i \in 1..2 : 2 + i \notin 5..12
      /\ \A i \in 1..16 : 16 + i \notin 5..12
      /\ \A i \in 1..4 : 32 + i \notin 5..12
  OBVIOUS
<1>9. Holds(h, 2, t)
  BY <1>1, <1>2, <1>5, <1>8, StoredElsewhere, Zenon
<1>10. Holds(h, 16, e.uuid)
  BY <1>1, <1>5, <1>8, StoredElsewhere, Zenon
<1>11. Holds(h, 32, e.incarnation)
  BY <1>1, <1>5, <1>8, StoredElsewhere, Zenon
<1>12. Holds(h, 8, e.time)
  <2>0. Len(e.time) = 8 /\ Len(h) = 36
    <3>1. 8 \in Nat /\ 36 \in Nat
      OBVIOUS
    <3>. QED BY <1>0, <1>6, <3>1, BytesSeq, Zenon
  <2>1. ASSUME NEW i \in 1..8 PROVE h[8 + i] = e.time[i]
    <3>1. CASE i \in 1..4
      <4>1. 8 + i \in 9..12
        BY <3>1
      <4>. QED BY <1>0, <1>6, <3>1, <4>1, Zenon
    <3>2. CASE i \notin 1..4
      <4>1. 8 + i \notin 5..12 /\ 8 + i \in 1..36
        BY <3>2
      <4>2. b[8 + i] = e.time[i]
        <5>1. \A j \in 1..Len(e.time) : b[8 + j] = e.time[j]
          BY <1>5, Zenon DEF Holds
        <5>. QED BY <2>0, <5>1, Zenon
      <4>. QED BY <1>6, <4>1, <4>2, Zenon
    <3>. QED BY <3>1, <3>2
  <2>2. 8 + 8 <= 36
    OBVIOUS
  <2>. QED BY <2>0, <2>1, <2>2, Zenon DEF Holds
<1>. QED BY <1>6, <1>9, <1>10, <1>11, <1>12, Zenon DEF t, h

\* The fields of an event and what they range over.
LEMMA EventParts ==
  ASSUME NEW e \in Event
  PROVE  /\ e.type \in EventType /\ e.type \in Uint16 /\ e.time \in Time
         /\ e.uuid \in Bytes(16) /\ e.incarnation \in Bytes(4)
         /\ IF e.type = PING THEN e.arg = <<>> ELSE e.arg \in Bytes(16)
         /\ e.addr \in SockAddr /\ (e.type # JOIN => e.addr = <<>>)
         /\ e.gossip \in Seq(NodeInfo) /\ Len(e.gossip) <= MAX_GOSSIP_SIZE
         /\ e = [type |-> e.type, time |-> e.time, uuid |-> e.uuid,
                 incarnation |-> e.incarnation, arg |-> e.arg, addr |-> e.addr,
                 gossip |-> e.gossip]
<1>1. e \in [type : EventType, time : Time, uuid : Bytes(16),
             incarnation : Bytes(4), arg : Bytes(16) \cup {<<>>},
             addr : SockAddr, gossip : Seq(NodeInfo)]
  BY Zenon DEF Event
<1>2. /\ e.type = PING <=> e.arg = <<>>
      /\ e.type # JOIN => e.addr = <<>>
      /\ Len(e.gossip) <= MAX_GOSSIP_SIZE
  BY Zenon DEF Event
<1>3. /\ e.type \in EventType /\ e.time \in Time /\ e.uuid \in Bytes(16)
      /\ e.incarnation \in Bytes(4) /\ e.arg \in Bytes(16) \cup {<<>>}
      /\ e.addr \in SockAddr /\ e.gossip \in Seq(NodeInfo)
  BY <1>1
<1>4. e = [type |-> e.type, time |-> e.time, uuid |-> e.uuid,
           incarnation |-> e.incarnation, arg |-> e.arg, addr |-> e.addr,
           gossip |-> e.gossip]
  BY <1>1
<1>5. EventType \subseteq Uint16
  BY DEF EventType, PING, ACK, PING_REQ, JOIN, LEAVE, Uint16
<1>. QED BY <1>2, <1>3, <1>4, <1>5, Zenon

\* swim_decode_event_header reads back what swim_encode_event_header wrote.
LEMMA DecodeHeader ==
  ASSUME LittleEndian, NEW e \in Event, NEW b \in Seq(Byte),
         Holds(b, 0, swim_encode_event_header(e))
  PROVE  swim_decode_event_header(b)
           = [type |-> e.type, time |-> e.time, uuid |-> e.uuid,
              incarnation |-> e.incarnation, next |-> 36]
<1> DEFINE h == swim_encode_event_header(e)
           t == swim_encode_uint16(e.type)
<1>0. /\ e.type \in Uint16 /\ e.time \in Time
      /\ e.uuid \in Bytes(16) /\ e.incarnation \in Bytes(4) /\ e.time \in Bytes(8)
  BY EventParts, Zenon DEF Time
<1>1. /\ h \in Bytes(36) /\ Holds(h, 2, t) /\ Holds(h, 8, e.time)
      /\ Holds(h, 16, e.uuid) /\ Holds(h, 32, e.incarnation)
  BY <1>0, EncodeHeader, Zenon
<1>2. t \in Bytes(2)
  BY <1>0, EncodeUint16, Zenon
<1>3. /\ 2 \in Nat /\ 4 \in Nat /\ 8 \in Nat /\ 16 \in Nat
      /\ 32 \in Nat /\ 36 \in Nat
  OBVIOUS
<1>4. /\ h \in Seq(Byte) /\ t \in Seq(Byte) /\ e.time \in Seq(Byte)
      /\ e.uuid \in Seq(Byte) /\ e.incarnation \in Seq(Byte)
  BY <1>0, <1>1, <1>2, <1>3, BytesSeq, Zenon
<1>5. Holds(b, 0, h)
  OBVIOUS
<1> HIDE DEF h, t
<1>6. Holds(b, 2, t)
  BY <1>1, <1>3, <1>4, <1>5, HoldsTransitive, Zenon
<1>7. Holds(b, 8, e.time)
  BY <1>1, <1>3, <1>4, <1>5, HoldsTransitive, Zenon
<1>8. Holds(b, 16, e.uuid)
  BY <1>1, <1>3, <1>4, <1>5, HoldsTransitive, Zenon
<1>9. Holds(b, 32, e.incarnation)
  BY <1>1, <1>3, <1>4, <1>5, HoldsTransitive, Zenon
<1>10. swim_decode_uint16(b, 2) = e.type
  BY <1>0, <1>3, <1>6, DecodeUint16, Zenon DEF t
<1>11. Read(b, 8, 8) = e.time
  BY <1>0, <1>3, <1>7, ReadHeld, Zenon
<1>12. Read(b, 16, 16) = e.uuid
  BY <1>0, <1>3, <1>8, ReadHeld, Zenon
<1>13. Read(b, 32, 4) = e.incarnation
  BY <1>0, <1>3, <1>9, ReadHeld, Zenon
<1>. QED BY <1>10, <1>11, <1>12, <1>13, Zenon DEF swim_decode_event_header

------------------------------------------------------------------------------
\* The payload

PayloadSize(e) ==
  CASE e.type = PING -> 0
    [] e.type = JOIN -> 18 + Len(e.addr)
    [] OTHER -> 16

\* The size of the payload of each type of event; none exceeds that of a JOIN
\* with the longest address.
LEMMA PayloadSizes ==
  ASSUME NEW e \in Event
  PROVE  /\ PayloadSize(e) \in Nat /\ PayloadSize(e) <= 18 + SizeofSockAddr
         /\ e.type = PING => PayloadSize(e) = 0
         /\ e.type = JOIN => PayloadSize(e) = 18 + Len(e.addr)
         /\ e.type \notin {PING, JOIN} => PayloadSize(e) = 16
<1>1. /\ e.type = PING => PayloadSize(e) = 0
      /\ e.type = JOIN => PayloadSize(e) = 18 + Len(e.addr)
      /\ e.type \notin {PING, JOIN} => PayloadSize(e) = 16
  <2>1. PING # JOIN
    BY DEF PING, JOIN
  <2>. QED BY <2>1, Zenon DEF PayloadSize
<1> DEFINE n == Len(e.addr)
<1>2. n \in Nat /\ n <= SizeofSockAddr
  BY EventParts, SockAddrBytes, Zenon
<1> HIDE DEF n
<1>3. PayloadSize(e) \in {0, 18 + n, 16}
  BY <1>1, Zenon DEF n
<1>4. PayloadSize(e) \in Nat /\ PayloadSize(e) <= 18 + SizeofSockAddr
  BY <1>2, <1>3, Sizes
<1>. QED BY <1>1, <1>4, Zenon

\* The payload takes PayloadSize bytes.
LEMMA EncodePayloadBytes ==
  ASSUME NEW e \in Event
  PROVE  EncodePayload(e) \in Bytes(PayloadSize(e))
<1>0. PING # JOIN
  BY DEF PING, JOIN
<1>1. CASE e.type = PING
  <2>1. EncodePayload(e) = <<>> /\ PayloadSize(e) = 0
    BY <1>0, <1>1, PayloadSizes, Zenon DEF EncodePayload
  <2>2. <<>> \in Bytes(0)
    BY DEF Bytes
  <2>. QED BY <2>1, <2>2, Zenon
<1>2. CASE e.type = JOIN
  <2> DEFINE n == Len(e.addr)
             a == swim_encode_varlen(e.addr)
  <2>1. EncodePayload(e) = e.arg \o a /\ PayloadSize(e) = 18 + n
    BY <1>0, <1>2, PayloadSizes, Zenon DEF EncodePayload
  <2>2. e.arg \in Bytes(16) /\ a \in Bytes(2 + n) /\ n \in Nat
    BY <1>0, <1>2, EventParts, EncodeVarlen, SockAddrBytes, Zenon
  <2> HIDE DEF n, a
  <2>3. 16 \in Nat /\ 2 + n \in Nat /\ 16 + (2 + n) = 18 + n
    BY <2>2
  <2>4. e.arg \o a \in Bytes(16 + (2 + n))
    BY <2>2, <2>3, BytesConcat, Zenon
  <2>. QED BY <2>1, <2>3, <2>4, Zenon
<1>3. CASE e.type \notin {PING, JOIN}
  <2>1. EncodePayload(e) = e.arg /\ PayloadSize(e) = 16
    BY <1>3, PayloadSizes, Zenon DEF EncodePayload
  <2>2. e.arg \in Bytes(16)
    BY <1>3, EventParts, Zenon
  <2>. QED BY <2>1, <2>2, Zenon
<1>. QED BY <1>1, <1>2, <1>3, Zenon

\* Each type's payload is read back, and the gossip begins behind it.
LEMMA DecodePayloadHeld ==
  ASSUME NEW e \in Event, NEW b \in Seq(Byte), NEW h,
         h.type = e.type, h.next = 36, Holds(b, 36, EncodePayload(e))
  PROVE  DecodePayload(b, h)
           = [arg |-> e.arg, addr |-> e.addr, next |-> 36 + PayloadSize(e)]
<1>0. PING # JOIN
  BY DEF PING, JOIN
<1>1. CASE e.type = PING
  <2>1. e.arg = <<>> /\ e.addr = <<>> /\ PayloadSize(e) = 0
    BY <1>0, <1>1, EventParts, PayloadSizes, Zenon
  <2>2. 36 + 0 = 36
    OBVIOUS
  <2>3. DecodePayload(b, h) = [arg |-> <<>>, addr |-> <<>>, next |-> 36]
    BY <1>0, <1>1, Zenon DEF DecodePayload
  <2>. QED BY <2>1, <2>2, <2>3, Zenon
<1>2. CASE e.type = JOIN
  <2> DEFINE n == Len(e.addr)
             a == swim_encode_varlen(e.addr)
             k == 36 + 16
             d == swim_decode_varlen(b, k)
  <2>1. EncodePayload(e) = e.arg \o a /\ PayloadSize(e) = 18 + n
    BY <1>0, <1>2, PayloadSizes, Zenon DEF EncodePayload
  <2>2. e.arg \in Bytes(16) /\ a \in Bytes(2 + n) /\ n \in Nat /\ e.addr \in SockAddr
    BY <1>0, <1>2, EventParts, EncodeVarlen, SockAddrBytes, Zenon
  <2>3. 16 \in Nat /\ 2 + n \in Nat /\ 36 \in Nat /\ k \in Nat
    BY <2>2
  <2>4. Holds(b, 36, e.arg) /\ Holds(b, k, a)
    <3>1. Holds(b, 36, e.arg \o a)
      BY <2>1, Zenon
    <3> HIDE DEF n, a
    <3>. QED BY <2>2, <2>3, <3>1, HoldsConcat, Zenon
  <2>5. d.data = e.addr /\ d.next = k + 2 + n
    <3> DEFINE c == e.addr
    <3>1. c \in SockAddr /\ k \in Nat /\ Holds(b, k, swim_encode_varlen(c))
      BY <2>2, <2>3, <2>4, Zenon
    <3> HIDE DEF k, c
    <3>2. /\ swim_decode_varlen(b, k).data = c
          /\ swim_decode_varlen(b, k).next = k + 2 + Len(c)
      BY <3>1, DecodeVarlen
    <3>. QED BY <3>2, Zenon DEF c
  <2>6. Read(b, 36, 16) = e.arg
    BY <2>2, <2>3, <2>4, ReadHeld, Zenon
  <2>7. k + 2 + n = 36 + (18 + n)
    <3> HIDE DEF n
    <3>. QED BY <2>2
  <2>8. DecodePayload(b, h)
          = [arg |-> Read(b, 36, 16), addr |-> d.data, next |-> d.next]
    BY <1>0, <1>2, Zenon DEF DecodePayload
  <2>. QED BY <2>1, <2>5, <2>6, <2>7, <2>8, Zenon
<1>3. CASE e.type \notin {PING, JOIN}
  <2>1. EncodePayload(e) = e.arg /\ PayloadSize(e) = 16
    BY <1>3, PayloadSizes, Zenon DEF EncodePayload
  <2>2. e.arg \in Bytes(16) /\ e.addr = <<>>
    BY <1>3, EventParts, Zenon
  <2>3. 16 \in Nat /\ 36 \in Nat
    OBVIOUS
  <2>4. Read(b, 36, 16) = e.arg
    BY <2>1, <2>2, <2>3, ReadHeld, Zenon
  <2>5. DecodePayload(b, h)
          = [arg |-> Read(b, 36, 16), addr |-> <<>>, next |-> 36 + 16]
    BY <1>3, Zenon DEF DecodePayload
  <2>. QED BY <2>1, <2>2, <2>4, <2>5, Zenon
<1>. QED BY <1>1, <1>2, <1>3, Zenon

------------------------------------------------------------------------------
\* The room for the gossip

\* Multiplication by a natural is monotonic.
LEMMA Monotone ==
  ASSUME NEW s \in Nat, NEW m \in Nat, NEW n \in Nat, m <= n
  PROVE  s * m <= s * n
<1>1. n - m \in Nat /\ n = m + (n - m)
  OBVIOUS
<1>2. \A d \in Nat : s * (m + d) = s * m + s * d /\ s * d >= 0 /\ s * m \in Nat /\ s * d \in Nat
  OBVIOUS
<1>3. s * (m + (n - m)) >= s * m
  <2> DEFINE d == n - m
  <2>1. s * (m + d) = s * m + s * d /\ s * m \in Nat /\ s * d \in Nat
    BY <1>1, <1>2, Zenon
  <2> HIDE DEF d
  <2>. QED BY <2>1 DEF d
<1>4. s * n >= s * m
  BY <1>1, <1>3, Zenon
<1>. QED BY <1>4

\* Integer division rounds down.
LEMMA Division ==
  ASSUME NEW s \in Nat \ {0}, NEW n \in Nat
  PROVE  /\ n \div s \in Nat /\ s * (n \div s) \in Nat
         /\ s * (n \div s) <= n /\ n < s * (n \div s) + s
<1>1. n \div s \in Nat
  BY Z3
<1>2. s * (n \div s) <= n /\ n < s * (n \div s) + s
  BY Z3
<1>3. \A q \in Nat : s * q \in Nat
  OBVIOUS
<1>. QED BY <1>1, <1>2, <1>3, Zenon

\* Integer division is monotonic.
LEMMA DivisionMonotone ==
  ASSUME NEW s \in Nat \ {0}, NEW m \in Nat, NEW n \in Nat, m <= n
  PROVE  m \div s <= n \div s
<1> DEFINE p == m \div s
           q == n \div s
<1>1. /\ p \in Nat /\ q \in Nat
      /\ s * p <= m /\ n < s * q + s /\ s * p \in Nat /\ s * q \in Nat
  BY Division, Zenon
<1> HIDE DEF p, q
<1>2. SUFFICES ASSUME ~(p <= q) PROVE FALSE
  BY DEF p, q
<1>3. q + 1 \in Nat /\ q + 1 <= p
  BY <1>1, <1>2
<1>4. s * (q + 1) <= s * p
  BY <1>1, <1>3, Monotone
<1>5. s * (q + 1) = s * q + s
  BY <1>1
<1>. QED BY <1>1, <1>4, <1>5

\* Where the gossip may begin, the capacity that is computed there is enough
\* for a full load and does not exceed the decoded event's buffer.
LEMMA Capacity ==
  ASSUME NEW k \in Nat, 36 <= k, k <= 54 + SizeofSockAddr
  PROVE  /\ GossipCapacity(k) \in Nat /\ MAX_GOSSIP_SIZE <= GossipCapacity(k)
         /\ SizeofEvent + GossipCapacity(k) * SizeofNodeInfo <= MAX_PACKET_SIZE
<1> DEFINE s == SizeofNodeInfo
           M == MAX_GOSSIP_SIZE
           P == MAX_PACKET_SIZE
           n == P - k - 2
           u == P - 38
           q == n \div s
           r == u \div s
<1>1. /\ s \in Nat \ {0} /\ M \in Nat /\ P \in Nat /\ SizeofSockAddr \in Nat
      /\ SizeofEvent \in Nat
  BY Sizes, SizeAssumption
<1>2. s * M \in Nat /\ s * M = M * s
  BY <1>1
<1>3. 56 + SizeofSockAddr + s * M <= P /\ SizeofEvent + s * r <= P
  <2>1. 56 + SizeofSockAddr + M * s <= P /\ SizeofEvent + s * r <= P
    BY RoomAssumption, Zenon
  <2>. QED BY <1>2, <2>1, Zenon
<1> HIDE DEF s, M, P
<1>4. n \in Nat /\ u \in Nat /\ n <= u /\ s * M <= n
  <2>1. 56 + SizeofSockAddr + s * M <= P
    BY <1>3, Zenon
  <2> HIDE DEF r
  <2>. QED BY <1>1, <1>2, <2>1
<1> HIDE DEF n, u
<1>5. q \in Nat /\ r \in Nat /\ s * q \in Nat /\ n < s * q + s /\ s * r \in Nat
  BY <1>1, <1>4, Division, Zenon
<1>6. q <= r
  BY <1>1, <1>4, DivisionMonotone, Zenon
<1> HIDE DEF q, r
<1>7. M <= q
  <2> SUFFICES ASSUME ~(M <= q) PROVE FALSE
    OBVIOUS
  <2>1. q + 1 \in Nat /\ q + 1 <= M
    BY <1>1, <1>5
  <2>2. s * (q + 1) <= s * M
    BY <1>1, <2>1, Monotone
  <2>3. s * (q + 1) = s * q + s
    BY <1>1, <1>5
  <2> DEFINE x == s * M
             y == s * q
  <2>4. /\ x \in Nat /\ y \in Nat /\ y + s <= x /\ x <= n /\ n < y + s
    BY <1>2, <1>4, <1>5, <2>2, <2>3, Zenon
  <2> HIDE DEF x, y
  <2>. QED BY <1>1, <1>4, <2>4
<1>8. s * q <= s * r /\ s * q = q * s
  BY <1>1, <1>5, <1>6, Monotone
<1>9. SizeofEvent + q * s <= P
  <2>1. SizeofEvent + s * q <= SizeofEvent + s * r
    BY <1>1, <1>5, <1>8
  <2>2. SizeofEvent + s * q <= P
    BY <1>1, <1>3, <1>5, <2>1
  <2>. QED BY <1>8, <2>2, Zenon
<1>10. GossipCapacity(k) = q
  BY Zenon DEF GossipCapacity, q, n, s, P
<1>. QED BY <1>5, <1>7, <1>9, <1>10, Zenon DEF s, M, P

------------------------------------------------------------------------------
\* Events

\* An encoded event fits the packet with as much gossip as swim_fill_gossip
\* adds.
LEMMA EncodeEvent ==
  ASSUME LittleEndian, NEW e \in Event
  PROVE  /\ swim_encode_event(e) \in Seq(Byte)
         /\ Len(swim_encode_event(e))
              = 36 + PayloadSize(e) + Len(swim_encode_gossip(e.gossip))
         /\ Len(swim_encode_event(e)) <= MAX_PACKET_SIZE
         /\ Len(e.gossip) \in Uint16
         /\ swim_encode_gossip(e.gossip) \in Seq(Byte)
<1> DEFINE h == swim_encode_event_header(e)
           p == EncodePayload(e)
           g == swim_encode_gossip(e.gossip)
           N == Len(e.gossip)
           s == SizeofNodeInfo
           m == PayloadSize(e)
<1>1. h \in Bytes(36)
  BY EventParts, EncodeHeader, Zenon
<1>2. p \in Bytes(m) /\ m \in Nat /\ m <= 18 + SizeofSockAddr
  BY EncodePayloadBytes, PayloadSizes, Zenon
<1>3. e.gossip \in Seq(NodeInfo) /\ N <= MAX_GOSSIP_SIZE
  BY EventParts, Zenon
<1>4. N \in Nat
  BY <1>3
<1>5. /\ s \in Nat /\ SizeofSockAddr \in Nat /\ MAX_PACKET_SIZE \in Nat
      /\ MAX_GOSSIP_SIZE \in Nat /\ MAX_PACKET_SIZE \in Uint16
  BY Sizes, SizeAssumption, Zenon
<1> HIDE DEF h, p, m, N
<1>6. /\ N * s \in Nat /\ N * s <= MAX_GOSSIP_SIZE * s
      /\ MAX_GOSSIP_SIZE * s \in Nat /\ N <= N * s
  <2>0. 1 <= s
    BY Sizes, SizeAssumption
  <2> HIDE DEF s
  <2>1. s * N <= s * MAX_GOSSIP_SIZE
    BY <1>3, <1>4, <1>5, Monotone, Zenon
  <2>2. \A n \in Nat : s * n = n * s /\ n * s \in Nat
    BY <1>5
  <2>3. N * 1 <= N * s
    BY <1>4, <1>5, <2>0, Monotone
  <2>4. N * 1 = N
    BY <1>4
  <2>. QED BY <1>4, <1>5, <2>1, <2>2, <2>3, <2>4, Zenon
<1>7. 56 + SizeofSockAddr + MAX_GOSSIP_SIZE * s <= MAX_PACKET_SIZE
  BY RoomAssumption, Zenon
<1> HIDE DEF s
<1>8. N \in Uint16
  <2>1. \A x, y \in Nat : x <= y /\ y \in Uint16 => x \in Uint16
    BY DEF Uint16
  <2>2. N <= MAX_PACKET_SIZE
    BY <1>4, <1>5, <1>6, <1>7
  <2>. QED BY <1>4, <1>5, <2>1, <2>2, Zenon
<1>9. g \in Seq(Byte) /\ Len(g) <= 2 + N * s
  BY <1>3, <1>8, EncodeGossip, Zenon DEF N, s
<1> DEFINE l == Len(g)
<1>10. g \in Bytes(l) /\ l \in Nat
  BY <1>9, SeqBytes, Zenon
<1> HIDE DEF g
<1>11. swim_encode_event(e) = (h \o p) \o g
  BY Zenon DEF swim_encode_event, h, p, g
<1>12. l <= 2 + N * s
  BY <1>9
<1> HIDE DEF l
<1>13. 36 \in Nat /\ 36 + m \in Nat /\ 36 + m + l \in Nat
  BY <1>2, <1>10
<1>14. h \o p \in Bytes(36 + m)
  BY <1>1, <1>2, <1>13, BytesConcat, Zenon
<1>15. (h \o p) \o g \in Bytes(36 + m + l)
  BY <1>10, <1>13, <1>14, BytesConcat, Zenon
<1>16. (h \o p) \o g \in Seq(Byte) /\ Len((h \o p) \o g) = 36 + m + l
  BY <1>13, <1>15, BytesSeq, Zenon
<1>17. 36 + m + l <= MAX_PACKET_SIZE
  <2> DEFINE x == N * s
             y == MAX_GOSSIP_SIZE * s
  <2>1. /\ x \in Nat /\ y \in Nat /\ x <= y /\ l <= 2 + x
        /\ 56 + SizeofSockAddr + y <= MAX_PACKET_SIZE
    BY <1>6, <1>7, <1>12, Zenon
  <2> HIDE DEF x, y
  <2>. QED BY <1>2, <1>5, <1>10, <2>1
<1>18. g \in Seq(Byte)
  BY <1>9
<1>. QED BY <1>8, <1>11, <1>16, <1>17, <1>18, Zenon DEF g, l, m, N

\* Wherever a datagram begins a buffer, what is behind it does not matter:
\* swim_decode_event returns the event that swim_encode_event was given, and
\* has read as many bytes as that wrote.
LEMMA DecodeEvent ==
  ASSUME LittleEndian, NEW e \in Event, NEW b \in Seq(Byte),
         Holds(b, 0, swim_encode_event(e))
  PROVE  /\ swim_decode_event(b)
              = [event |-> e, bytes |-> Len(swim_encode_event(e))]
         /\ DecodePayload(b, swim_decode_event_header(b)).next
              = 36 + PayloadSize(e)
<1> DEFINE h == swim_encode_event_header(e)
           p == EncodePayload(e)
           g == swim_encode_gossip(e.gossip)
           N == Len(e.gossip)
           m == PayloadSize(e)
           k == 36 + m
           l == Len(g)
<1>1. h \in Bytes(36)
  BY EventParts, EncodeHeader, Zenon
<1>2. p \in Bytes(m) /\ m \in Nat /\ m <= 18 + SizeofSockAddr
  BY EncodePayloadBytes, PayloadSizes, Zenon
<1>3. g \in Seq(Byte) /\ N \in Uint16 /\ Len(swim_encode_event(e)) = k + l
  BY EncodeEvent, Zenon
<1>4. g \in Bytes(l) /\ l \in Nat
  BY <1>3, SeqBytes, Zenon
<1>5. Holds(b, 0, (h \o p) \o g)
  BY Zenon DEF swim_encode_event
<1> HIDE DEF h, p, m, l
<1>6. 36 \in Nat /\ k \in Nat /\ 36 <= k /\ k <= 54 + SizeofSockAddr
  BY <1>2, Sizes
<1>7. h \o p \in Bytes(k)
  BY <1>1, <1>2, <1>6, BytesConcat, Zenon
<1> HIDE DEF k, g
<1>8. Holds(b, 0, h \o p) /\ Holds(b, k, g)
  BY <1>4, <1>5, <1>6, <1>7, HoldsStart, Zenon
<1>9. Holds(b, 0, h) /\ Holds(b, 36, p)
  BY <1>1, <1>2, <1>6, <1>8, HoldsStart, Zenon
<1> DEFINE dh == swim_decode_event_header(b)
           dp == DecodePayload(b, dh)
           dg == DecodeInfos(b, k + 2, N)
<1>10. dh = [type |-> e.type, time |-> e.time, uuid |-> e.uuid,
             incarnation |-> e.incarnation, next |-> 36]
  BY <1>9, DecodeHeader, Zenon DEF h
<1>11. /\ dh.type = e.type /\ dh.time = e.time /\ dh.uuid = e.uuid
       /\ dh.incarnation = e.incarnation /\ dh.next = 36
  <2> HIDE DEF dh
  <2>. QED BY <1>10
<1>12. dp = [arg |-> e.arg, addr |-> e.addr, next |-> k]
  <2> HIDE DEF dh
  <2>. QED BY <1>9, <1>11, DecodePayloadHeld, Zenon DEF p, k, m
<1>13. dp.arg = e.arg /\ dp.addr = e.addr /\ dp.next = k
  <2> HIDE DEF dp
  <2>. QED BY <1>12
<1>14. e.gossip \in Seq(NodeInfo) /\ N <= MAX_GOSSIP_SIZE /\ e.type \in EventType
  BY EventParts, Zenon
<1>15. swim_decode_uint16(b, k) = N /\ dg.gossip = e.gossip /\ dg.next = k + l
  BY <1>3, <1>6, <1>8, <1>14, DecodeEncodedGossip, Zenon DEF g, l
<1>16. ~(N > GossipCapacity(k))
  <2> DEFINE c == GossipCapacity(k)
  <2>1. c \in Nat /\ MAX_GOSSIP_SIZE <= c
    BY <1>6, Capacity, Zenon
  <2>2. N \in Nat
    BY <1>14
  <2> HIDE DEF c, N
  <2>3. ~(N > c)
    BY <1>14, <2>1, <2>2, Sizes
  <2>. QED BY <2>3 DEF c
<1> DEFINE count == swim_decode_uint16(b, dp.next)
<1>17. count = N /\ DecodeInfos(b, dp.next + 2, count) = dg
  <2> HIDE DEF dp
  <2>. QED BY <1>13, <1>15, Zenon
<1>18. swim_decode_event(b)
         = [event |-> [type |-> dh.type, time |-> dh.time, uuid |-> dh.uuid,
                       incarnation |-> dh.incarnation, arg |-> dp.arg,
                       addr |-> dp.addr, gossip |-> dg.gossip],
            bytes |-> dg.next]
  <2>1. ~(dh.type \notin EventType \/ count > GossipCapacity(dp.next))
    <3> HIDE DEF dp, dh, count
    <3>. QED BY <1>11, <1>13, <1>14, <1>16, <1>17, Zenon
  <2>. QED BY <1>17, <2>1, Zenon DEF swim_decode_event
<1>19. swim_decode_event(b)
         = [event |-> [type |-> e.type, time |-> e.time, uuid |-> e.uuid,
                       incarnation |-> e.incarnation, arg |-> e.arg,
                       addr |-> e.addr, gossip |-> e.gossip],
            bytes |-> k + l]
  <2> HIDE DEF dh, dp, dg
  <2>. QED BY <1>11, <1>13, <1>15, <1>18, Zenon
<1>20. swim_decode_event(b) = [event |-> e, bytes |-> Len(swim_encode_event(e))]
  BY <1>3, <1>19, EventParts, Zenon DEF k, m
<1>. QED BY <1>13, <1>20, Zenon DEF k, m

------------------------------------------------------------------------------
\* The client's struct

\* What is held by something held is held.
LEMMA HoldsWithin ==
  ASSUME NEW b \in Seq(Byte), NEW h \in Seq(Byte), NEW x \in Seq(Byte),
         NEW k \in Nat, NEW j \in Nat, Holds(b, k, h), Holds(h, j, x)
  PROVE  Holds(b, k + j, x)
<1>1. k + Len(h) <= Len(b) /\ \A i \in 1..Len(h) : b[k + i] = h[i]
  BY DEF Holds
<1>2. j + Len(x) <= Len(h) /\ \A i \in 1..Len(x) : h[j + i] = x[i]
  BY DEF Holds
<1>3. \A i \in 1..Len(x) : j + i \in 1..Len(h) /\ k + (j + i) = k + j + i
  BY <1>2
<1>4. \A i \in 1..Len(x) : b[k + j + i] = x[i]
  BY <1>1, <1>2, <1>3, Zenon
<1>5. k + j + Len(x) <= Len(b)
  BY <1>1, <1>2
<1>. QED BY <1>4, <1>5, Zenon DEF Holds

\* A number in memory has the bytes it has in the network, reversed on a
\* little-endian machine.
LEMMA HostBytes ==
  ASSUME NEW n \in Nat, NEW x \in Bytes(n)
  PROVE  /\ Host(x) \in Bytes(n)
         /\ LittleEndian => \A i \in 1..n : Host(x)[i] = x[(n - i) + 1]
<1>1. Len(x) = n /\ x \in Seq(Byte)
  BY BytesSeq, Zenon
<1> DEFINE r == [i \in 1..n |-> x[(n - i) + 1]]
<1>2. [i \in DOMAIN x |-> x[Len(x) + 1 - i]] = r
  <2>1. DOMAIN x = 1..n /\ \A i \in 1..n : Len(x) + 1 - i = (n - i) + 1
    BY <1>1
  <2>. QED BY <2>1, Zenon
<1>3. \A i \in 1..n : (n - i) + 1 \in 1..n
  OBVIOUS
<1>4. \A i \in 1..n : x[i] \in Byte
  BY Zenon DEF Bytes
<1>5. r \in Bytes(n)
  BY <1>3, <1>4, Zenon DEF Bytes
<1>6. \A i \in 1..n : r[i] = x[(n - i) + 1]
  BY Zenon
<1> HIDE DEF r
<1>. QED BY <1>2, <1>5, <1>6, Zenon DEF Host

\* Two cleared bytes decode to zero.
LEMMA DecodeZeros ==
  ASSUME NEW b \in Seq(Byte), NEW k \in Nat, Holds(b, k, Zeros(2))
  PROVE  swim_decode_uint16(b, k) = 0
<1>1. 2 \in Nat /\ Zeros(2) \in Bytes(2)
  <2>1. 2 \in Nat
    OBVIOUS
  <2>. QED BY <2>1, ZerosBytes, Zenon
<1>2. Read(b, k, 2) = Zeros(2)
  BY <1>1, ReadHeld, Zenon
<1>3. 1 \in 1..2 /\ 2 \in 1..2 /\ 256 * 0 + 0 = 0
  OBVIOUS
<1>4. Zeros(2)[1] = 0 /\ Zeros(2)[2] = 0
  BY <1>3, Zenon DEF Zeros
<1>. QED BY <1>2, <1>3, <1>4, Zenon DEF swim_decode_uint16

\* No record decodes to no gossip.
LEMMA DecodeNone ==
  ASSUME NEW b, NEW k
  PROVE  DecodeInfos(b, k, 0) = [gossip |-> <<>>, next |-> k]
<1> DEFINE r == [gossip |-> <<>>, next |-> k]
           f == [n \in 0..0 |-> r]
<1>1. 0 \in Nat /\ 0 \in 0..0 /\ \A n \in 1..0 : FALSE
  OBVIOUS
<1>2. f[0] = r
  BY <1>1, Zenon
<1>3. f = [n \in 0..0 |-> f[n]]
  BY Zenon
<1>4. Decodes(b, k, 0, f)
  BY <1>1, <1>2, <1>3, Zenon DEF Decodes
<1> HIDE DEF f
<1>5. DecodeInfos(b, k, 0) = f[0]
  BY <1>1, <1>4, DecodeInfosUnique, Zenon
<1>. QED BY <1>2, <1>5, Zenon

\* The type in a little-endian memory: the upper half of the four bytes is zero.
LEMMA RawType ==
  ASSUME LittleEndian, NEW n \in Uint16
  PROVE  /\ Host(Zeros(2) \o swim_encode_uint16(n)) \in Bytes(4)
         /\ Holds(Host(Zeros(2) \o swim_encode_uint16(n)), 2, Zeros(2))
<1> DEFINE z == Zeros(2)
           u == swim_encode_uint16(n)
           x == z \o u
<1>1. 2 \in Nat /\ 4 \in Nat /\ 2 + 2 = 4 /\ 2 + 2 <= 4
  OBVIOUS
<1>2. z \in Bytes(2) /\ u \in Bytes(2)
  BY <1>1, ZerosBytes, EncodeUint16, Zenon
<1>3. \A i \in 1..2 : z[i] = 0
  BY Zenon DEF Zeros
<1>4. z \in Seq(Byte) /\ Len(z) = 2
  BY <1>1, <1>2, BytesSeq, Zenon
<1> HIDE DEF z, u
<1>5. x \in Bytes(4)
  BY <1>1, <1>2, BytesConcat, Zenon
<1>6. x \in Seq(Byte) /\ Holds(x, 0, x)
  BY <1>1, <1>5, BytesSeq, HoldsSelf, Zenon
<1>7. Holds(x, 0, z)
  <2>1. Holds(x, 0, z) /\ Holds(x, 2, u)
    <3> DEFINE y == x
    <3>1. y \in Seq(Byte) /\ Holds(y, 0, z \o u)
      BY <1>6, Zenon
    <3> HIDE DEF y
    <3>2. Holds(y, 0, z) /\ Holds(y, 2, u)
      BY <1>1, <1>2, <3>1, HoldsStart, Zenon
    <3>. QED BY <3>2, Zenon DEF y
  <2>. QED BY <2>1, Zenon
<1> HIDE DEF x
<1>8. \A i \in 1..2 : x[i] = 0
  <2>1. \A i \in 1..2 : x[0 + i] = z[i]
    BY <1>4, <1>7, Zenon DEF Holds
  <2>2. \A i \in 1..2 : 0 + i = i
    OBVIOUS
  <2>. QED BY <1>3, <2>1, <2>2, Zenon
<1> DEFINE h == Host(x)
<1>9. h \in Bytes(4) /\ \A i \in 1..4 : h[i] = x[(4 - i) + 1]
  BY <1>1, <1>5, HostBytes, Zenon
<1> HIDE DEF h
<1>10. Len(h) = 4
  BY <1>1, <1>9, BytesSeq, Zenon
<1>11. \A i \in 1..2 : 2 + i \in 1..4 /\ (4 - (2 + i)) + 1 \in 1..2
  OBVIOUS
<1>12. \A i \in 1..2 : h[2 + i] = z[i]
  BY <1>3, <1>8, <1>9, <1>11, Zenon
<1>13. Holds(h, 2, z)
  BY <1>1, <1>4, <1>10, <1>12, Zenon DEF Holds
<1>. QED BY <1>9, <1>13, Zenon DEF h, x, z, u

\* The parts of the struct, in order
RawBytes(t, uuid, z4, time, z8, arg, rest) ==
  t \o uuid \o z4 \o time \o z8 \o arg \o rest

\* Where the type and the cleared fields of the client's event structure lie.
LEMMA RawParts ==
  ASSUME NEW t \in Bytes(4), NEW uuid \in Bytes(16), NEW z4 \in Bytes(4),
         NEW time \in Bytes(8), NEW z8 \in Bytes(8), NEW arg \in Bytes(16),
         NEW n \in Nat, NEW rest \in Bytes(n)
  PROVE  /\ RawBytes(t, uuid, z4, time, z8, arg, rest) \in Bytes(56 + n)
         /\ Holds(RawBytes(t, uuid, z4, time, z8, arg, rest), 0, t)
         /\ Holds(RawBytes(t, uuid, z4, time, z8, arg, rest), 32, z8)
<1> DEFINE y2 == t \o uuid
           y3 == y2 \o z4
           y4 == y3 \o time
           y5 == y4 \o z8
           y6 == y5 \o arg
           b == RawBytes(t, uuid, z4, time, z8, arg, rest)
<1>1. /\ 4 \in Nat /\ 8 \in Nat /\ 16 \in Nat /\ 20 \in Nat
      /\ 24 \in Nat /\ 32 \in Nat /\ 40 \in Nat /\ 56 \in Nat /\ 56 + n \in Nat
  OBVIOUS
<1>2. 4 + 16 = 20 /\ 20 + 4 = 24 /\ 24 + 8 = 32 /\ 32 + 8 = 40 /\ 40 + 16 = 56
  OBVIOUS
<1>3. y2 \in Bytes(20)
  BY <1>1, <1>2, BytesConcat
<1>4. y3 \in Bytes(24)
  BY <1>1, <1>2, <1>3, BytesConcat
<1>5. y4 \in Bytes(32)
  BY <1>1, <1>2, <1>4, BytesConcat
<1>6. y5 \in Bytes(40)
  BY <1>1, <1>2, <1>5, BytesConcat
<1>7. y6 \in Bytes(56)
  BY <1>1, <1>2, <1>6, BytesConcat
<1>8. y6 \o rest \in Bytes(56 + n)
  BY <1>1, <1>7, BytesConcat, Zenon
<1>9. b = y6 \o rest
  BY Zenon DEF RawBytes
<1>10. b \in Seq(Byte) /\ Holds(b, 0, y6 \o rest) /\ b \in Bytes(56 + n)
  BY <1>1, <1>8, <1>9, BytesSeq, HoldsSelf, Zenon
<1> HIDE DEF b
<1>11. Holds(b, 0, y6) /\ Holds(b, 56, rest)
  <2> HIDE DEF y6
  <2>. QED BY <1>1, <1>7, <1>10, HoldsStart, Zenon
<1>12. Holds(b, 0, y5) /\ Holds(b, 40, arg)
  <2> HIDE DEF y5
  <2>. QED BY <1>1, <1>6, <1>10, <1>11, HoldsStart, Zenon
<1>13. Holds(b, 0, y4) /\ Holds(b, 32, z8)
  <2> HIDE DEF y4
  <2>. QED BY <1>1, <1>5, <1>10, <1>12, HoldsStart, Zenon
<1>14. Holds(b, 0, y3) /\ Holds(b, 24, time)
  <2> HIDE DEF y3
  <2>. QED BY <1>1, <1>4, <1>10, <1>13, HoldsStart, Zenon
<1>15. Holds(b, 0, y2) /\ Holds(b, 20, z4)
  <2> HIDE DEF y2
  <2>. QED BY <1>1, <1>3, <1>10, <1>14, HoldsStart, Zenon
<1>16. Holds(b, 0, t) /\ Holds(b, 4, uuid)
  BY <1>1, <1>10, <1>15, HoldsStart, Zenon
<1>. QED BY <1>10, <1>13, <1>16, Zenon DEF b

\* On a little-endian machine the client's structure has zeros where the server
\* looks for the type of the event and for the count of its gossip.
LEMMA RawEventBytes ==
  ASSUME LittleEndian, NEW e \in Commands
  PROVE  /\ RawEvent(e) \in Bytes(SizeofEvent)
         /\ Holds(RawEvent(e), 2, Zeros(2))
         /\ Holds(RawEvent(e), 36, Zeros(2))
<1> DEFINE t == Host(Zeros(2) \o swim_encode_uint16(e.type))
           uuid == e.uuid
           z4 == Zeros(4)
           time == Host(e.time)
           z8 == Zeros(8)
           arg == IF e.arg = <<>> THEN Zeros(16) ELSE e.arg
           n == SizeofEvent - 56
           rest == Zeros(n)
           z2 == Zeros(2)
           b == RawBytes(t, uuid, z4, time, z8, arg, rest)
<1>1. /\ e.type \in EventType /\ e.time \in Bytes(8) /\ e.uuid \in Bytes(16)
      /\ e.arg \in Bytes(16) \cup {<<>>}
  BY EventsAssumption, Zenon
<1>2. EventType \subseteq Uint16
  BY DEF EventType, PING, ACK, PING_REQ, JOIN, LEAVE, Uint16
<1>3. t \in Bytes(4) /\ Holds(t, 2, z2)
  BY <1>1, <1>2, RawType, Zenon
<1>4. 2 \in Nat /\ 4 \in Nat /\ 8 \in Nat /\ 16 \in Nat /\ 32 \in Nat
  OBVIOUS
<1>5. n \in Nat /\ 56 + n = SizeofEvent
  BY Sizes, RoomAssumption
<1>6. /\ uuid \in Bytes(16) /\ z4 \in Bytes(4) /\ time \in Bytes(8)
      /\ z8 \in Bytes(8) /\ arg \in Bytes(16) /\ rest \in Bytes(n)
      /\ z2 \in Bytes(2)
  <2>1. z4 \in Bytes(4) /\ z8 \in Bytes(8) /\ z2 \in Bytes(2) /\ Zeros(16) \in Bytes(16)
    BY <1>4, ZerosBytes, Zenon
  <2>2. rest \in Bytes(n)
    <3> HIDE DEF n
    <3>. QED BY <1>5, ZerosBytes, Zenon
  <2>3. time \in Bytes(8)
    BY <1>1, <1>4, HostBytes, Zenon
  <2>. QED BY <1>1, <2>1, <2>2, <2>3, Zenon
<1>7. Holds(z8, 4, z2)
  <2>1. Len(z8) = 8 /\ Len(z2) = 2
    BY <1>4, <1>6, BytesSeq, Zenon
  <2>2. 4 + 2 <= 8 /\ \A i \in 1..2 : 4 + i \in 1..8
    OBVIOUS
  <2>3. \A i \in 1..2 : z8[4 + i] = z2[i]
    BY <2>2, Zenon DEF Zeros
  <2>. QED BY <2>1, <2>2, <2>3, Zenon DEF Holds
<1>8. RawEvent(e) = b
  BY Zenon DEF RawEvent, RawBytes
<1> HIDE DEF t, uuid, z4, time, z8, arg, n, rest, z2
<1>9. b \in Bytes(56 + n) /\ Holds(b, 0, t) /\ Holds(b, 32, z8)
  BY <1>3, <1>5, <1>6, RawParts, Zenon
<1> HIDE DEF b
<1>10. 56 + n \in Nat
  BY <1>5
<1>11. b \in Seq(Byte) /\ t \in Seq(Byte) /\ z8 \in Seq(Byte) /\ z2 \in Seq(Byte)
  BY <1>3, <1>4, <1>6, <1>9, <1>10, BytesSeq, Zenon
<1>12. Holds(b, 2, z2)
  BY <1>3, <1>4, <1>9, <1>11, HoldsTransitive, Zenon
<1>13. Holds(b, 32 + 4, z2)
  BY <1>4, <1>7, <1>9, <1>11, HoldsWithin, Zenon
<1>14. 32 + 4 = 36
  OBVIOUS
<1>15. Holds(b, 36, z2)
  BY <1>13, <1>14
<1>. QED BY <1>5, <1>8, <1>9, <1>12, <1>15, Zenon DEF z2

\* A client's struct decodes to a PING without gossip, from its first 38 bytes.
LEMMA DecodeRaw ==
  ASSUME LittleEndian, NEW e \in Commands, NEW b \in Seq(Byte),
         Holds(b, 0, RawEvent(e))
  PROVE  /\ swim_decode_event(b).event.type = PING
         /\ swim_decode_event(b).event.gossip = <<>>
         /\ swim_decode_event(b).bytes = 38
         /\ DecodePayload(b, swim_decode_event_header(b)).next = 36
<1> DEFINE r == RawEvent(e)
           z2 == Zeros(2)
<1>1. 2 \in Nat /\ 36 \in Nat /\ SizeofEvent \in Nat
  BY Sizes
<1>2. r \in Seq(Byte) /\ Holds(r, 2, z2) /\ Holds(r, 36, z2) /\ Holds(b, 0, r)
  BY <1>1, RawEventBytes, BytesSeq, Zenon
<1>3. z2 \in Seq(Byte)
  BY <1>1, ZerosBytes, BytesSeq, Zenon
<1>4. Holds(b, 2, z2) /\ Holds(b, 36, z2)
  <2> HIDE DEF r, z2
  <2>. QED BY <1>1, <1>2, <1>3, HoldsTransitive, Zenon
<1>5. swim_decode_uint16(b, 2) = 0 /\ swim_decode_uint16(b, 36) = 0
  BY <1>1, <1>4, DecodeZeros, Zenon
<1> DEFINE h == swim_decode_event_header(b)
           p == DecodePayload(b, h)
           g == DecodeInfos(b, p.next + 2, 0)
<1>6. h.type = PING /\ h.next = 36
  BY <1>5, Zenon DEF swim_decode_event_header, PING
<1>7. p = [arg |-> <<>>, addr |-> <<>>, next |-> 36]
  <2>1. PING # JOIN
    BY DEF PING, JOIN
  <2> HIDE DEF h
  <2>. QED BY <1>6, <2>1, Zenon DEF DecodePayload
<1>8. p.next = 36
  <2> HIDE DEF p
  <2>. QED BY <1>7
<1>9. ~(0 > GossipCapacity(36))
  <2>1. 36 <= 36 /\ 36 <= 54 + SizeofSockAddr
    BY Sizes
  <2>2. GossipCapacity(36) \in Nat
    BY <1>1, <2>1, Capacity, Zenon
  <2>. QED BY <2>2
<1>10. swim_decode_uint16(b, p.next) = 0
  <2> HIDE DEF p
  <2>. QED BY <1>5, <1>8, Zenon
<1>11. ~(h.type \notin EventType \/ 0 > GossipCapacity(p.next))
  <2> HIDE DEF h, p
  <2>1. PING \in EventType
    BY DEF EventType
  <2>. QED BY <1>6, <1>8, <1>9, <2>1, Zenon
<1>12. swim_decode_event(b)
         = [event |-> [type |-> h.type, time |-> h.time, uuid |-> h.uuid,
                       incarnation |-> h.incarnation, arg |-> p.arg,
                       addr |-> p.addr, gossip |-> g.gossip],
            bytes |-> g.next]
  BY <1>10, <1>11, Zenon DEF swim_decode_event
<1>13. g = [gossip |-> <<>>, next |-> 38]
  <2>1. 36 + 2 = 38
    OBVIOUS
  <2> HIDE DEF p
  <2>. QED BY <1>8, <2>1, DecodeNone, Zenon
<1>14. g.gossip = <<>> /\ g.next = 38
  <2> HIDE DEF g
  <2>. QED BY <1>13
<1> HIDE DEF h, p, g
<1>15. /\ swim_decode_event(b).event.type = h.type
       /\ swim_decode_event(b).event.gossip = g.gossip
       /\ swim_decode_event(b).bytes = g.next
  BY <1>12
<1>. QED BY <1>6, <1>8, <1>14, <1>15, Zenon DEF p, h

\* The datagram, and behind it what is left of older ones, is in the buffer.
LEMMA Overwritten ==
  ASSUME NEW b \in Seq(Byte), NEW d \in Seq(Byte),
         Len(b) <= MAX_PACKET_SIZE, Len(d) <= MAX_PACKET_SIZE
  PROVE  /\ Overwrite(b, d) \in Seq(Byte)
         /\ Len(Overwrite(b, d)) <= MAX_PACKET_SIZE
         /\ Holds(Overwrite(b, d), 0, d)
<1> DEFINE s == SubSeq(b, Len(d) + 1, Len(b))
           l == Len(d)
<1>1. s \in Seq(Byte)
  OBVIOUS
<1>2. Len(s) = IF l + 1 <= Len(b) THEN Len(b) - l ELSE 0
  OBVIOUS
<1> HIDE DEF s
<1>3. d \o s \in Seq(Byte) /\ Len(d \o s) = l + Len(s)
  BY <1>1
<1>4. l + Len(s) <= MAX_PACKET_SIZE
  BY <1>2, Sizes
<1>5. Holds(d \o s, 0, d)
  BY <1>1 DEF Holds
<1>. QED BY <1>3, <1>4, <1>5, Zenon DEF Overwrite, s

\* A reply the client prints names a type of event or nothing.
LEMMA EventString ==
  ASSUME NEW b
  PROVE  swim_event_string(b) \in EventType \cup {Nothing}
<1>1. ASSUME NEW t \in EventType
      PROVE  (Zeros(2) \o swim_encode_uint16(t))[4] = t
  <2> DEFINE u == swim_encode_uint16(t)
             z == Zeros(2)
  <2>1. t \in Uint16 /\ t \in Nat /\ t < 256
    BY <1>1 DEF EventType, PING, ACK, PING_REQ, JOIN, LEAVE, Uint16
  <2>2. u \in Bytes(2) /\ 256 * u[1] + u[2] = t
    BY <2>1, EncodeUint16, Zenon
  <2>3. 2 \in Nat /\ 2 \in 1..2 /\ 1 \in 1..2
    OBVIOUS
  <2>4. z \in Bytes(2)
    BY <2>3, ZerosBytes, Zenon
  <2> HIDE DEF u, z
  <2>5. u[1] \in Byte /\ u[2] \in Byte
    BY <2>2, <2>3, Zenon DEF Bytes
  <2>6. u[2] = t
    <3> DEFINE x == u[1]
               y == u[2]
    <3>1. x \in Byte /\ y \in Byte /\ 256 * x + y = t
      BY <2>2, <2>5, Zenon
    <3> HIDE DEF x, y
    <3>2. y = t
      BY <2>1, <3>1 DEF Byte
    <3>. QED BY <3>2 DEF y
  <2>7. z \o u \in Seq(Byte) /\ Len(u) = 2
    <3>1. z \in Seq(Byte) /\ u \in Seq(Byte) /\ Len(u) = 2
      BY <2>2, <2>3, <2>4, BytesSeq, Zenon
    <3>. QED BY <3>1
  <2>8. Holds(z \o u, 2, u)
    <3> DEFINE y == z \o u
    <3>1. y \in Seq(Byte) /\ Holds(y, 0, z \o u)
      BY <2>7, HoldsSelf, Zenon
    <3> HIDE DEF y
    <3>2. Holds(y, 0, z) /\ Holds(y, 2, u)
      BY <2>2, <2>3, <2>4, <3>1, HoldsStart, Zenon
    <3>. QED BY <3>2, Zenon DEF y
  <2>9. 2 + 2 = 4
    OBVIOUS
  <2>10. (z \o u)[4] = u[2]
    <3>1. \A i \in 1..2 : (z \o u)[2 + i] = u[i]
      BY <2>7, <2>8, Zenon DEF Holds
    <3>. QED BY <2>3, <2>9, <3>1, Zenon
  <2>. QED BY <2>6, <2>10, Zenon DEF z, u
<1>. QED BY <1>1, Zenon DEF swim_event_string

------------------------------------------------------------------------------
\* The inductive invariant

\* A datagram on its way to the server is what its sender made of the event.
InTransit ==
  at = "server" =>
    IF by = "server" THEN sent \in Events /\ wire = swim_encode_event(sent)
    ELSE sent \in Commands /\ wire = RawEvent(sent)

Handled == RoundTrip /\ NoStaleByte /\ CapacityFits /\ RawIsPing

IInv == TypeOK /\ InTransit /\ Handled

\* Whatever is sent, by a server or by the client, fits the receive buffer.
LEMMA Encoded ==
  ASSUME LittleEndian
  PROVE  /\ \A e \in Events : /\ e \in Event
                              /\ swim_encode_event(e) \in Seq(Byte)
                              /\ Len(swim_encode_event(e)) <= MAX_PACKET_SIZE
         /\ \A e \in Commands : /\ RawEvent(e) \in Seq(Byte)
                                /\ Len(RawEvent(e)) = SizeofEvent
                                /\ Len(RawEvent(e)) <= MAX_PACKET_SIZE
<1>1. \A e \in Events : e \in Event
  BY EventsAssumption, Zenon
<1>2. SizeofEvent \in Nat
  BY Sizes
<1>3. SizeofEvent <= MAX_PACKET_SIZE
  <2> DEFINE c == GossipCapacity(36)
  <2>1. 36 \in Nat /\ 36 <= 36 /\ 36 <= 54 + SizeofSockAddr
    BY Sizes
  <2>2. c \in Nat /\ SizeofEvent + c * SizeofNodeInfo <= MAX_PACKET_SIZE
    BY <2>1, Capacity, Zenon
  <2> HIDE DEF c
  <2>3. c * SizeofNodeInfo \in Nat
    BY <2>2, Sizes
  <2> DEFINE x == c * SizeofNodeInfo
  <2>4. x \in Nat /\ SizeofEvent + x <= MAX_PACKET_SIZE
    BY <2>2, <2>3, Zenon
  <2> HIDE DEF x
  <2>. QED BY <2>4, Sizes
<1>4. \A e \in Commands : RawEvent(e) \in Seq(Byte) /\ Len(RawEvent(e)) = SizeofEvent
  BY <1>2, RawEventBytes, BytesSeq, Zenon
<1>. QED BY <1>1, <1>3, <1>4, EncodeEvent, Zenon

\* The buffers are empty before the first datagram.
LEMMA InitIInv ==
  Init => IInv
<1> SUFFICES ASSUME Init PROVE IInv
  OBVIOUS
<1>1. at = "none" /\ "none" # "server" /\ "none" # "handled"
  BY DEF Init
<1>2. InTransit /\ Handled
  BY <1>1, Zenon DEF InTransit, Handled, RoundTrip, NoStaleByte, CapacityFits,
                     RawIsPing
<1>3. Dropped.type = -1
  BY DEF Dropped
<1>4. <<>> \in Seq(Byte) /\ Len(<<>>) = 0 /\ 0 <= MAX_PACKET_SIZE
  BY Sizes
<1>5. 0 \in -1..MAX_PACKET_SIZE
  BY Sizes
<1>6. TypeOK
  BY <1>3, <1>4, <1>5, Zenon DEF Init, TypeOK, Nothing
<1>. QED BY <1>2, <1>6, Zenon DEF IInv

\* An action that does not handle a datagram leaves nothing to show.
LEMMA NotHandled ==
  ASSUME at' \in {"none", "server", "client"}
  PROVE  Handled'
<1>1. at' # "handled"
  OBVIOUS
<1>. QED BY <1>1, Zenon DEF Handled, RoundTrip, NoStaleByte, CapacityFits,
                            RawIsPing

\* A datagram put on the way is the encoding of the event it is remembered with.
LEMMA SendIInv ==
  ASSUME LittleEndian, IInv,
         \/ \E e \in Events : swim_send_event(e)
         \/ \E e \in Commands : client_send(e)
  PROVE  IInv'
<1>1. CASE \E e \in Events : swim_send_event(e)
  <2>1. PICK e \in Events : swim_send_event(e)
    BY <1>1, Zenon
  <2>2. /\ at' = "server" /\ by' = "server" /\ sent' = e
        /\ wire' = swim_encode_event(e)
        /\ buf' = buf /\ got' = got /\ bytes' = bytes /\ printed' = printed
    BY <2>1, Zenon DEF swim_send_event
  <2>3. wire' \in Seq(Byte) /\ Len(wire') <= MAX_PACKET_SIZE
    BY <2>2, Encoded, Zenon
  <2>4. TypeOK'
    BY <2>2, <2>3, Zenon DEF IInv, TypeOK
  <2>5. InTransit'
    BY <2>2, Zenon DEF InTransit
  <2>6. Handled'
    BY <2>2, NotHandled, Zenon
  <2>. QED BY <2>4, <2>5, <2>6, Zenon DEF IInv
<1>2. CASE \E e \in Commands : client_send(e)
  <2>1. PICK e \in Commands : client_send(e)
    BY <1>2, Zenon
  <2>2. /\ at' = "server" /\ by' = "client" /\ sent' = e
        /\ wire' = RawEvent(e)
        /\ buf' = buf /\ got' = got /\ bytes' = bytes /\ printed' = Nothing
    BY <2>1, Zenon DEF client_send
  <2>3. wire' \in Seq(Byte) /\ Len(wire') <= MAX_PACKET_SIZE
    BY <2>2, Encoded, Zenon
  <2>4. TypeOK'
    BY <2>2, <2>3, Zenon DEF IInv, TypeOK
  <2>5. InTransit'
    <3>1. "client" # "server"
      OBVIOUS
    <3>. QED BY <2>2, <3>1, Zenon DEF InTransit
  <2>6. Handled'
    BY <2>2, NotHandled, Zenon
  <2>. QED BY <2>4, <2>5, <2>6, Zenon DEF IInv
<1>. QED BY <1>1, <1>2, Zenon

\* The server decodes a datagram over the bytes of the one before it; what it
\* makes of it is the event that was sent.
LEMMA RecvIInv ==
  ASSUME LittleEndian, IInv, swim_recv_event
  PROVE  IInv'
<1> DEFINE b == Overwrite(buf, wire)
           d == swim_decode_event(b)
           next == DecodePayload(b, swim_decode_event_header(b)).next
           Goal == /\ next \in Nat /\ 36 <= next /\ next <= 54 + SizeofSockAddr
                   /\ RoundTrip' /\ NoStaleByte' /\ RawIsPing' /\ TypeOK'
<1>1. /\ at = "server" /\ at' = "handled"
      /\ buf' = b /\ got' = d.event /\ bytes' = d.bytes
      /\ by' = by /\ sent' = sent /\ wire' = wire /\ printed' = printed
  BY Zenon DEF swim_recv_event
<1>2. /\ wire \in Seq(Byte) /\ Len(wire) <= MAX_PACKET_SIZE
      /\ buf \in Seq(Byte) /\ Len(buf) <= MAX_PACKET_SIZE
      /\ by \in {"server", "client"}
  BY Zenon DEF IInv, TypeOK
<1>3. b \in Seq(Byte) /\ Len(b) <= MAX_PACKET_SIZE /\ Holds(b, 0, wire)
  BY <1>2, Overwritten, Zenon
<1>4. IF by = "server" THEN sent \in Events /\ wire = swim_encode_event(sent)
      ELSE sent \in Commands /\ wire = RawEvent(sent)
  BY <1>1, Zenon DEF IInv, InTransit
<1> HIDE DEF b
<1>5. ASSUME by = "server" PROVE Goal
  <2>1. sent \in Event /\ wire = swim_encode_event(sent)
    BY <1>4, <1>5, Encoded, Zenon
  <2>2. d = [event |-> sent, bytes |-> Len(wire)] /\ next = 36 + PayloadSize(sent)
    BY <1>3, <2>1, DecodeEvent, Zenon
  <2>3. d.event = sent /\ d.bytes = Len(wire)
    <3> HIDE DEF d
    <3>. QED BY <2>2
  <2>4. next \in Nat /\ 36 <= next /\ next <= 54 + SizeofSockAddr
    <3> DEFINE m == PayloadSize(sent)
    <3>1. m \in Nat /\ m <= 18 + SizeofSockAddr /\ next = 36 + m
      BY <2>1, <2>2, PayloadSizes, Zenon
    <3> HIDE DEF m, next
    <3>. QED BY <3>1, Sizes
  <2>5. sent.type \in EventType
    BY <2>1, EventParts, Zenon
  <2>6. Len(wire) \in -1..MAX_PACKET_SIZE
    BY <1>2, Sizes
  <2> HIDE DEF d, next
  <2>7. by # "client" /\ Len(wire') = Len(wire)
    BY <1>1, <1>5
  <2>8. RoundTrip' /\ NoStaleByte' /\ RawIsPing'
    BY <1>1, <1>5, <2>3, <2>7, Zenon DEF RoundTrip, NoStaleByte, RawIsPing
  <2>9. TypeOK'
    <3>1. got'.type \in EventType \cup {Nothing} /\ bytes' \in -1..MAX_PACKET_SIZE
      BY <1>1, <2>3, <2>5, <2>6, Zenon
    <3>. QED BY <1>1, <1>3, <3>1, Zenon DEF IInv, TypeOK
  <2>. QED BY <2>4, <2>8, <2>9, Zenon
<1>6. ASSUME by = "client" PROVE Goal
  <2>1. sent \in Commands /\ wire = RawEvent(sent)
    <3>1. "client" # "server"
      OBVIOUS
    <3>. QED BY <1>4, <1>6, <3>1, Zenon
  <2>2. d.event.type = PING /\ d.event.gossip = <<>> /\ d.bytes = 38 /\ next = 36
    BY <1>3, <2>1, DecodeRaw, Zenon
  <2> HIDE DEF d, next
  <2>3. next \in Nat /\ 36 <= next /\ next <= 54 + SizeofSockAddr
    BY <2>2, Sizes
  <2>4. Len(wire) = SizeofEvent
    BY <2>1, Encoded, Zenon
  <2>5. 38 \in 0..Len(wire) /\ 38 \in -1..MAX_PACKET_SIZE
    <3> DEFINE l == Len(wire)
    <3>1. l = SizeofEvent /\ l <= MAX_PACKET_SIZE
      BY <1>2, <2>4, Zenon
    <3> HIDE DEF l
    <3>2. 38 \in 0..l /\ 38 \in -1..MAX_PACKET_SIZE
      BY <3>1, Sizes, RoomAssumption
    <3>. QED BY <3>2, Zenon DEF l
  <2>6. by # "server" /\ Len(wire') = Len(wire)
    BY <1>1, <1>6
  <2>7. PING \in EventType
    BY DEF EventType
  <2>8. RoundTrip' /\ NoStaleByte' /\ RawIsPing'
    BY <1>1, <1>6, <2>2, <2>5, <2>6, Zenon DEF RoundTrip, NoStaleByte,
       RawIsPing
  <2>9. TypeOK'
    <3>1. got'.type \in EventType \cup {Nothing} /\ bytes' \in -1..MAX_PACKET_SIZE
      BY <1>1, <2>2, <2>5, <2>7, Zenon
    <3>. QED BY <1>1, <1>3, <3>1, Zenon DEF IInv, TypeOK
  <2>. QED BY <2>3, <2>8, <2>9, Zenon
<1>7. /\ next \in Nat /\ 36 <= next /\ next <= 54 + SizeofSockAddr
      /\ RoundTrip' /\ NoStaleByte' /\ RawIsPing' /\ TypeOK'
  BY <1>2, <1>5, <1>6, Zenon
<1>8. CapacityFits'
  <2> DEFINE c == GossipCapacity(next)
  <2>1. /\ c \in Nat /\ MAX_GOSSIP_SIZE <= c
        /\ SizeofEvent + c * SizeofNodeInfo <= MAX_PACKET_SIZE
    <3> HIDE DEF next
    <3>. QED BY <1>7, Capacity, Zenon
  <2>2. c >= MAX_GOSSIP_SIZE
    <3> HIDE DEF c
    <3>. QED BY <2>1, Sizes
  <2>3. GossipCapacity(DecodePayload(buf', swim_decode_event_header(buf')).next) = c
    BY <1>1, Zenon
  <2> HIDE DEF c
  <2>. QED BY <2>1, <2>2, <2>3, Zenon DEF CapacityFits
<1>9. InTransit'
  <2>1. at' # "server"
    BY <1>1
  <2>. QED BY <2>1, Zenon DEF InTransit
<1>. QED BY <1>7, <1>8, <1>9, Zenon DEF IInv, Handled

\* Answering, finishing and the client's reading leave the invariant alone.
LEMMA AnswerIInv ==
  ASSUME LittleEndian, IInv,
         (\E e \in Events : swim_send_ack(e)) \/ Done \/ client_recv
  PROVE  IInv'
<1>0. "client" # "server" /\ "none" # "server"
  OBVIOUS
<1>1. CASE \E e \in Events : swim_send_ack(e)
  <2>1. PICK e \in Events : swim_send_ack(e)
    BY <1>1, Zenon
  <2>2. /\ at' = "client" /\ wire' = swim_encode_event(e)
        /\ by' = by /\ sent' = sent
        /\ buf' = buf /\ got' = got /\ bytes' = bytes /\ printed' = printed
    BY <2>1, Zenon DEF swim_send_ack
  <2>3. wire' \in Seq(Byte) /\ Len(wire') <= MAX_PACKET_SIZE
    BY <2>2, Encoded, Zenon
  <2>4. TypeOK'
    BY <2>2, <2>3, Zenon DEF IInv, TypeOK
  <2>. QED BY <1>0, <2>2, <2>4, NotHandled, Zenon DEF IInv, InTransit
<1>2. CASE Done
  <2>1. /\ at' = "none" /\ by' = by /\ sent' = sent /\ wire' = wire
        /\ buf' = buf /\ got' = got /\ bytes' = bytes /\ printed' = printed
    BY <1>2, Zenon DEF Done
  <2>2. TypeOK'
    BY <2>1, Zenon DEF IInv, TypeOK
  <2>. QED BY <1>0, <2>1, <2>2, NotHandled, Zenon DEF IInv, InTransit
<1>3. CASE client_recv
  <2>1. /\ at' = "none" /\ by' = by /\ sent' = sent /\ wire' = wire
        /\ buf' = buf /\ got' = got /\ bytes' = bytes
        /\ printed' = swim_event_string(wire)
    BY <1>3, Zenon DEF client_recv
  <2>2. printed' \in EventType \cup {Nothing}
    BY <2>1, EventString, Zenon
  <2>3. TypeOK'
    BY <2>1, <2>2, Zenon DEF IInv, TypeOK
  <2>. QED BY <1>0, <2>1, <2>3, NotHandled, Zenon DEF IInv, InTransit
<1>. QED BY <1>1, <1>2, <1>3, Zenon

\* Every step keeps the invariant.
LEMMA NextIInv ==
  LittleEndian /\ IInv /\ [Next]_vars => IInv'
<1> SUFFICES ASSUME LittleEndian, IInv, [Next]_vars PROVE IInv'
  OBVIOUS
<1>1. CASE Next
  BY <1>1, SendIInv, RecvIInv, AnswerIInv, Zenon DEF Next
<1>2. CASE UNCHANGED vars
  <2>1. /\ at' = at /\ by' = by /\ sent' = sent /\ wire' = wire
        /\ buf' = buf /\ got' = got /\ bytes' = bytes /\ printed' = printed
    BY <1>2, Zenon DEF vars
  <2>. QED BY <2>1, Zenon DEF IInv, TypeOK, InTransit, Handled, RoundTrip,
                              NoStaleByte, CapacityFits, RawIsPing
<1>. QED BY <1>1, <1>2, Zenon

\* The invariant holds in every reachable state.
LEMMA Invariant ==
  ASSUME LittleEndian
  PROVE  Spec => []IInv
<1>1. Init => IInv
  BY InitIInv
<1>2. IInv /\ [Next]_vars => IInv'
  BY NextIInv
<1>. QED BY <1>1, <1>2, PTL DEF Spec

------------------------------------------------------------------------------
\* The type invariant: datagrams and buffer keep to MAX_PACKET_SIZE, whatever
\* is sent and however much gossip it carries.
THEOREM WireTypes ==
  ASSUME LittleEndian
  PROVE  Spec => []TypeOK
<1>1. IInv => TypeOK
  BY Zenon DEF IInv
<1>. QED BY <1>1, Invariant, PTL

\* The event that a server decodes is the one that another sent, every field
\* and every record of gossip of it, whatever the buffer held before: for all
\* events, addresses and loads of gossip up to SWIM_MAX_GOSSIP_SIZE.
THEOREM WireRoundTrip ==
  ASSUME LittleEndian
  PROVE  Spec => []RoundTrip
<1>1. IInv => RoundTrip
  BY Zenon DEF IInv, Handled
<1>. QED BY <1>1, Invariant, PTL

\* Though it is given the whole buffer, swim_decode_event reads exactly the
\* datagram of a server, and never more than that of a client.
THEOREM WireNoStaleByte ==
  ASSUME LittleEndian
  PROVE  Spec => []NoStaleByte
<1>1. IInv => NoStaleByte
  BY Zenon DEF IInv, Handled
<1>. QED BY <1>1, Invariant, PTL

\* The capacity that swim_decode_event computes never lets the decoded gossip
\* run over the server's buffer, and never refuses a full load.
THEOREM WireCapacityFits ==
  ASSUME LittleEndian
  PROVE  Spec => []CapacityFits
<1>1. IInv => CapacityFits
  BY Zenon DEF IInv, Handled
<1>. QED BY <1>1, Invariant, PTL

\* Whatever command the client sends, the server decodes a PING without gossip.
THEOREM WireRawIsPing ==
  ASSUME LittleEndian
  PROVE  Spec => []RawIsPing
<1>1. IInv => RawIsPing
  BY Zenon DEF IInv, Handled
<1>. QED BY <1>1, Invariant, PTL

==============================================================================
