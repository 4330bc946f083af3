------------------------------- MODULE Encoding -------------------------------
(***************************************************************************)
(* The wire format of events: swim/encoding.h and swim/encoding.c, one     *)
(* operator per pair of functions that write and read a part of an event.  *)
(*                                                                         *)
(* An integer is the tuple of its bytes, the most significant first, which *)
(* is the order htons, htonl and htobe64 put them in on any host; Host     *)
(* gives the order they have in memory.  A UUID is a tuple of 16 bytes and *)
(* a socket address a sequence of bytes.  An event without a field has     *)
(* <<>> there.                                                             *)
(***************************************************************************)
EXTENDS Integers, Sequences

CONSTANTS
  LittleEndian,     \* the host stores the least significant byte first
  MAX_PACKET_SIZE,  \* SWIM_MAX_PACKET_SIZE (2048)
  SizeofSockAddr,   \* sizeof(struct sockaddr_storage) (128)
  SizeofNodeInfo,   \* sizeof(NodeInfo) (168)
  SizeofEvent       \* sizeof(Event), where event->gossip begins (200)

Uint16 == {n \in Nat : n < 256 * 256}

ASSUME SizeAssumption ==
  /\ LittleEndian \in BOOLEAN
  /\ MAX_PACKET_SIZE \in Uint16
  /\ {SizeofSockAddr, SizeofNodeInfo, SizeofEvent} \subseteq Nat
  /\ 32 + SizeofSockAddr <= SizeofNodeInfo

\* enum EventType
PING == 0
ACK == 1
PING_REQ == 2
JOIN == 16
LEAVE == 17
EventType == {PING, ACK, PING_REQ, JOIN, LEAVE}

Byte == 0..255
Bytes(n) == [1..n -> Byte]
SockAddr == {a \in Seq(Byte) : Len(a) <= SizeofSockAddr}

NodeInfo ==
  [uuid : Bytes(16), last_seen : Bytes(8), status : Uint16,
   incarnation : Bytes(4), addr : SockAddr]

Zeros(n) == [i \in 1..n |-> 0]
Host(b) ==
  IF LittleEndian THEN [i \in DOMAIN b |-> b[Len(b) + 1 - i]] ELSE b

------------------------------------------------------------------------------
\* Encoding

swim_encode_uint16(n) == <<n \div 256, n % 256>>

swim_encode_varlen(data) == swim_encode_uint16(Len(data)) \o data

\* Version, type, four bytes for the length, time, UUID, incarnation.  The
\* length is stored last, in host order and eight bytes wide, through a pointer
\* to the four: it also overwrites the upper half of the time.
swim_encode_event_header(e) ==
  LET b == swim_encode_uint16(1) \o swim_encode_uint16(e.type) \o Zeros(4)
             \o e.time \o e.uuid \o e.incarnation
      plen == Host(Zeros(7) \o <<Len(b)>>)
  IN  [i \in DOMAIN b |-> IF i \in 5..12 THEN plen[i - 4] ELSE b[i]]

\* ACK, LEAVE and PING_REQ carry a UUID, JOIN an address as well
EncodePayload(e) ==
  CASE e.type = PING -> <<>>
    [] e.type = JOIN -> e.arg \o swim_encode_varlen(e.addr)
    [] OTHER -> e.arg

swim_encode_info(info) ==
  info.uuid \o info.last_seen \o swim_encode_uint16(info.status)
    \o info.incarnation \o swim_encode_varlen(info.addr)

\* The first "count" records, one after the other
EncodeInfos(gossip, count) ==
  LET upto[n \in 0..count] ==
        IF n = 0 THEN <<>> ELSE upto[n - 1] \o swim_encode_info(gossip[n])
  IN  upto[count]

\* Mutant: one record less than the count says
swim_encode_gossip_OneShort(gossip) ==
  swim_encode_uint16(Len(gossip))
    \o EncodeInfos(gossip, IF gossip = <<>> THEN 0 ELSE Len(gossip) - 1)

swim_encode_gossip(gossip) ==
  swim_encode_uint16(Len(gossip)) \o EncodeInfos(gossip, Len(gossip))

swim_encode_event(e) ==
  swim_encode_event_header(e) \o EncodePayload(e) \o swim_encode_gossip(e.gossip)

------------------------------------------------------------------------------
\* Decoding, from the buffer b after the first "at" bytes

\* What is in the part of the buffer that nothing was received into
Unwritten == 256

Read(b, at, n) ==
  [i \in 1..n |-> IF at + i <= Len(b) THEN b[at + i] ELSE Unwritten]

swim_decode_uint16(b, at) ==
  LET r == Read(b, at, 2) IN 256 * r[1] + r[2]

swim_decode_varlen(b, at) ==
  LET length == swim_decode_uint16(b, at)
  IN  [data |-> Read(b, at + 2, length), next |-> at + 2 + length]

\* The version and the length are read and not looked at
swim_decode_event_header(b) ==
  [type |-> swim_decode_uint16(b, 2), time |-> Read(b, 8, 8),
   uuid |-> Read(b, 16, 16), incarnation |-> Read(b, 32, 4), next |-> 36]

DecodePayload(b, h) ==
  LET addr == swim_decode_varlen(b, h.next + 16)
  IN  CASE h.type = PING -> [arg |-> <<>>, addr |-> <<>>, next |-> h.next]
        [] h.type = JOIN ->
             [arg |-> Read(b, h.next, 16), addr |-> addr.data, next |-> addr.next]
        [] OTHER ->
             [arg |-> Read(b, h.next, 16), addr |-> <<>>, next |-> h.next + 16]

\* Mutant: incarnation and status in the order of struct NodeInfo
swim_decode_info_StructOrder(b, at) ==
  LET addr == swim_decode_varlen(b, at + 30)
  IN  [uuid |-> Read(b, at, 16), last_seen |-> Read(b, at + 16, 8),
       incarnation |-> Read(b, at + 24, 4),
       status |-> swim_decode_uint16(b, at + 28),
       addr |-> addr.data, next |-> addr.next]

swim_decode_info(b, at) ==
  LET addr == swim_decode_varlen(b, at + 30)
  IN  [uuid |-> Read(b, at, 16), last_seen |-> Read(b, at + 16, 8),
       status |-> swim_decode_uint16(b, at + 24),
       incarnation |-> Read(b, at + 26, 4),
       addr |-> addr.data, next |-> addr.next]

Info(d) ==
  [uuid |-> d.uuid, last_seen |-> d.last_seen, status |-> d.status,
   incarnation |-> d.incarnation, addr |-> d.addr]

\* One more record
DecodeNext(b, before) ==
  LET d == swim_decode_info(b, before.next)
  IN  [gossip |-> Append(before.gossip, Info(d)), next |-> d.next]

\* The records, one after the other
DecodeInfos(b, at, count) ==
  LET after[n \in 0..count] ==
        IF n = 0 THEN [gossip |-> <<>>, next |-> at]
        ELSE DecodeNext(b, after[n - 1])
  IN  after[count]

\* Mutant: the room is rounded up to a whole record
GossipCapacity_RoundedUp(at) ==
  (MAX_PACKET_SIZE - at - 2) \div SizeofNodeInfo + 1

\* The records that are taken to fit, from where the gossip begins
GossipCapacity(at) == (MAX_PACKET_SIZE - at - 2) \div SizeofNodeInfo

Dropped == [type |-> -1]

\* The event and the number of bytes read; an unknown type or a count above
\* the capacity drops it
swim_decode_event(b) ==
  LET h == swim_decode_event_header(b)
      p == DecodePayload(b, h)
      count == swim_decode_uint16(b, p.next)
      g == DecodeInfos(b, p.next + 2, count)
  IN  IF h.type \notin EventType \/ count > GossipCapacity(p.next)
      THEN [event |-> Dropped, bytes |-> -1]
      ELSE [event |-> [type |-> h.type, time |-> h.time, uuid |-> h.uuid,
                       incarnation |-> h.incarnation, arg |-> p.arg,
                       addr |-> p.addr, gossip |-> g.gossip],
            bytes |-> g.next]
==============================================================================
