--------------------------------- MODULE Wire ---------------------------------
(***************************************************************************)
(* Datagrams from one host to another: a server receives the events of     *)
(* other servers (swim_send_event and swim_recv_event, swim/network.c) and *)
(* of the example client (examples/swim_client.c), which sends the struct  *)
(* as it lies in memory.                                                   *)
(*                                                                         *)
(* swim_recv_event decodes the whole of its buffer, however few bytes the  *)
(* datagram had.  The buffer is on the stack, where the previous call has  *)
(* left its own datagram: the bytes beyond the new one are old ones.       *)
(***************************************************************************)
EXTENDS Encoding

CONSTANTS
  Events,          \* the events that servers send
  Commands,        \* the events the client is told to send
  MAX_GOSSIP_SIZE  \* SWIM_MAX_GOSSIP_SIZE (10)

\* Room for the longest event and, as a struct, for the gossip taken to fit
ASSUME RoomAssumption ==
  /\ MAX_GOSSIP_SIZE \in Nat
  /\ 56 + SizeofSockAddr + MAX_GOSSIP_SIZE * SizeofNodeInfo <= MAX_PACKET_SIZE
  /\ 56 <= SizeofEvent
  /\ SizeofEvent
       + SizeofNodeInfo * ((MAX_PACKET_SIZE - 38) \div SizeofNodeInfo)
       <= MAX_PACKET_SIZE

\* The time, in seconds, has 32 bits
Time == {t \in Bytes(8) : \A i \in 1..4 : t[i] = 0}

\* struct Event, and the payload of each type
Event ==
  {e \in [type : EventType, time : Time, uuid : Bytes(16),
          incarnation : Bytes(4), arg : Bytes(16) \cup {<<>>}, addr : SockAddr,
          gossip : Seq(NodeInfo)] :
     /\ e.type = PING <=> e.arg = <<>>
     /\ e.type # JOIN => e.addr = <<>>
     /\ Len(e.gossip) <= MAX_GOSSIP_SIZE}

\* The client fills in the header and the UUID
ASSUME EventsAssumption ==
  /\ Events \subseteq Event
  /\ \A e \in Commands :
       /\ e.type \in EventType /\ e.time \in Bytes(8) /\ e.uuid \in Bytes(16)
       /\ e.arg \in Bytes(16) \cup {<<>>}

VARIABLES
  at,       \* where the datagram is: "none", "server", "handled", "client"
  by,       \* who sent it
  sent,     \* the event it stands for
  wire,     \* its bytes
  buf,      \* the receive buffer, as far as it was ever written
  got,      \* the event the server decoded last
  bytes,    \* the bytes it read for that
  printed   \* the type of the event the client printed last, or Nothing

vars == <<at, by, sent, wire, buf, got, bytes, printed>>

Nothing == -1

TypeOK ==
  /\ at \in {"none", "server", "handled", "client"}
  /\ by \in {"server", "client"}
  /\ sent \in Events \cup Commands \cup {Dropped}
  /\ wire \in Seq(Byte) /\ Len(wire) <= MAX_PACKET_SIZE
  /\ buf \in Seq(Byte) /\ Len(buf) <= MAX_PACKET_SIZE
  /\ got.type \in EventType \cup {Nothing}
  /\ bytes \in -1..MAX_PACKET_SIZE
  /\ printed \in EventType \cup {Nothing}

Init ==
  /\ at = "none" /\ by = "server"
  /\ sent = Dropped /\ got = Dropped
  /\ wire = <<>> /\ buf = <<>>
  /\ bytes = 0 /\ printed = Nothing

------------------------------------------------------------------------------
swim_send_event(e) ==
  /\ at = "none"
  /\ at' = "server" /\ by' = "server"
  /\ sent' = e
  /\ wire' = swim_encode_event(e)
  /\ UNCHANGED <<buf, got, bytes, printed>>

\* Mutant: without the memset, whose effect the padding keeps
RawEvent_NotCleared(e) ==
  Host(Zeros(2) \o swim_encode_uint16(e.type)) \o e.uuid \o Zeros(4)
    \o Host(e.time) \o Zeros(4) \o <<0, 1, 0, 0>>
    \o (IF e.arg = <<>> THEN Zeros(16) ELSE e.arg) \o Zeros(SizeofEvent - 56)

\* struct Event in the client's memory: type, sender's UUID, padding, time,
\* incarnation and padding; the UUID of the command; the rest is cleared
RawEvent(e) ==
  Host(Zeros(2) \o swim_encode_uint16(e.type)) \o e.uuid \o Zeros(4)
    \o Host(e.time) \o Zeros(8)
    \o (IF e.arg = <<>> THEN Zeros(16) ELSE e.arg) \o Zeros(SizeofEvent - 56)

client_send(e) ==
  /\ at = "none"
  /\ at' = "server" /\ by' = "client"
  /\ sent' = e
  /\ wire' = RawEvent(e)
  /\ printed' = Nothing
  /\ UNCHANGED <<buf, got, bytes>>

\* The new datagram, and what is left of older ones behind it
Overwrite(b, datagram) == datagram \o SubSeq(b, Len(datagram) + 1, Len(b))

swim_recv_event ==
  /\ at = "server"
  /\ buf' = Overwrite(buf, wire)
  /\ LET d == swim_decode_event(buf')
     IN  got' = d.event /\ bytes' = d.bytes
  /\ at' = "handled"
  /\ UNCHANGED <<by, sent, wire, printed>>

\* The client waits for an answer to PING, JOIN and LEAVE
ClientWaits == by = "client" /\ sent.type \in {PING, JOIN, LEAVE}

\* The server answers a PING (or JOIN or LEAVE) with an ACK
swim_send_ack(e) ==
  /\ at = "handled" /\ ClientWaits
  /\ e.type = ACK /\ got.type \in {PING, JOIN, LEAVE}
  /\ at' = "client"
  /\ wire' = swim_encode_event(e)
  /\ UNCHANGED <<by, sent, buf, got, bytes, printed>>

\* A server goes on, and so does a client that does not wait
Done ==
  /\ at = "handled" /\ ~ClientWaits
  /\ at' = "none"
  /\ UNCHANGED <<by, sent, wire, buf, got, bytes, printed>>

\* The type of the event in the client's buffer, if it is one that
\* swim_event_string knows
swim_event_string(b) ==
  IF \E t \in EventType \ {PING_REQ} :
       Host(SubSeq(b, 1, 4)) = Zeros(2) \o swim_encode_uint16(t)
  THEN Host(SubSeq(b, 1, 4))[4] ELSE Nothing

\* The client takes the datagram for a struct Event, too
client_recv ==
  /\ at = "client"
  /\ printed' = swim_event_string(wire)
  /\ at' = "none"
  /\ UNCHANGED <<by, sent, wire, buf, got, bytes>>

Next ==
  \/ \E e \in Events : swim_send_event(e) \/ swim_send_ack(e)
  \/ \E e \in Commands : client_send(e)
  \/ swim_recv_event
  \/ Done
  \/ client_recv

Spec == Init /\ [][Next]_vars

------------------------------------------------------------------------------
\* Whatever was received before, the event a server decodes is the one another
\* server sent, gossip included, and none is dropped: the length that
\* swim_encode_event_header stores over half of the time does no harm to a
\* time of 32 bits on a little-endian host.
RoundTrip == at = "handled" /\ by = "server" => got = sent

\* Decoding the whole buffer is safe: of a server's datagram exactly the bytes
\* received are read, and of a client's not more, so no byte of an older
\* datagram gets into an event (swim_recv_event).
NoStaleByte ==
  at = "handled" =>
    IF by = "server" THEN bytes = Len(wire) ELSE bytes \in 0..Len(wire)

\* The room swim_decode_event computes from the encoded size is right for the
\* decoded one: what it lets through ends within the server's buffer, of
\* MAX_PACKET_SIZE bytes too, and a full load of gossip is let through.
CapacityFits ==
  at = "handled" =>
    LET capacity == GossipCapacity(DecodePayload(buf,
                                     swim_decode_event_header(buf)).next)
    IN  /\ SizeofEvent + capacity * SizeofNodeInfo <= MAX_PACKET_SIZE
        /\ capacity >= MAX_GOSSIP_SIZE

\* Nothing a client sends, and nothing that lies behind it in the buffer,
\* brings a member or a rumour into a view: a struct in a little-endian memory
\* decodes to a PING without gossip (swim_decode_event).
RawIsPing ==
  at = "handled" /\ by = "client" => got.type = PING /\ got.gossip = <<>>

------------------------------------------------------------------------------
\* What the repository says and the code does not do

\* "assert_int_equal(headers[i].time, actual.time)" (test_encoding_header)
TimeSurvives == at = "handled" /\ by = "server" => got.time = sent.time

\* "We are using little-endian format for integers" (swim/encoding.h:7): the
\* type is stored with its low byte first.
LittleEndianFormat ==
  at = "server" /\ by = "server" =>
    SubSeq(wire, 3, 4) = <<sent.type % 256, sent.type \div 256>>

\* "usage: %s <hostname> <event>" (examples/swim_client.c:43): the server is
\* sent the event that the user asks for.
ClientIsUnderstood == at = "handled" /\ by = "client" => got.type = sent.type

\* "Wait and read the server's reply if we sent a ping"
\* (examples/swim_client.c:123): the reply is recognized and printed.
ReplyIsPrinted ==
  at = "none" /\ ClientWaits => printed = ACK
==============================================================================
