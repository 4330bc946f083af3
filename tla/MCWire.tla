-------------------------------- MODULE MCWire --------------------------------
(***************************************************************************)
(* Wire for TLC: events of every type, with no gossip, one record, two and *)
(* a full load.                                                            *)
(***************************************************************************)
EXTENDS Wire

Uuid(n) == [i \in 1..16 |-> 16 * n + i]
Addr(n) == [i \in 1..16 |-> 16 * n + 15 - i]

\* Seconds of 2025, and one that fills the lower 32 bits
Now == <<0, 0, 0, 0, 105, 72, 217, 45>>
Latest == <<0, 0, 0, 0, 255, 255, 255, 255>>

Record(n) ==
  [uuid |-> Uuid(n), last_seen |-> Now, status |-> 1 + (n % 3),
   incarnation |-> <<0, 1, 2, n>>, addr |-> Addr(n)]

MCEvent(type, time, arg, addr, gossip) ==
  [type |-> type, time |-> time, uuid |-> Uuid(1),
   incarnation |-> <<0, 0, 1, 0>>, arg |-> arg, addr |-> addr,
   gossip |-> gossip]

Gossips == {[i \in 1..n |-> Record(2 + i)] : n \in {0, 1, 2, MAX_GOSSIP_SIZE}}

MCEvents ==
  {MCEvent(PING, Now, <<>>, <<>>, g) : g \in Gossips}
  \cup {MCEvent(t, Now, Uuid(2), <<>>, g) : t \in {ACK, PING_REQ}, g \in Gossips}
  \cup {MCEvent(JOIN, t, Uuid(2), a, <<>>) :
          t \in {Now, Latest}, a \in {<<>>, Addr(9)}}
  \cup {MCEvent(LEAVE, Latest, Uuid(2), <<>>, <<>>)}

MCCommands ==
  {MCEvent(t, Now, <<>>, <<>>, <<>>) : t \in {PING, ACK}}
  \cup {MCEvent(t, Now, Uuid(2), <<>>, <<>>) : t \in {PING_REQ, JOIN, LEAVE}}
==============================================================================
