-------------------------- MODULE SwimAddressProofs ---------------------------
(***************************************************************************)
(* Where the addresses and the times in a view come from: AddressIsTrue    *)
(* and NotSeenAfterEnd, and the isolation of a process whose JOIN is lost, *)
(* LostJoinIsFinal.                                                        *)
(*                                                                         *)
(* A view is only as true as the datagrams merged into it, so Truthful     *)
(* asks the same of both.  One handler can break it: swim_process_ack      *)
(* takes the address and the time of the sender for those of the node the  *)
(* ACK is about, if it does not know that node.  AckIsFirstHand says that  *)
(* it never has to; among three processes with addresses of their own that *)
(* is so, because whoever is relayed an ACK has asked for it or is the     *)
(* node itself (Relayed).                                                  *)
(***************************************************************************)
EXTENDS SwimProofs

------------------------------------------------------------------------------
(***************************************************************************)
(* Where the addresses, the times and the witnesses in a view come from.   *)
(* These lemmas say of each action what enters the view of the process     *)
(* that takes it and what leaves in its datagrams, for any addresses A,    *)
(* ages T and witnesses W the view keeps to before.                        *)
(***************************************************************************)
\* Datagram m, handled by n, brings nothing into the view of n but A, T and W
Fits(n, m, A, T, W) ==
  /\ GossipKeepsTo(m.gossip, A, T)
  /\ m.age \in T[m.uuid]
  /\ m.type = "PING_REQ" /\ m.arg \in DOMAIN view[n] => m.from \in W[m.arg]
  /\ m.type = "ACK" /\ m.arg \notin DOMAIN view[n] \cup {n}
       => m.from \in A[m.arg] /\ m.age \in T[m.arg]
  /\ m.type = "JOIN" /\ m.arg \notin DOMAIN view[n] \cup {n}
       => JoinAddr(m) \in A[m.arg] /\ m.age \in T[m.arg]

\* The datagrams with which n may react to m: an answer, a ping, a relayed ACK
\* and a forwarded JOIN
Answer(n, m, x, A, T) ==
  \E g : GossipKeepsTo(g, A, T) /\ x = swim_event_init(n, "ACK", n, m.from, g)
IndirectPing(n, x, A, T) ==
  \E g : \E u \in DOMAIN view[n] : \E to \in A[u] :
    GossipKeepsTo(g, A, T) /\ x = swim_event_init(n, "PING", NilUuid, to, g)
Relay(n, m, x, A, T, W) ==
  \E g : \E u \in DOMAIN view[n] : \E to \in W[u] :
    /\ m.type = "ACK" /\ m.arg # n /\ (m.arg \in DOMAIN view[n] => u = m.arg)
    /\ GossipKeepsTo(g, A, T) /\ x = swim_event_init(n, "ACK", m.arg, to, g)
Forwarded(n, m, x, A) ==
  /\ m.type = "JOIN" /\ m.arg \notin DOMAIN view[n] \cup {n}
  /\ \E u \in DOMAIN view[n] \cup {m.arg} : \E to \in A[u] : x = Forward(n, m, to)

Reaction(n, m, x, A, T, W) ==
  \/ Answer(n, m, x, A, T) \/ IndirectPing(n, x, A, T)
  \/ Relay(n, m, x, A, T, W) \/ Forwarded(n, m, x, A)

\* What n sends of its own accord: pings, requests for pings, its leave
Unasked(n, x, A, T) ==
  \E g : \E u \in DOMAIN view[n] : \E to \in A[u] :
    /\ GossipKeepsTo(g, A, T)
    /\ \/ x = swim_event_init(n, "PING", NilUuid, to, g)
       \/ \E t \in DOMAIN view[n] : x = swim_event_init(n, "PING_REQ", t, to, g)
       \/ x = swim_event_init(n, "LEAVE", NilUuid, to, g)

\* n alone takes a step and its view still keeps to A, T and W
Stays(n, A, T, W) ==
  /\ KeepsTo(view'[n], A, T, W)
  /\ \A p \in Node \ {n} : view'[p] = view[p] /\ pc'[p] = pc[p]
  /\ pc'[n] \in Running \cup Ended
  /\ UNCHANGED downAge

\* The datagrams the send helpers build carry gossip of the view.
LEMMA SendAckKeeps ==
  ASSUME NEW n, NEW v, NEW A, NEW T, NEW W, KeepsTo(v, A, T, W), NEW arg,
         NEW to, NEW x \in swim_send_ack(n, v, arg, to)
  PROVE  \E g : /\ GossipKeepsTo(g, A, T)
                /\ x = swim_event_init(n, "ACK", arg, to, g)
<1>1. \A g \in swim_fill_gossip(v) : GossipKeepsTo(g, A, T)
  BY FillGossipKeeps
<1> QED
  BY <1>1 DEF swim_send_ack

\* The same of a ping.
LEMMA SendPingKeeps ==
  ASSUME NEW n, NEW v, NEW A, NEW T, NEW W, KeepsTo(v, A, T, W),
         NEW to, NEW x \in swim_send_ping(n, v, to)
  PROVE  \E g : /\ GossipKeepsTo(g, A, T)
                /\ x = swim_event_init(n, "PING", NilUuid, to, g)
<1>1. \A g \in swim_fill_gossip(v) : GossipKeepsTo(g, A, T)
  BY FillGossipKeeps
<1> QED
  BY <1>1 DEF swim_send_ping

\* The same of a request for a ping.
LEMMA SendPingReqKeeps ==
  ASSUME NEW n, NEW v, NEW A, NEW T, NEW W, KeepsTo(v, A, T, W), NEW arg,
         NEW to, NEW x \in swim_send_ping_req(n, v, arg, to)
  PROVE  \E g : /\ GossipKeepsTo(g, A, T)
                /\ x = swim_event_init(n, "PING_REQ", arg, to, g)
<1>1. \A g \in swim_fill_gossip(v) : GossipKeepsTo(g, A, T)
  BY FillGossipKeeps
<1> QED
  BY <1>1 DEF swim_send_ping_req

\* A process that ends has forgotten everything.
LEMMA TerminateStays ==
  ASSUME ProcessInv, NEW n \in Node, NEW how \in Ended, Terminate(n, how),
         NEW A, NEW T, NEW W
  PROVE  Stays(n, A, T, W)
<1>1. view'[n] = Nothing /\ pc'[n] = how
  BY DEF Terminate, ProcessInv
<1>2. \A p \in Node \ {n} : view'[p] = view[p] /\ pc'[p] = pc[p]
  BY DEF Terminate, ProcessInv
<1> QED
  BY <1>1, <1>2, NothingKeeps DEF Stays, Terminate

\* A handler that returns leaves the view it has built.
LEMMA ContinueStays ==
  ASSUME ProcessInv, NEW n \in Node, NEW v, NEW A, NEW T, NEW W,
         KeepsTo(v, A, T, W), Continue(n, v)
  PROVE  Stays(n, A, T, W)
<1>1. view'[n] = v /\ pc'[n] \in Running
  BY DEF Continue, ProcessInv, Running
<1>2. \A p \in Node \ {n} : view'[p] = view[p] /\ pc'[p] = pc[p]
  BY DEF Continue, ProcessInv
<1> QED
  BY <1>1, <1>2 DEF Stays, Continue

\* swim_process_gossip takes addresses and times from the gossip.
LEMMA GossipStays ==
  ASSUME ProcessInv, NEW n \in Node, NEW v, IsView(v), NEW A, NEW T, NEW W,
         KeepsTo(v, A, T, W), NEW g, GossipKeepsTo(g, A, T),
         swim_process_gossip(n, v, g)
  PROVE  Stays(n, A, T, W)
<1>1. CASE Terminate(n, "aborted") \/ Terminate(n, "exited")
  BY <1>1, TerminateStays DEF Ended
<1>2. CASE Continue(n, swim_state_merge(v, n, g))
  <2>1. KeepsTo(swim_state_merge(v, n, g), A, T, W)
    BY MergeKeeps
  <2> QED
    BY <1>2, <2>1, ContinueStays
<1> QED
  BY <1>1, <1>2 DEF swim_process_gossip

\* Noticing the sender brings the time of the header into the view.
LEMMA NoticedKeeps ==
  ASSUME IInv, NEW n \in Node, NEW m \in net, NEW A, NEW T, NEW W,
         KeepsTo(view[n], A, T, W), Fits(n, m, A, T, W)
  PROVE  /\ KeepsTo(Noticed(n, m), A, T, W) /\ IsView(Noticed(n, m))
         /\ DOMAIN Noticed(n, m) = DOMAIN view[n]
<1>1. IsView(view[n])
  BY DEF IInv, ProcessInv, GoodView
<1>2. IsView(Noticed(n, m)) /\ DOMAIN Noticed(n, m) = DOMAIN view[n]
  BY NoticedGood DEF Succeeds, GoodView
<1>3. KeepsTo(Noticed(n, m), A, T, W)
  BY <1>1, NoticeKeeps DEF Noticed, Fits
<1> QED
  BY <1>2, <1>3

------------------------------------------------------------------------------
\* swim_process_ping
LEMMA PingKeeps ==
  ASSUME IInv, NEW n \in Node, NEW m \in net, NEW A, NEW T, NEW W,
         KeepsTo(view[n], A, T, W), Fits(n, m, A, T, W), swim_process_ping(n, m)
  PROVE  /\ Stays(n, A, T, W)
         /\ \A x \in net' : x \in net \/ Reaction(n, m, x, A, T, W)
<1> DEFINE v == Noticed(n, m)
<1>1. KeepsTo(v, A, T, W) /\ IsView(v)
  BY NoticedKeeps
<1>2. /\ Transmit(swim_send_ack(n, v, n, m.from))
      /\ swim_process_gossip(n, v, m.gossip)
  BY DEF swim_process_ping
<1> HIDE DEF v
<1>3. Stays(n, A, T, W)
  BY <1>1, <1>2, GossipStays DEF IInv, Fits
<1>4. \A x \in swim_send_ack(n, v, n, m.from) : Answer(n, m, x, A, T)
  BY <1>1, SendAckKeeps DEF Answer
<1> QED
  BY <1>2, <1>3, <1>4 DEF Transmit, Reaction

\* swim_process_ping_req takes the sender as a witness
LEMMA PingReqKeeps ==
  ASSUME IInv, NEW n \in Node, NEW m \in net, NEW A, NEW T, NEW W,
         KeepsTo(view[n], A, T, W), Fits(n, m, A, T, W),
         swim_process_ping_req(n, m)
  PROVE  /\ Stays(n, A, T, W)
         /\ \A x \in net' : x \in net \/ Reaction(n, m, x, A, T, W)
<1> DEFINE v == Noticed(n, m)
           r == swim_state_suspect(v, m.arg, m.from)
<1>0. m.type = "PING_REQ"
  BY DEF swim_process_ping_req, Arrives
<1>1. KeepsTo(v, A, T, W) /\ IsView(v) /\ DOMAIN v = DOMAIN view[n]
  BY NoticedKeeps
<1>2. CASE m.arg \in DOMAIN v
  <2>1. Handled(n, r) /\ Transmit(swim_send_ping(n, r, v[m.arg].addr))
    BY <1>2 DEF swim_process_ping_req
  <2> HIDE DEF v
  <2>2. m.from \in W[m.arg] /\ v[m.arg].addr \in A[m.arg]
    BY <1>0, <1>1, <1>2 DEF Fits, KeepsTo
  <2>3. KeepsTo(r, A, T, W)
    BY <1>1, <1>2, <2>2, SuspectKeeps
  <2> HIDE DEF r
  <2>4. Stays(n, A, T, W)
    BY <2>1, <2>3, ContinueStays DEF IInv, Handled
  <2>5. \A x \in swim_send_ping(n, r, v[m.arg].addr) : IndirectPing(n, x, A, T)
    <3> SUFFICES ASSUME NEW x \in swim_send_ping(n, r, v[m.arg].addr)
                 PROVE  IndirectPing(n, x, A, T)
      OBVIOUS
    <3>1. \E g : /\ GossipKeepsTo(g, A, T)
                 /\ x = swim_event_init(n, "PING", NilUuid, v[m.arg].addr, g)
      BY <2>3, SendPingKeeps
    <3> QED
      BY <1>1, <1>2, <2>2, <3>1 DEF IndirectPing
  <2> QED
    BY <2>1, <2>4, <2>5 DEF Transmit, Reaction
<1>3. CASE m.arg \notin DOMAIN v
  <2>1. Handled(n, v) /\ UNCHANGED net
    BY <1>3 DEF swim_process_ping_req
  <2> HIDE DEF v
  <2> QED
    BY <1>1, <2>1, ContinueStays DEF IInv, Handled
<1> QED
  BY <1>2, <1>3

\* swim_process_ack writes the sender's address for an unknown node, and relays
\* to the witness of a member: the one the ACK is about when it is known.
LEMMA AckKeeps ==
  ASSUME IInv, NEW n \in Node, NEW m \in net, NEW A, NEW T, NEW W,
         KeepsTo(view[n], A, T, W), Fits(n, m, A, T, W), swim_process_ack(n, m)
  PROVE  /\ Stays(n, A, T, W)
         /\ \A x \in net' : x \in net \/ Reaction(n, m, x, A, T, W)
<1> DEFINE old == Noticed(n, m)
           v == AckView(old, m)
           u == AckNode(old, m)
           r == IF v[u].status \in {SUSPECT, UNKNOWN}
                THEN swim_cluster_refuted_dead(v, u) ELSE v
<1>0. m.type = "ACK" /\ m.arg \in Node
  BY DatagramType DEF swim_process_ack, Arrives
<1>1. KeepsTo(old, A, T, W) /\ IsView(old) /\ DOMAIN old = DOMAIN view[n]
  BY NoticedKeeps
<1>2. CASE m.arg = n /\ Handled(n, old) /\ UNCHANGED net
  BY <1>1, <1>2, ContinueStays DEF IInv, Handled
<1>3. CASE /\ m.arg # n
           /\ Transmit(UNION {swim_send_ack(n, v, m.arg, to)
                                : to \in AckWitness(v, u)})
           /\ swim_process_gossip(n, r, m.gossip)
  <2> HIDE DEF old
  <2>1. m.from \in Addr /\ m.age \in Age
    BY DatagramType
  <2>2. /\ KeepsTo(v, A, T, W) /\ DOMAIN v = DOMAIN old \cup {m.arg} /\ IsView(v)
        /\ m.arg \notin DOMAIN old => v[m.arg].witness = NoAddr
    <3>1. CASE m.arg \in DOMAIN old
      BY <1>1, <3>1 DEF AckView
    <3>2. CASE m.arg \notin DOMAIN old
      <4>1. v = swim_state_add(old, m.arg, AckInfo(m))
        BY <3>2 DEF AckView
      <4>2. AckInfo(m).addr \in A[m.arg] /\ AckInfo(m).age \in T[m.arg]
        BY <1>0, <1>1, <1>3, <3>2 DEF AckInfo, Fits
      <4>3. KeepsTo(swim_state_add(old, m.arg, AckInfo(m)), A, T, W)
        BY <1>1, <4>2, AddKeeps
      <4>4. DOMAIN v = DOMAIN old \cup {m.arg} /\ v[m.arg].witness = NoAddr
        BY <4>1 DEF swim_state_add, NewEntry
      <4>5. NewEntry(AckInfo(m)) \in Entry
        BY <2>1, StatusType DEF NewEntry, AckInfo, Entry
      <4>6. IsView(v)
        BY <1>0, <1>1, <4>1, <4>4, <4>5 DEF IsView, swim_state_add
      <4> QED
        BY <4>1, <4>3, <4>4, <4>6
    <3> QED
      BY <3>1, <3>2
  <2>3. u \in DOMAIN v /\ (m.arg \in DOMAIN old => u = m.arg)
    BY <2>2, AddedInView DEF AckNode, IsView
  <2> HIDE DEF v, u
  <2>4. KeepsTo(r, A, T, W) /\ IsView(r)
    <3>1. CASE v[u].status \in {SUSPECT, UNKNOWN}
      <4>1. r = swim_cluster_refuted_dead(v, u)
        BY <3>1
      <4>2. IsView(swim_cluster_refuted_dead(v, u))
        BY <2>2, <2>3, StatusType DEF swim_cluster_refuted_dead, IsView, Entry
      <4> HIDE DEF r
      <4> QED
        BY <2>2, <2>3, <4>1, <4>2, RefutedKeeps
    <3> QED
      BY <2>2, <3>1
  <2> HIDE DEF r
  <2>5. Stays(n, A, T, W)
    BY <1>3, <2>4, GossipStays DEF IInv, Fits
  <2>6. ASSUME NEW to \in AckWitness(v, u), NEW x \in swim_send_ack(n, v, m.arg, to)
        PROVE  Relay(n, m, x, A, T, W)
    <3>1. to = v[u].witness /\ to # NoAddr
      BY <2>6 DEF AckWitness
    <3>2. u \in DOMAIN view[n] /\ to \in W[u]
      BY <1>1, <2>2, <2>3, <3>1 DEF KeepsTo
    <3>3. \E g : /\ GossipKeepsTo(g, A, T)
                 /\ x = swim_event_init(n, "ACK", m.arg, to, g)
      BY <2>2, <2>6, SendAckKeeps
    <3> QED
      BY <1>0, <1>1, <1>3, <2>3, <3>2, <3>3 DEF Relay
  <2> QED
    BY <1>3, <2>5, <2>6 DEF Transmit, Reaction
<1> QED
  BY <1>2, <1>3 DEF swim_process_ack

\* swim_process_join writes the address of the joining node, and forwards the
\* event to every member.
LEMMA JoinKeeps ==
  ASSUME IInv, NEW n \in Node, NEW m \in net, NEW A, NEW T, NEW W,
         KeepsTo(view[n], A, T, W), Fits(n, m, A, T, W), swim_process_join(n, m)
  PROVE  /\ Stays(n, A, T, W)
         /\ \A x \in net' : x \in net \/ Reaction(n, m, x, A, T, W)
<1> DEFINE v == Noticed(n, m)
           r == swim_state_add(v, m.arg, JoinInfo(m))
<1>0. m.type = "JOIN"
  BY DEF swim_process_join, Arrives
<1>1. KeepsTo(v, A, T, W) /\ DOMAIN v = DOMAIN view[n]
  BY NoticedKeeps
<1>2. CASE m.arg \in DOMAIN v \cup {n}
  <2>1. Handled(n, v) /\ UNCHANGED net
    BY <1>2 DEF swim_process_join
  <2> HIDE DEF v
  <2> QED
    BY <1>1, <2>1, ContinueStays DEF IInv, Handled
<1>3. CASE m.arg \notin DOMAIN v \cup {n}
  <2>1. /\ Handled(n, r)
        /\ Transmit({Forward(n, m, r[u].addr) : u \in DOMAIN r}
                      \cup swim_send_ack(n, r, n, m.from))
    BY <1>3 DEF swim_process_join
  <2> HIDE DEF v
  <2>2. JoinInfo(m).addr \in A[m.arg] /\ JoinInfo(m).age \in T[m.arg]
    BY <1>0, <1>1, <1>3 DEF JoinInfo, Fits
  <2>3. KeepsTo(r, A, T, W)
    BY <1>1, <2>2, AddKeeps
  <2>4. DOMAIN r = DOMAIN view[n] \cup {m.arg}
    BY <1>1 DEF swim_state_add
  <2> HIDE DEF r
  <2>5. Stays(n, A, T, W)
    BY <2>1, <2>3, ContinueStays DEF IInv, Handled
  <2>6. \A u \in DOMAIN r : Forwarded(n, m, Forward(n, m, r[u].addr), A)
    BY <1>0, <1>1, <1>3, <2>3, <2>4 DEF Forwarded, KeepsTo
  <2>7. \A x \in swim_send_ack(n, r, n, m.from) : Answer(n, m, x, A, T)
    BY <2>3, SendAckKeeps DEF Answer
  <2> QED
    BY <2>1, <2>5, <2>6, <2>7 DEF Transmit, Reaction
<1> QED
  BY <1>2, <1>3

\* swim_process_leave answers and writes nothing but the time of the header.
LEMMA LeaveKeeps ==
  ASSUME IInv, NEW n \in Node, NEW m \in net, NEW A, NEW T, NEW W,
         KeepsTo(view[n], A, T, W), Fits(n, m, A, T, W), swim_process_leave(n, m)
  PROVE  /\ Stays(n, A, T, W)
         /\ \A x \in net' : x \in net \/ Reaction(n, m, x, A, T, W)
<1> DEFINE v == Noticed(n, m)
<1>1. KeepsTo(v, A, T, W) /\ IsView(v)
  BY NoticedKeeps
<1>2. m.type = "LEAVE"
  BY DEF swim_process_leave, Arrives
<1>3. m.arg \notin DOMAIN v
  BY <1>1, <1>2, DatagramType, NodeAssumption DEF NilUuid, IsView
<1>4. swim_state_del(v, n, m.arg) = v
  BY <1>3 DEF swim_state_del
<1>5. Handled(n, v) /\ Transmit(swim_send_ack(n, v, n, m.from))
  BY <1>4 DEF swim_process_leave
<1> HIDE DEF v
<1>6. Stays(n, A, T, W)
  BY <1>1, <1>5, ContinueStays DEF IInv, Handled
<1>7. \A x \in swim_send_ack(n, v, n, m.from) : Answer(n, m, x, A, T)
  BY <1>1, SendAckKeeps DEF Answer
<1> QED
  BY <1>5, <1>6, <1>7 DEF Transmit, Reaction

\* Whatever a process receives, only what fits enters its view.
LEMMA ReceiveKeeps ==
  ASSUME IInv, NEW n \in Node, NEW m \in net, NEW A, NEW T, NEW W,
         KeepsTo(view[n], A, T, W), Fits(n, m, A, T, W), Receive(n, m)
  PROVE  /\ Stays(n, A, T, W)
         /\ \A x \in net' : x \in net \/ Reaction(n, m, x, A, T, W)
<1>1. CASE swim_process_ping(n, m)
  BY <1>1, PingKeeps
<1>2. CASE swim_process_ping_req(n, m)
  BY <1>2, PingReqKeeps
<1>3. CASE swim_process_ack(n, m)
  BY <1>3, AckKeeps
<1>4. CASE swim_process_join(n, m)
  BY <1>4, JoinKeeps
<1>5. CASE swim_process_leave(n, m)
  BY <1>5, LeaveKeeps
<1>6. CASE NoticeFails(n, m)
  BY <1>6, TerminateStays DEF NoticeFails, Ended, IInv
<1> QED
  BY <1>1, <1>2, <1>3, <1>4, <1>5, <1>6 DEF Receive

\* The status loop of the heartbeat writes neither addresses nor times nor
\* witnesses.
LEMMA VisitedKeeps ==
  ASSUME NEW v, IsView(v), NEW last, NEW u \in DOMAIN v
  PROVE  LET r == Visited(v, last)
         IN /\ r[u].addr = v[u].addr /\ r[u].age = v[u].age
            /\ r[u].witness = v[u].witness
<1>0. v[u] \in Entry
  BY DEF IsView
<1>1. \/ Visited(v, last)[u] = [v[u] EXCEPT !.status = SUSPECT]
      \/ Visited(v, last)[u] = [v[u] EXCEPT !.status = DEAD]
      \/ Visited(v, last)[u] = v[u]
  BY DEF Visited, swim_cluster_declare_dead
<1> QED
  BY <1>0, <1>1 DEF Entry

\* The heartbeat pings members and asks members to ping other members.
LEMMA HeartbeatKeeps ==
  ASSUME IInv, NEW n \in Node, NEW A, NEW T, NEW W, KeepsTo(view[n], A, T, W),
         swim_cluster_heartbeat(n)
  PROVE  /\ Stays(n, A, T, W)
         /\ \A x \in net' : x \in net \/ Unasked(n, x, A, T)
<1> DEFINE v == view[n]
           size == Cardinality(DOMAIN v)
           r == [u \in DOMAIN v |-> Visited(v, u)[u]]
<1>0. IsView(v) /\ ProcessInv
  BY DEF IInv, ProcessInv, GoodView
<1>1. \A t : DOMAIN Visited(v, t) = DOMAIN v
  BY DEF Visited
<1>2. \A t : \A u \in DOMAIN v :
        /\ Visited(v, t)[u].addr = v[u].addr /\ Visited(v, t)[u].age = v[u].age
        /\ Visited(v, t)[u].witness = v[u].witness
  BY <1>0, VisitedKeeps
<1>3. \A t : KeepsTo(Visited(v, t), A, T, W)
  BY <1>1, <1>2 DEF KeepsTo
<1>4. KeepsTo(r, A, T, W)
  BY <1>2 DEF KeepsTo
<1>5. PICK ping \in Probe(n, v), start \in [Expired(v) -> 0..(size - 1)] :
        Transmit(ping \cup
          UNION {swim_cluster_suspect_dead(n, Visited(v, t), t, start[t])
                   : t \in Expired(v)})
  BY Zenon DEF swim_cluster_heartbeat
<1>6. /\ pc' = [pc EXCEPT ![n] = "recv"] /\ view' = [view EXCEPT ![n] = r]
      /\ UNCHANGED downAge
  BY DEF swim_cluster_heartbeat
<1> HIDE DEF r
<1>7. Stays(n, A, T, W)
  BY <1>0, <1>4, <1>6 DEF Stays, ProcessInv, Running
<1>8. ASSUME NEW x \in ping PROVE Unasked(n, x, A, T)
  <2>1. PICK u \in DOMAIN v : x \in swim_send_ping(n, v, v[u].addr)
    BY <1>8 DEF Probe, ProbeTargets
  <2>2. v[u].addr \in A[u]
    BY <2>1 DEF KeepsTo
  <2>3. \E g : /\ GossipKeepsTo(g, A, T)
               /\ x = swim_event_init(n, "PING", NilUuid, v[u].addr, g)
    BY <2>1, SendPingKeeps
  <2> QED
    BY <2>1, <2>2, <2>3 DEF Unasked
<1>9. ASSUME NEW t \in Expired(v),
             NEW x \in swim_cluster_suspect_dead(n, Visited(v, t), t, start[t])
      PROVE  Unasked(n, x, A, T)
  <2> DEFINE w == Visited(v, t)
  <2>1. t \in DOMAIN v
    BY <1>9 DEF Expired
  <2>2. PICK u \in DOMAIN w : x \in swim_send_ping_req(n, w, t, w[u].addr)
    BY <1>9 DEF swim_cluster_suspect_dead, PingReqTargets
  <2>3. u \in DOMAIN v /\ w[u].addr \in A[u] /\ KeepsTo(w, A, T, W)
    BY <1>1, <1>3, <2>2, Zenon DEF KeepsTo
  <2> HIDE DEF w
  <2>4. \E g : /\ GossipKeepsTo(g, A, T)
               /\ x = swim_event_init(n, "PING_REQ", t, w[u].addr, g)
    BY <2>2, <2>3, SendPingReqKeeps
  <2> QED
    BY <2>1, <2>3, <2>4 DEF Unasked
<1> QED
  BY <1>5, <1>7, <1>8, <1>9 DEF Transmit

\* swim_cluster_leave tells members.
LEMMA LeaveSentKeeps ==
  ASSUME IInv, NEW n \in Node, NEW A, NEW T, NEW W, KeepsTo(view[n], A, T, W),
         swim_cluster_leave(n)
  PROVE  /\ Stays(n, A, T, W)
         /\ \A x \in net' : x \in net \/ Unasked(n, x, A, T)
<1> DEFINE v == view[n]
           Leave(u) == swim_event_init(n, "LEAVE", NilUuid, v[u].addr, Nothing)
<1>1. PICK S \in SUBSET DOMAIN v : Transmit({Leave(u) : u \in S})
  BY Zenon DEF swim_cluster_leave
<1>2. \A u \in S : Unasked(n, Leave(u), A, T)
  BY NothingKeeps, Zenon DEF Unasked, KeepsTo
<1>3. pc[n] = "recv" /\ UNCHANGED <<pc, view, downAge>>
  BY DEF swim_cluster_leave
<1>4. Stays(n, A, T, W)
  BY <1>3 DEF Stays, Running
<1> QED
  BY <1>1, <1>2, <1>4 DEF Transmit

------------------------------------------------------------------------------
(***************************************************************************)
(* Addresses and times are true, as long as nobody is told of a stranger   *)
(* by somebody else's ACK.                                                 *)
(***************************************************************************)
\* An ACK that reaches a process which does not know the node it is about was
\* sent by that node: swim_process_ack takes the address and the time of the
\* sender for those of the node.
AckIsFirstHand ==
  \A n \in Node : \A m \in net :
    (/\ pc[n] \in Running /\ m.to = AddrOf[n]
     /\ m.type = "ACK" /\ m.arg \notin DOMAIN view[n] \cup {n})
    => m.uuid = m.arg

Own == [u \in Node |-> {AddrOf[u]}]
Since == [u \in Node |-> downAge[u]..DeadAfter]
Anybody == [u \in Node |-> Addr]

\* Only a JOIN travels with the header of one process and the address of
\* another, and then it carries the address of the first
TruthfulEvent(m) ==
  /\ GossipKeepsTo(m.gossip, Own, Since)
  /\ m.age \in Since[m.uuid]
  /\ m.type # "JOIN" => m.from = AddrOf[m.uuid]
  /\ m.type = "JOIN" => m.arg = m.uuid /\ JoinAddr(m) = AddrOf[m.arg]

Truthful ==
  /\ \A n \in Node : KeepsTo(view[n], Own, Since, Anybody)
  /\ \A m \in net : TruthfulEvent(m)
  /\ \A u \in Node : pc[u] \notin Ended => downAge[u] = 0

\* What a running process writes into a header is true.
LEMMA InitTruthful ==
  ASSUME ProcessInv, Truthful, NEW n \in Node, pc[n] \notin Ended,
         NEW type, NEW arg, NEW to, NEW g, GossipKeepsTo(g, Own, Since),
         type = "JOIN" => arg = n
  PROVE  TruthfulEvent(swim_event_init(n, type, arg, to, g))
<1> DEFINE x == swim_event_init(n, type, arg, to, g)
<1>1. /\ x.gossip = g /\ x.age = 0 /\ x.uuid = n /\ x.from = AddrOf[n]
      /\ x.type = type /\ x.arg = arg /\ x.joinaddr = NoAddr
  BY Zenon DEF swim_event_init
<1> HIDE DEF x
<1>2. x.age \in Since[x.uuid]
  BY <1>1, TimeAssumption DEF Since, Truthful
<1>3. JoinAddr(x) = AddrOf[n]
  BY <1>1 DEF JoinAddr
<1> QED
  BY <1>1, <1>2, <1>3 DEF TruthfulEvent, x

\* A forwarded JOIN tells the address of the joining node, not of the forwarder.
LEMMA ForwardTruthful ==
  ASSUME IInv, NEW m \in net, TruthfulEvent(m), m.type = "JOIN",
         NEW n \in Node, NEW to
  PROVE  TruthfulEvent(Forward(n, m, to))
<1> DEFINE x == Forward(n, m, to)
<1>1. m \in [type : EventType, uuid : Node, age : Age, incarnation : Nat,
             from : Addr, to : Addr, arg : Node \cup {NilUuid},
             joinaddr : Addr \cup {NoAddr}, gossip : {m.gossip}]
  BY DEF IInv, GoodEvent, IsEvent
<1>2. /\ x.gossip = m.gossip /\ x.age = m.age /\ x.uuid = m.uuid
      /\ x.type = m.type /\ x.arg = m.arg /\ x.joinaddr = JoinAddr(m)
  BY <1>1 DEF Forward
<1>3. JoinAddr(m) \in Addr
  BY DatagramType
<1> HIDE DEF x
<1>4. JoinAddr(x) = JoinAddr(m)
  BY <1>2, <1>3, AddrAssumption DEF JoinAddr
<1> QED
  BY <1>2, <1>4 DEF TruthfulEvent, x

\* A step of one process keeps everything true when what it sends is.
LEMMA StaysTruthful ==
  ASSUME IInv, Truthful, NEW n \in Node, pc[n] \notin Ended,
         Stays(n, Own, Since, Anybody),
         \A x \in net' : x \in net \/ TruthfulEvent(x)
  PROVE  Truthful'
<1>1. Since' = Since
  BY DEF Since, Stays
<1>2. \A p \in Node : KeepsTo(view'[p], Own, Since, Anybody)
  BY DEF Stays, Truthful
<1>3. \A x \in net' : TruthfulEvent(x)
  BY DEF Truthful
<1>4. \A u \in Node : pc'[u] \notin Ended => downAge'[u] = 0
  BY DEF Stays, Truthful
<1>5. \A p \in Node : KeepsTo(view[p], Own, Since, Anybody)'
  BY <1>1, <1>2, Zenon DEF KeepsTo, Own, Anybody
<1>6. \A x \in net' : TruthfulEvent(x)'
  BY <1>1, <1>3, Zenon DEF TruthfulEvent, GossipKeepsTo, Own, JoinAddr
<1> QED
  BY <1>4, <1>5, <1>6 DEF Truthful

\* The datagram received brings only true addresses and times.
LEMMA TruthfulFits ==
  ASSUME IInv, Truthful, AckIsFirstHand, NEW n \in Node, NEW m \in net,
         Receive(n, m)
  PROVE  pc[n] \in Running /\ Fits(n, m, Own, Since, Anybody)
<1>1. pc[n] \in Running /\ m.to = AddrOf[n]
  BY Zenon DEF Receive, swim_process_ping, swim_process_ping_req,
               swim_process_ack, swim_process_join, swim_process_leave,
               NoticeFails, Arrives, Running
<1>2. TruthfulEvent(m)
  BY DEF Truthful
<1>3. m.from \in Addr /\ (m.type \in {"ACK", "JOIN"} => m.arg \in Node)
  BY DatagramType
<1>4. m.type = "PING_REQ" /\ m.arg \in DOMAIN view[n] => m.from \in Anybody[m.arg]
  BY <1>3 DEF Anybody, IInv, ProcessInv, GoodView, IsView
<1>5. m.type = "ACK" /\ m.arg \notin DOMAIN view[n] \cup {n}
        => m.from \in Own[m.arg] /\ m.age \in Since[m.arg]
  <2>1. m.type = "ACK" /\ m.arg \notin DOMAIN view[n] \cup {n} => m.uuid = m.arg
    BY <1>1 DEF AckIsFirstHand
  <2> QED
    BY <1>2, <1>3, <2>1 DEF TruthfulEvent, Own
<1>6. m.type = "JOIN" => JoinAddr(m) \in Own[m.arg] /\ m.age \in Since[m.arg]
  BY <1>2, <1>3 DEF TruthfulEvent, Own
<1> QED
  BY <1>1, <1>2, <1>4, <1>5, <1>6 DEF Fits, TruthfulEvent

\* Time passes: what was last seen before the end of a process stays so.
LEMMA TickTruthful ==
  ASSUME IInv, Truthful, Tick
  PROVE  Truthful'
<1>0. ProcessInv /\ downAge \in [Node -> Age]
  BY DEF IInv, ProcessInv
<1>1. downAge' = [n \in Node |->
                    IF pc[n] \in Ended THEN Older(downAge[n]) ELSE downAge[n]]
  BY DEF Tick
<1>2. ASSUME NEW u \in Node, NEW age \in Since[u]
      PROVE  Older(age) \in Since'[u]
  <2>1. age \in downAge[u]..DeadAfter /\ downAge[u] \in 0..DeadAfter
    BY <1>0, <1>2 DEF Since, Age
  <2>2. Since'[u] = downAge'[u]..DeadAfter
    BY DEF Since
  <2>3. downAge'[u] = downAge[u] \/ downAge'[u] = Older(downAge[u])
    BY <1>1
  <2> QED
    BY <2>1, <2>2, <2>3, TimeAssumption DEF Older
<1>3. ASSUME NEW n \in Node
      PROVE  KeepsTo(view'[n], Own, Since', Anybody)
  <2>1. IsView(view[n]) /\ KeepsTo(view[n], Own, Since, Anybody)
    BY <1>0 DEF ProcessInv, GoodView, Truthful
  <2>2. KeepsTo(Aged(view[n]), Own, Since', Anybody)
    BY <1>2, <2>1, AgedKeeps
  <2> QED
    BY <2>2 DEF Tick
<1>4. ASSUME NEW m \in net
      PROVE  LET x == AgedEvent(m)
             IN /\ GossipKeepsTo(x.gossip, Own, Since')
                /\ x.age \in Since'[x.uuid]
                /\ x.type # "JOIN" => x.from = AddrOf[x.uuid]
                /\ x.type = "JOIN" => /\ x.arg = x.uuid
                                      /\ JoinAddr(x) = AddrOf[x.arg]
  <2> DEFINE x == AgedEvent(m)
  <2>1. /\ m \in [type : EventType, uuid : Node, age : Age, incarnation : Nat,
                  from : Addr, to : Addr, arg : Node \cup {NilUuid},
                  joinaddr : Addr \cup {NoAddr}, gossip : {m.gossip}]
        /\ IsGossip(m.gossip) /\ TruthfulEvent(m)
    BY DEF IInv, GoodEvent, IsEvent, Truthful
  <2>2. /\ x.gossip = Aged(m.gossip) /\ x.age = Older(m.age) /\ x.uuid = m.uuid
        /\ x.type = m.type /\ x.arg = m.arg /\ x.joinaddr = m.joinaddr
        /\ x.from = m.from
    BY <2>1 DEF AgedEvent
  <2> HIDE DEF x
  <2>3. GossipKeepsTo(x.gossip, Own, Since')
    BY <1>2, <2>1, <2>2, AgedKeeps DEF TruthfulEvent
  <2>4. x.age \in Since'[x.uuid]
    BY <1>2, <2>1, <2>2 DEF TruthfulEvent
  <2>5. JoinAddr(x) = JoinAddr(m)
    BY <2>2 DEF JoinAddr
  <2> QED
    BY <2>1, <2>2, <2>3, <2>4, <2>5 DEF TruthfulEvent, x
<1>5. ASSUME NEW x \in net'
      PROVE  TruthfulEvent(x)'
  <2>1. PICK m \in net : x = AgedEvent(m)
    BY DEF Tick
  <2>2. /\ GossipKeepsTo(x.gossip, Own, Since')
        /\ x.age \in Since'[x.uuid]
        /\ x.type # "JOIN" => x.from = AddrOf[x.uuid]
        /\ x.type = "JOIN" => x.arg = x.uuid /\ JoinAddr(x) = AddrOf[x.arg]
    BY <1>4, <2>1
  <2> QED
    BY <2>2, Zenon DEF TruthfulEvent, GossipKeepsTo, Own, JoinAddr
<1>6. \A u \in Node : pc'[u] \notin Ended => downAge'[u] = 0
  BY <1>1 DEF Tick, Truthful
<1>7. \A n \in Node : KeepsTo(view[n], Own, Since, Anybody)'
  BY <1>3 DEF KeepsTo, Own, Anybody
<1> QED
  BY <1>5, <1>6, <1>7 DEF Truthful

\* What a running process sends of its own accord is true.
LEMMA UnaskedTruthful ==
  ASSUME ProcessInv, Truthful, NEW n \in Node, pc[n] \notin Ended,
         NEW x, Unasked(n, x, Own, Since)
  PROVE  TruthfulEvent(x)
  BY InitTruthful DEF Unasked

\* So is every reaction to a datagram that is true.
LEMMA ReactionTruthful ==
  ASSUME IInv, Truthful, NEW n \in Node, pc[n] \notin Ended, NEW m \in net,
         NEW x, NEW W, Reaction(n, m, x, Own, Since, W)
  PROVE  TruthfulEvent(x)
<1>0. ProcessInv
  BY DEF IInv
<1>1. CASE Answer(n, m, x, Own, Since)
  BY <1>0, <1>1, InitTruthful DEF Answer
<1>2. CASE IndirectPing(n, x, Own, Since)
  BY <1>0, <1>2, InitTruthful DEF IndirectPing
<1>3. CASE Relay(n, m, x, Own, Since, W)
  BY <1>0, <1>3, InitTruthful DEF Relay
<1>4. CASE Forwarded(n, m, x, Own)
  BY <1>4, ForwardTruthful DEF Forwarded, Truthful
<1> QED
  BY <1>1, <1>2, <1>3, <1>4 DEF Reaction

\* A process that starts has a place in no view, and announces itself.
LEMMA StartStays ==
  ASSUME ProcessInv, NEW n \in Node, NEW seed \in Seeds[n],
         swim_server_start(n, seed), NEW A, NEW T, NEW W,
         KeepsTo(view[n], A, T, W)
  PROVE  /\ pc[n] = "new" /\ Stays(n, A, T, W)
         /\ \A x \in net' : \/ x \in net
                            \/ \E to \in {seed} \ {NoAddr} :
                                 x = swim_event_init(n, "JOIN", n, to, Nothing)
<1>1. /\ pc[n] = "new" /\ pc' = [pc EXCEPT ![n] = "recv"]
      /\ UNCHANGED <<view, downAge>>
  BY DEF swim_server_start
<1>2. Stays(n, A, T, W)
  BY <1>1 DEF Stays, Running, ProcessInv
<1> QED
  BY <1>1, <1>2 DEF swim_server_start, Transmit, swim_cluster_join

\* Every step keeps addresses and times true.
LEMMA NextTruthful ==
  ASSUME IInv, Truthful, AckIsFirstHand, [Next]_vars
  PROVE  Truthful'
<1>0. ProcessInv /\ "new" \notin Ended /\ Running \cap Ended = {}
  BY DEF IInv, Running, Ended
<1>1. CASE Tick
  BY <1>1, TickTruthful
<1>2. ASSUME NEW n \in Node, Step(n) PROVE Truthful'
  <2>0. KeepsTo(view[n], Own, Since, Anybody)
    BY DEF Truthful
  <2>1. ASSUME NEW seed \in Seeds[n], swim_server_start(n, seed) PROVE Truthful'
    <3>1. /\ pc[n] = "new" /\ Stays(n, Own, Since, Anybody)
          /\ \A x \in net' : \/ x \in net
                             \/ \E to \in {seed} \ {NoAddr} :
                                  x = swim_event_init(n, "JOIN", n, to, Nothing)
      BY <1>0, <2>0, <2>1, StartStays, Zenon
    <3>2. \A to : TruthfulEvent(swim_event_init(n, "JOIN", n, to, Nothing))
      BY <1>0, <3>1, InitTruthful, NothingKeeps
    <3> QED
      BY <1>0, <3>1, <3>2, StaysTruthful
  <2>2. CASE Stop(n)
    <3>1. Stays(n, Own, Since, Anybody)
      BY <1>0, <2>2, TerminateStays DEF Stop, Ended
    <3> QED
      BY <1>0, <2>2, <3>1, StaysTruthful DEF Stop
  <2>3. ASSUME NEW m \in net, Receive(n, m) PROVE Truthful'
    <3>1. pc[n] \in Running /\ Fits(n, m, Own, Since, Anybody)
      BY <2>3, TruthfulFits
    <3>2. /\ Stays(n, Own, Since, Anybody)
          /\ \A x \in net' : x \in net \/ Reaction(n, m, x, Own, Since, Anybody)
      BY <2>0, <2>3, <3>1, ReceiveKeeps
    <3>3. \A x \in net' : x \in net \/ TruthfulEvent(x)
      BY <1>0, <3>1, <3>2, ReactionTruthful
    <3> QED
      BY <1>0, <3>1, <3>2, <3>3, StaysTruthful
  <2>4. CASE swim_cluster_heartbeat(n) \/ swim_cluster_leave(n)
    <3>1. /\ Stays(n, Own, Since, Anybody)
          /\ \A x \in net' : x \in net \/ Unasked(n, x, Own, Since)
      BY <2>0, <2>4, HeartbeatKeeps, LeaveSentKeeps, Zenon
    <3>2. pc[n] \in Running
      BY <2>4 DEF swim_cluster_heartbeat, swim_cluster_leave, Running
    <3>3. \A x \in net' : x \in net \/ TruthfulEvent(x)
      BY <1>0, <3>1, <3>2, UnaskedTruthful
    <3> QED
      BY <1>0, <3>1, <3>2, <3>3, StaysTruthful
  <2> QED
    BY <1>2, <2>1, <2>2, <2>3, <2>4 DEF Step
<1>3. CASE UNCHANGED vars
  BY <1>3, Zenon DEF vars, Truthful, TruthfulEvent, KeepsTo, GossipKeepsTo,
                     Own, Since, Anybody, JoinAddr
<1> QED
  BY <1>1, <1>2, <1>3 DEF Next

\* Initially nothing is said that could be false.
LEMMA InitiallyTruthful == Init => Truthful
<1> SUFFICES ASSUME Init PROVE Truthful
  OBVIOUS
<1>1. \A n \in Node : view[n] = Nothing /\ downAge[n] = 0
  BY DEF Init
<1> QED
  BY <1>1, NothingKeeps DEF Truthful, Init

\* What is true of addresses and times is what the two properties say.
LEMMA TruthfulImplies ==
  ASSUME IInv, Truthful
  PROVE  AddressIsTrue /\ NotSeenAfterEnd
<1>1. /\ \A n \in Node : DOMAIN view[n] \subseteq Node
      /\ \A m \in net : DOMAIN m.gossip \subseteq Node
      /\ downAge \in [Node -> Age]
  BY DEF IInv, ProcessInv, GoodView, IsView, GoodEvent, GoodGossip, IsGossip
<1>2. AddressIsTrue
  BY <1>1, Zenon DEF AddressIsTrue, Truthful, TruthfulEvent, KeepsTo,
                     GossipKeepsTo, Own
<1>3. ASSUME NEW u \in Node, NEW age, age \in Since[u]
      PROVE  age >= downAge[u]
  BY <1>1, <1>3 DEF Since, Age
<1>4. \A u \in Node : \A n \in Node :
        u \in DOMAIN view[n] => view[n][u].age \in Since[u]
  BY DEF Truthful, KeepsTo
<1>5. \A u \in Node : \A m \in net :
        /\ m.uuid = u => m.age \in Since[u]
        /\ u \in DOMAIN m.gossip => m.gossip[u].age \in Since[u]
  BY DEF Truthful, TruthfulEvent, GossipKeepsTo
<1>6. NotSeenAfterEnd
  BY <1>3, <1>4, <1>5 DEF NotSeenAfterEnd
<1> QED
  BY <1>2, <1>6

\* The one way to a false address: among any number of processes, whatever is
\* lost, duplicated or reordered and whichever addresses are used again after a
\* restart, every view and all gossip give each member its own address as long
\* as every ACK about a stranger comes from the stranger (swim_process_join,
\* swim_process_ack, swim_state_merge).
THEOREM AddressesTrue == Spec /\ []AckIsFirstHand => []AddressIsTrue
<1>1. IInv /\ Truthful /\ AckIsFirstHand /\ [Next]_vars => Truthful'
  BY NextTruthful
<1>2. IInv /\ Truthful => AddressIsTrue
  BY TruthfulImplies
<1> QED
  BY <1>1, <1>2, InitiallyTruthful, InvariantHolds, PTL DEF Spec

\* It is also the one way to a fresh record of a process that has ended.
THEOREM EndedNotSeen == Spec /\ []AckIsFirstHand => []NotSeenAfterEnd
<1>1. IInv /\ Truthful /\ AckIsFirstHand /\ [Next]_vars => Truthful'
  BY NextTruthful
<1>2. IInv /\ Truthful => NotSeenAfterEnd
  BY TruthfulImplies
<1> QED
  BY <1>1, <1>2, InitiallyTruthful, InvariantHolds, PTL DEF Spec

------------------------------------------------------------------------------
(***************************************************************************)
(* Three processes with addresses of their own.  An ACK is relayed to the  *)
(* witness of the entry swim_state_add returns, which may be the entry of  *)
(* another node than the one the ACK is about.  Two invariants are needed: *)
(* a witness knows the node it has asked about, and is neither that node   *)
(* nor the process it has asked; so that among three processes the witness *)
(* of the wrong entry is the very node the ACK is about.                   *)
(***************************************************************************)
Knows(p, u) == pc[p] \in Ended \/ u \in DOMAIN view[p]

\* The addresses of those who may have asked n to ping u
Askers(n) ==
  [u \in Node |-> {AddrOf[p] : p \in {q \in Node : q \notin {n, u} /\ Knows(q, u)}}]

RelayedEvent(m) ==
  /\ m.type = "PING_REQ" =>
       /\ m.arg \in Node \ {m.uuid} /\ Knows(m.uuid, m.arg)
       /\ m.to # AddrOf[m.uuid]
  /\ m.type = "ACK" /\ m.arg # m.uuid =>
       \E p \in Node : m.to = AddrOf[p] /\ (p = m.arg \/ Knows(p, m.arg))

Relayed ==
  /\ \A n \in Node : KeepsTo(view[n], Own, Since, Askers(n))
  /\ \A m \in net : RelayedEvent(m)

OwnAddresses == \A p, q \in Node : AddrOf[p] = AddrOf[q] => p = q

\* A new element adds one to the size of a set.
LEMMA OneMore ==
  ASSUME NEW S, IsFiniteSet(S), NEW x, x \notin S
  PROVE  IsFiniteSet(S \cup {x}) /\ Cardinality(S \cup {x}) = Cardinality(S) + 1
  BY FS_AddElement

\* Of four nodes of a set of three two are the same.
LEMMA ThreeNodes ==
  ASSUME Cardinality(Node) <= 3,
         NEW a \in Node, NEW b \in Node, NEW c \in Node, NEW d \in Node,
         a # b, a # c, b # c, d \notin {a, b}
  PROVE  d = c
<1> SUFFICES ASSUME d # c PROVE FALSE
  OBVIOUS
<1>1. IsFiniteSet({a}) /\ Cardinality({a}) = 1
  BY FS_Singleton
<1>2. IsFiniteSet({a, b}) /\ Cardinality({a, b}) = 2
  <2>1. {a, b} = {a} \cup {b} /\ b \notin {a}
    OBVIOUS
  <2>2. /\ IsFiniteSet({a} \cup {b})
        /\ Cardinality({a} \cup {b}) = Cardinality({a}) + 1
    BY <1>1, <2>1, OneMore, Zenon
  <2> QED
    BY <1>1, <2>1, <2>2
<1>3. IsFiniteSet({a, b, c}) /\ Cardinality({a, b, c}) = 3
  <2>1. {a, b, c} = {a, b} \cup {c} /\ c \notin {a, b}
    OBVIOUS
  <2>2. /\ IsFiniteSet({a, b} \cup {c})
        /\ Cardinality({a, b} \cup {c}) = Cardinality({a, b}) + 1
    BY <1>2, <2>1, OneMore, Zenon
  <2> QED
    BY <1>2, <2>1, <2>2
<1>4. {a, b, c} \in SUBSET Node /\ d \in Node \ {a, b, c}
  OBVIOUS
<1>5. Cardinality(Node) \in Nat /\ Cardinality({a, b, c}) < Cardinality(Node)
  BY <1>4, FewerElements, NodeAssumption, Zenon
<1> QED
  BY <1>3, <1>5

\* Who knows a node goes on knowing it, or ends.
LEMMA KnowsStable ==
  ASSUME NEW n \in Node, pc[n] \notin Ended, NEW A, NEW T, NEW W,
         Stays(n, A, T, W), Grows
  PROVE  \A p \in Node, u \in Node : Knows(p, u) => Knows(p, u)'
<1> SUFFICES ASSUME NEW p \in Node, NEW u \in Node, Knows(p, u)
             PROVE  pc'[p] \in Ended \/ u \in DOMAIN view'[p]
  BY DEF Knows
<1>1. CASE p = n
  BY <1>1 DEF Stays, Grows, Knows
<1>2. CASE p # n
  BY <1>2 DEF Stays, Knows
<1> QED
  BY <1>1, <1>2

\* What was relayed or recorded stays right when those who know go on knowing.
LEMMA RelayedStable ==
  ASSUME \A p \in Node, u \in Node : Knows(p, u) => Knows(p, u)'
  PROVE  /\ \A n \in Node, u \in Node : Askers(n)[u] \subseteq Askers(n)'[u]
         /\ \A m : (/\ m.uuid \in Node /\ (m.type = "ACK" => m.arg \in Node)
                    /\ RelayedEvent(m))
                   => RelayedEvent(m)'
<1>1. ASSUME NEW n \in Node, NEW u \in Node
      PROVE  Askers(n)[u] \subseteq Askers(n)'[u]
  <2>1. /\ Askers(n)[u] = {AddrOf[p] : p \in {q \in Node : q \notin {n, u} /\ Knows(q, u)}}
        /\ Askers(n)'[u] = {AddrOf[p] : p \in {q \in Node : q \notin {n, u} /\ Knows(q, u)'}}
    BY DEF Askers
  <2> QED
    BY <2>1
<1>2. ASSUME NEW m, m.uuid \in Node, m.type = "ACK" => m.arg \in Node,
             RelayedEvent(m)
      PROVE  RelayedEvent(m)'
  <2> DEFINE Later(p, u) == pc'[p] \in Ended \/ u \in DOMAIN view'[p]
  <2>1. \A p \in Node, u \in Node : Knows(p, u) => Later(p, u)
    BY DEF Knows
  <2> HIDE DEF Later
  <2>2. m.type = "PING_REQ" =>
          /\ m.arg \in Node \ {m.uuid} /\ Later(m.uuid, m.arg)
          /\ m.to # AddrOf[m.uuid]
    BY <1>2, <2>1 DEF RelayedEvent
  <2>3. m.type = "ACK" /\ m.arg # m.uuid =>
          \E p \in Node : m.to = AddrOf[p] /\ (p = m.arg \/ Later(p, m.arg))
    BY <1>2, <2>1 DEF RelayedEvent
  <2> QED
    BY <2>2, <2>3 DEF RelayedEvent, Knows, Later
<1> QED
  BY <1>1, <1>2

\* A step of one process keeps to it when what it sends does.
LEMMA StaysRelayed ==
  ASSUME IInv, IInv', Relayed, NEW n \in Node, pc[n] \notin Ended, Grows,
         Stays(n, Own, Since, Askers(n)),
         \A x \in net' : x \in net \/ RelayedEvent(x)
  PROVE  Relayed'
<1>1. Since' = Since
  BY DEF Since, Stays
<1>2. \A p \in Node, u \in Node : Knows(p, u) => Knows(p, u)'
  BY KnowsStable
<1>3. ASSUME NEW p \in Node
      PROVE  KeepsTo(view[p], Own, Since, Askers(p))'
  <2>1. KeepsTo(view'[p], Own, Since, Askers(p))
    BY DEF Stays, Relayed
  <2>2. DOMAIN view'[p] \subseteq Node
    BY Zenon DEF IInv, ProcessInv, GoodView, IsView
  <2>3. \A u \in DOMAIN view'[p] : Askers(p)[u] \subseteq Askers(p)'[u]
    BY <1>2, <2>2, RelayedStable, Zenon
  <2>4. KeepsTo(view'[p], Own, Since, Askers(p)')
    BY <2>1, <2>3, KeepsMonotonic, Zenon
  <2> QED
    BY <1>1, <2>4 DEF KeepsTo, Own
<1>4. ASSUME NEW x \in net'
      PROVE  RelayedEvent(x)'
  <2>1. RelayedEvent(x)
    BY Zenon DEF Relayed
  <2>2. x.uuid \in Node /\ (x.type = "ACK" => x.arg \in Node)
    BY DEF IInv, GoodEvent, IsEvent
  <2> QED
    BY <1>2, <2>1, <2>2, RelayedStable, Zenon
<1> QED
  BY <1>3, <1>4 DEF Relayed

\* A PING_REQ makes its sender the witness: somebody else, who knows the node.
LEMMA RelayedFits ==
  ASSUME IInv, Truthful, AckIsFirstHand, Relayed, NEW n \in Node, NEW m \in net,
         Receive(n, m)
  PROVE  pc[n] \in Running /\ Fits(n, m, Own, Since, Askers(n))
<1>1. pc[n] \in Running /\ Fits(n, m, Own, Since, Anybody)
  BY TruthfulFits
<1>2. m.to = AddrOf[n]
  BY Zenon DEF Receive, swim_process_ping, swim_process_ping_req,
               swim_process_ack, swim_process_join, swim_process_leave,
               NoticeFails, Arrives
<1>3. m.type = "PING_REQ" => m.from \in Askers(n)[m.arg]
  <2> SUFFICES ASSUME m.type = "PING_REQ" PROVE m.from \in Askers(n)[m.arg]
    OBVIOUS
  <2>1. /\ m.arg \in Node \ {m.uuid} /\ Knows(m.uuid, m.arg)
        /\ m.to # AddrOf[m.uuid]
    BY DEF Relayed, RelayedEvent
  <2>2. m.from = AddrOf[m.uuid] /\ m.uuid \in Node
    BY DatagramType, Zenon DEF Truthful, TruthfulEvent
  <2> QED
    BY <1>2, <2>1, <2>2 DEF Askers
<1> QED
  BY <1>1, <1>3, Zenon DEF Fits

\* Every reaction keeps to it: a relayed ACK goes to somebody who knows the
\* node or, among three processes, to the node itself.
LEMMA ReactionRelayed ==
  ASSUME Cardinality(Node) <= 3, IInv, NEW n \in Node, NEW m \in net,
         NEW x, Reaction(n, m, x, Own, Since, Askers(n))
  PROVE  RelayedEvent(x)
<1>1. CASE Answer(n, m, x, Own, Since) \/ IndirectPing(n, x, Own, Since)
  <2>1. PICK g, to : \/ x = swim_event_init(n, "ACK", n, m.from, g)
                     \/ x = swim_event_init(n, "PING", NilUuid, to, g)
    BY <1>1 DEF Answer, IndirectPing
  <2>2. x.type = "PING" \/ (x.type = "ACK" /\ x.arg = x.uuid)
    BY <2>1 DEF swim_event_init
  <2> QED
    BY <2>2 DEF RelayedEvent
<1>2. CASE Relay(n, m, x, Own, Since, Askers(n))
  <2>1. PICK u \in DOMAIN view[n] : \E to \in Askers(n)[u] : \E g :
          /\ m.type = "ACK" /\ m.arg # n /\ (m.arg \in DOMAIN view[n] => u = m.arg)
          /\ x = swim_event_init(n, "ACK", m.arg, to, g)
    BY <1>2, Zenon DEF Relay
  <2>2. u \in Node /\ u # n /\ m.type = "ACK" /\ m.arg \in Node
    BY <2>1, DatagramType, Zenon DEF IInv, ProcessInv, GoodView, IsView
  <2>3. PICK p \in Node : \E g :
          /\ p \notin {n, u} /\ Knows(p, u)
          /\ x = swim_event_init(n, "ACK", m.arg, AddrOf[p], g)
    BY <2>1, <2>2, Zenon DEF Askers
  <2>4. p = m.arg \/ Knows(p, m.arg)
    <3>1. CASE u = m.arg
      BY <2>3, <3>1
    <3>2. CASE u # m.arg
      BY <2>1, <2>2, <2>3, <3>2, ThreeNodes, Zenon
    <3> QED
      BY <3>1, <3>2
  <2>5. x.type = "ACK" /\ x.arg = m.arg /\ x.to = AddrOf[p]
    <3>1. PICK g : x = swim_event_init(n, "ACK", m.arg, AddrOf[p], g)
      BY <2>3, Zenon
    <3> QED
      BY <3>1 DEF swim_event_init
  <2> QED
    BY <2>4, <2>5, Zenon DEF RelayedEvent
<1>3. CASE Forwarded(n, m, x, Own)
  <2>1. m \in [type : EventType, uuid : Node, age : Age, incarnation : Nat,
               from : Addr, to : Addr, arg : Node \cup {NilUuid},
               joinaddr : Addr \cup {NoAddr}, gossip : {m.gossip}]
    BY DEF IInv, GoodEvent, IsEvent
  <2>2. x.type = "JOIN"
    BY <1>3, <2>1 DEF Forwarded, Forward
  <2> QED
    BY <2>2 DEF RelayedEvent
<1> QED
  BY <1>1, <1>2, <1>3 DEF Reaction

\* A process asks others about members, and each at the other's own address.
LEMMA UnaskedRelayed ==
  ASSUME OwnAddresses, IInv, NEW n \in Node, NEW x, Unasked(n, x, Own, Since)
  PROVE  RelayedEvent(x)
<1>0. DOMAIN view[n] \subseteq Node /\ n \notin DOMAIN view[n]
  BY Zenon DEF IInv, ProcessInv, GoodView, IsView
<1>1. PICK u \in DOMAIN view[n] : \E g : \E to \in Own[u] :
        \/ x = swim_event_init(n, "PING", NilUuid, to, g)
        \/ \E t \in DOMAIN view[n] : x = swim_event_init(n, "PING_REQ", t, to, g)
        \/ x = swim_event_init(n, "LEAVE", NilUuid, to, g)
  BY Zenon DEF Unasked
<1>2. AddrOf[u] # AddrOf[n] /\ Own[u] = {AddrOf[u]}
  BY <1>0, <1>1 DEF Own, OwnAddresses
<1>3. PICK g :
        \/ x = swim_event_init(n, "PING", NilUuid, AddrOf[u], g)
        \/ \E t \in DOMAIN view[n] :
             x = swim_event_init(n, "PING_REQ", t, AddrOf[u], g)
        \/ x = swim_event_init(n, "LEAVE", NilUuid, AddrOf[u], g)
  BY <1>1, <1>2
<1>4. CASE x = swim_event_init(n, "PING", NilUuid, AddrOf[u], g)
  <2>1. x.type = "PING"
    BY <1>4 DEF swim_event_init
  <2> QED
    BY <2>1 DEF RelayedEvent
<1>5. CASE x = swim_event_init(n, "LEAVE", NilUuid, AddrOf[u], g)
  <2>1. x.type = "LEAVE"
    BY <1>5 DEF swim_event_init
  <2> QED
    BY <2>1 DEF RelayedEvent
<1>6. ASSUME NEW t \in DOMAIN view[n],
             x = swim_event_init(n, "PING_REQ", t, AddrOf[u], g)
      PROVE  RelayedEvent(x)
  <2>1. x.type = "PING_REQ" /\ x.uuid = n /\ x.arg = t /\ x.to = AddrOf[u]
    BY <1>6 DEF swim_event_init
  <2>2. t \in Node \ {n} /\ Knows(n, t)
    BY <1>0, <1>6 DEF Knows
  <2> QED
    BY <1>2, <2>1, <2>2 DEF RelayedEvent
<1> QED
  BY <1>3, <1>4, <1>5, <1>6, Zenon

\* Time passes: nobody forgets.
LEMMA TickRelayed ==
  ASSUME IInv, Relayed, Tick, Truthful, Truthful'
  PROVE  Relayed'
<1>0. ProcessInv
  BY DEF IInv
<1>1. \A n \in Node : /\ DOMAIN view'[n] = DOMAIN view[n] /\ pc'[n] = pc[n]
                      /\ DOMAIN view[n] \subseteq Node
  BY <1>0 DEF Tick, Aged, ProcessInv, GoodView, IsView
<1>2. \A p \in Node, u \in Node : Knows(p, u) => Knows(p, u)'
  BY <1>1 DEF Knows
<1>3. ASSUME NEW n \in Node
      PROVE  KeepsTo(view[n], Own, Since, Askers(n))'
  <2>1. \A u \in DOMAIN view[n] : view'[n][u].witness = view[n][u].witness
    <3>1. view'[n] = Aged(view[n]) /\ IsView(view[n])
      BY <1>0, Zenon DEF Tick, ProcessInv, GoodView
    <3> QED
      BY <3>1 DEF Aged, IsView, Entry
  <2>2. \A u \in DOMAIN view'[n] :
          view'[n][u].witness \in Askers(n)'[u] \cup {NoAddr}
    <3>1. \A u \in DOMAIN view[n] :
            view[n][u].witness \in Askers(n)[u] \cup {NoAddr}
      BY DEF Relayed, KeepsTo
    <3>2. \A u \in DOMAIN view[n] : Askers(n)[u] \subseteq Askers(n)'[u]
      BY <1>1, <1>2, RelayedStable
    <3> QED
      BY <1>1, <2>1, <3>1, <3>2, Zenon
  <2>3. KeepsTo(view[n], Own, Since, Anybody)'
    BY DEF Truthful
  <2> QED
    BY <2>2, <2>3, Zenon DEF KeepsTo
<1>4. ASSUME NEW x \in net' PROVE RelayedEvent(x)'
  <2>1. PICK m \in net : x = AgedEvent(m)
    BY DEF Tick
  <2>2. /\ m \in [type : EventType, uuid : Node, age : Age, incarnation : Nat,
                  from : Addr, to : Addr, arg : Node \cup {NilUuid},
                  joinaddr : Addr \cup {NoAddr}, gossip : {m.gossip}]
        /\ m.type = "ACK" => m.arg \in Node
    BY DEF IInv, GoodEvent, IsEvent
  <2>3. /\ x.type = m.type /\ x.uuid = m.uuid /\ x.arg = m.arg /\ x.to = m.to
    BY <2>1, <2>2 DEF AgedEvent
  <2>4. RelayedEvent(x)
    BY <2>3 DEF Relayed, RelayedEvent
  <2> QED
    BY <1>2, <2>2, <2>3, <2>4, RelayedStable
<1> QED
  BY <1>3, <1>4 DEF Relayed

\* With addresses of their own, only one process hears an ACK: it knows the
\* node the ACK is about, or is that node, or hears it from the node itself.
LEMMA RelayedFirstHand ==
  ASSUME OwnAddresses, Relayed
  PROVE  AckIsFirstHand
<1> SUFFICES ASSUME NEW n \in Node, NEW m \in net, pc[n] \in Running,
                    m.to = AddrOf[n], m.type = "ACK",
                    m.arg \notin DOMAIN view[n] \cup {n}, m.uuid # m.arg
             PROVE  FALSE
  BY DEF AckIsFirstHand
<1>1. PICK p \in Node : m.to = AddrOf[p] /\ (p = m.arg \/ Knows(p, m.arg))
  BY DEF Relayed, RelayedEvent
<1>2. p = n
  BY <1>1, Zenon DEF OwnAddresses
<1> QED
  BY <1>1, <1>2 DEF Knows, Running, Ended

\* Every step keeps witnesses and relayed ACKs right.
LEMMA NextRelayed ==
  ASSUME Cardinality(Node) <= 3, OwnAddresses, IInv, IInv', Truthful, Truthful',
         Relayed, [Next]_vars
  PROVE  Relayed'
<1>0. ProcessInv /\ "new" \notin Ended /\ Running \cap Ended = {}
  BY DEF IInv, Running, Ended
<1>1. CASE Tick
  BY <1>1, TickRelayed
<1>2. ASSUME NEW n \in Node, Step(n) PROVE Relayed'
  <2>0. KeepsTo(view[n], Own, Since, Askers(n)) /\ Grows
    BY <1>2, NextStep DEF Relayed, Next, GoodStep
  <2>1. ASSUME NEW seed \in Seeds[n], swim_server_start(n, seed) PROVE Relayed'
    <3>1. /\ pc[n] = "new" /\ Stays(n, Own, Since, Askers(n))
          /\ \A x \in net' : \/ x \in net
                             \/ \E to \in {seed} \ {NoAddr} :
                                  x = swim_event_init(n, "JOIN", n, to, Nothing)
      BY <1>0, <2>0, <2>1, StartStays, Zenon
    <3>2. \A to : RelayedEvent(swim_event_init(n, "JOIN", n, to, Nothing))
      BY Zenon DEF RelayedEvent, swim_event_init
    <3> QED
      BY <1>0, <2>0, <3>1, <3>2, StaysRelayed, Zenon
  <2>2. CASE Stop(n)
    <3>1. Stays(n, Own, Since, Askers(n))
      BY <1>0, <2>2, TerminateStays DEF Stop, Ended
    <3> QED
      BY <1>0, <2>0, <2>2, <3>1, StaysRelayed, Zenon DEF Stop
  <2>3. ASSUME NEW m \in net, Receive(n, m) PROVE Relayed'
    <3>1. pc[n] \in Running /\ Fits(n, m, Own, Since, Askers(n))
      BY <2>3, RelayedFits, RelayedFirstHand
    <3>2. /\ Stays(n, Own, Since, Askers(n))
          /\ \A x \in net' : x \in net \/ Reaction(n, m, x, Own, Since, Askers(n))
      BY <2>0, <2>3, <3>1, ReceiveKeeps, Zenon
    <3>3. \A x \in net' : x \in net \/ RelayedEvent(x)
      BY <3>2, ReactionRelayed
    <3> QED
      BY <1>0, <2>0, <3>1, <3>2, <3>3, StaysRelayed, Zenon
  <2>4. CASE swim_cluster_heartbeat(n) \/ swim_cluster_leave(n)
    <3>1. /\ Stays(n, Own, Since, Askers(n))
          /\ \A x \in net' : x \in net \/ Unasked(n, x, Own, Since)
      BY <2>0, <2>4, HeartbeatKeeps, LeaveSentKeeps, Zenon
    <3>2. pc[n] \in Running
      BY <2>4 DEF swim_cluster_heartbeat, swim_cluster_leave, Running
    <3>3. \A x \in net' : x \in net \/ RelayedEvent(x)
      BY <3>1, UnaskedRelayed
    <3> QED
      BY <1>0, <2>0, <3>1, <3>2, <3>3, StaysRelayed
  <2> QED
    BY <1>2, <2>1, <2>2, <2>3, <2>4 DEF Step
<1>3. CASE UNCHANGED vars
  <2>1. /\ Since' = Since /\ \A n \in Node : Askers(n)' = Askers(n)
        /\ UNCHANGED <<pc, view, net>>
    BY <1>3 DEF vars, Since, Askers, Knows
  <2>2. \A n \in Node : KeepsTo(view[n], Own, Since, Askers(n))'
    BY <2>1 DEF Relayed, KeepsTo, Own
  <2>3. \A m \in net' : RelayedEvent(m)'
    BY <2>1 DEF Relayed, RelayedEvent, Knows
  <2> QED
    BY <2>2, <2>3 DEF Relayed
<1> QED
  BY <1>1, <1>2, <1>3 DEF Next

\* Initially nobody has a witness.
LEMMA InitiallyRelayed == Init => Relayed
<1> SUFFICES ASSUME Init PROVE Relayed
  OBVIOUS
<1>1. \A n \in Node : view[n] = Nothing
  BY DEF Init
<1> QED
  BY <1>1, NothingKeeps DEF Relayed, Init

\* Among at most three processes, each with an address of its own, every ACK
\* about a stranger comes from the stranger, although swim_process_ack may
\* relay it to the witness of another node's suspicion.
THEOREM ThreeFirstHand ==
  ASSUME Cardinality(Node) <= 3, OwnAddresses
  PROVE  Spec => []AckIsFirstHand
<1> DEFINE Inv == Truthful /\ Relayed
<1>1. Init => Inv
  BY InitiallyTruthful, InitiallyRelayed
<1>2. IInv /\ IInv' /\ Inv /\ [Next]_vars => Inv'
  BY NextTruthful, NextRelayed, RelayedFirstHand
<1>3. Inv => AckIsFirstHand
  BY RelayedFirstHand
<1> HIDE DEF Inv
<1> QED
  BY <1>1, <1>2, <1>3, InvariantHolds, PTL DEF Spec

\* So three processes agree with the truth about addresses, for every bound,
\* every interleaving and every loss, duplication and delay of datagrams.
THEOREM ThreeAddressesTrue ==
  ASSUME Cardinality(Node) <= 3, OwnAddresses
  PROVE  Spec => []AddressIsTrue
  BY ThreeFirstHand, AddressesTrue, PTL

\* And none of the three ever has a record of an ended process that is fresher
\* than its end.
THEOREM ThreeEndedNotSeen ==
  ASSUME Cardinality(Node) <= 3, OwnAddresses
  PROVE  Spec => []NotSeenAfterEnd
  BY ThreeFirstHand, EndedNotSeen, PTL

------------------------------------------------------------------------------
(***************************************************************************)
(* A process nobody has heard of.  What is said about n is said in         *)
(* addresses and UUIDs; a process that has neither those of n in its view  *)
(* nor receives them has nothing to send to n or to tell about it.  The    *)
(* socket of a running process belongs to it alone, so nobody else sends   *)
(* from the address of n.                                                  *)
(***************************************************************************)
OneBinds ==
  \A p, q \in Node :
    pc[p] \in Running /\ pc[q] \in Running /\ AddrOf[p] = AddrOf[q] => p = q

Elsewhere(n) == [u \in Node |-> IF u = n THEN {} ELSE Addr \ {AddrOf[n]}]
AnyAge == [u \in Node |-> Age]
OtherWitness(n) == [u \in Node |-> Addr \ {AddrOf[n]}]

ApartEvent(m, n) ==
  /\ AddrOf[n] \notin {m.from, m.to, m.joinaddr} /\ n \notin {m.uuid, m.arg}
  /\ \A u \in DOMAIN m.gossip : u # n /\ m.gossip[u].addr # AddrOf[n]

\* bind fails on an address that is in use, and a process keeps its socket.
LEMMA NextOneBinds ==
  ASSUME ProcessInv, OneBinds, [Next]_vars
  PROVE  OneBinds'
<1>1. \/ \A p \in Node : pc'[p] \in Running => pc[p] \in Running
      \/ \E n \in Node :
           /\ \A p \in Node : AddrOf[p] = AddrOf[n] => pc[p] \notin Running
           /\ \A p \in Node \ {n} : pc'[p] = pc[p]
  <2>1. CASE Tick \/ UNCHANGED vars
    BY <2>1 DEF Tick, vars
  <2>2. ASSUME NEW n \in Node, Step(n)
        PROVE  \/ \A p \in Node : pc'[p] \in Running => pc[p] \in Running
               \/ /\ \A p \in Node : AddrOf[p] = AddrOf[n] => pc[p] \notin Running
                  /\ \A p \in Node \ {n} : pc'[p] = pc[p]
    <3>1. CASE \E seed \in Seeds[n] : swim_server_start(n, seed)
      BY <3>1, Zenon DEF swim_server_start, ProcessInv
    <3>2. CASE /\ pc[n] \in Running
               /\ \A p \in Node \ {n} : pc'[p] = pc[p]
      BY <3>2
    <3>3. CASE Stop(n) \/ swim_cluster_heartbeat(n) \/ swim_cluster_leave(n)
      <4>1. pc[n] \in Running /\ \A p \in Node \ {n} : pc'[p] = pc[p]
        BY <3>3 DEF Stop, Terminate, swim_cluster_heartbeat,
                    swim_cluster_leave, Running, ProcessInv
      <4> QED
        BY <3>2, <4>1
    <3>4. CASE \E m \in net : Receive(n, m)
      <4>1. pc[n] = "recv"
        BY <3>4, Zenon DEF Receive, swim_process_ping, swim_process_ping_req,
                    swim_process_ack, swim_process_join, swim_process_leave,
                    NoticeFails, Arrives
      <4>2. \/ \E how : Terminate(n, how)
            \/ \E v : Continue(n, v)
        BY <3>4, Zenon DEF Receive, swim_process_ping, swim_process_ping_req,
                    swim_process_ack, swim_process_join, swim_process_leave,
                    NoticeFails, Handled, swim_process_gossip
      <4>3. \A p \in Node \ {n} : pc'[p] = pc[p]
        BY <4>2, Zenon DEF Terminate, Continue, ProcessInv
      <4> QED
        BY <3>2, <4>1, <4>3 DEF Running
    <3> QED
      BY <2>2, <3>1, <3>3, <3>4 DEF Step
  <2> QED
    BY <2>1, <2>2 DEF Next
<1>2. CASE \A p \in Node : pc'[p] \in Running => pc[p] \in Running
  BY <1>2 DEF OneBinds
<1>3. ASSUME NEW n \in Node,
             \A p \in Node : AddrOf[p] = AddrOf[n] => pc[p] \notin Running,
             \A p \in Node \ {n} : pc'[p] = pc[p]
      PROVE  OneBinds'
  BY <1>3 DEF OneBinds
<1> QED
  BY <1>1, <1>2, <1>3

\* The views and the datagrams of a state in which n is isolated keep away
\* from n.
LEMMA IsolatedKeeps ==
  ASSUME IInv, NEW n \in Node, Isolated(n)
  PROVE  /\ \A p \in Node : KeepsTo(view[p], Elsewhere(n), AnyAge, OtherWitness(n))
         /\ \A m \in net : ApartEvent(m, n)
         /\ \A m \in net, p \in Node :
              Fits(p, m, Elsewhere(n), AnyAge, OtherWitness(n))
<1>1. ASSUME NEW p \in Node
      PROVE  KeepsTo(view[p], Elsewhere(n), AnyAge, OtherWitness(n))
  <2>1. \A u \in DOMAIN view[p] :
          /\ u \in Node /\ view[p][u].addr \in Addr /\ view[p][u].age \in Age
          /\ view[p][u].witness \in Addr \cup {NoAddr}
    BY Zenon DEF IInv, ProcessInv, GoodView, IsView, Entry
  <2> QED
    BY <2>1, Zenon DEF Isolated, KeepsTo, Elsewhere, AnyAge, OtherWitness
<1>2. \A m \in net : ApartEvent(m, n)
  BY DEF Isolated, ApartEvent
<1>3. ASSUME NEW m \in net, NEW p \in Node
      PROVE  Fits(p, m, Elsewhere(n), AnyAge, OtherWitness(n))
  <2>1. /\ m.from \in Addr \ {AddrOf[n]} /\ JoinAddr(m) \in Addr \ {AddrOf[n]}
        /\ m.age \in Age /\ m.uuid \in Node
        /\ m.type \in {"ACK", "JOIN"} => m.arg \in Node \ {n}
    BY <1>2, DatagramType, Zenon DEF ApartEvent, JoinAddr
  <2>2. GossipKeepsTo(m.gossip, Elsewhere(n), AnyAge)
    <3>1. \A u \in DOMAIN m.gossip :
            u \in Node /\ m.gossip[u].addr \in Addr /\ m.gossip[u].age \in Age
      BY DatagramType DEF GoodGossip, IsGossip, Info
    <3> QED
      BY <1>2, <3>1 DEF ApartEvent, GossipKeepsTo, Elsewhere, AnyAge
  <2>3. DOMAIN view[p] \subseteq Node
    BY DEF IInv, ProcessInv, GoodView, IsView
  <2> QED
    BY <2>1, <2>2, <2>3, Zenon DEF Fits, Elsewhere, AnyAge, OtherWitness
<1> QED
  BY <1>1, <1>2, <1>3

\* An event another process sends elsewhere, about somebody else, is apart
\* from n.
LEMMA InitApart ==
  ASSUME NEW n \in Node, NEW p \in Node, p # n, AddrOf[p] # AddrOf[n],
         NEW type, NEW arg, arg # n, NEW to, to # AddrOf[n],
         NEW g, DOMAIN g \subseteq Node, GossipKeepsTo(g, Elsewhere(n), AnyAge)
  PROVE  ApartEvent(swim_event_init(p, type, arg, to, g), n)
<1> DEFINE x == swim_event_init(p, type, arg, to, g)
<1>1. /\ x.gossip = g /\ x.uuid = p /\ x.from = AddrOf[p] /\ x.to = to
      /\ x.arg = arg /\ x.joinaddr = NoAddr
  BY Zenon DEF swim_event_init
<1>2. NoAddr # AddrOf[n]
  BY AddrAssumption, DeploymentAssumption, Zenon
<1>3. \A u \in DOMAIN g : u # n /\ g[u].addr # AddrOf[n]
  BY Zenon DEF GossipKeepsTo, Elsewhere
<1> HIDE DEF x
<1> QED
  BY <1>1, <1>2, <1>3, Zenon DEF ApartEvent, x

\* A step of another process leaves n isolated when its datagrams are apart.
LEMMA StaysIsolated ==
  ASSUME IInv, NEW n \in Node, Isolated(n), NEW p \in Node, p # n, IInv',
         Stays(p, Elsewhere(n), AnyAge, OtherWitness(n)),
         \A x \in net' : x \in net \/ ApartEvent(x, n)
  PROVE  Isolated(n)'
<1>1. pc'[n] = pc[n] /\ view'[n] = view[n]
  BY Zenon DEF Stays
<1>2. \A q \in Node : KeepsTo(view'[q], Elsewhere(n), AnyAge, OtherWitness(n))
  BY IsolatedKeeps, Zenon DEF Stays
<1>3. ASSUME NEW q \in Node, NEW u \in DOMAIN view'[q]
      PROVE  u # n /\ AddrOf[n] \notin {view'[q][u].addr, view'[q][u].witness}
  <2>1. u \in Node
    BY <1>3, Zenon DEF IInv, ProcessInv, GoodView, IsView
  <2>2. NoAddr # AddrOf[n]
    BY AddrAssumption, DeploymentAssumption
  <2> QED
    BY <1>2, <2>1, <2>2, Zenon DEF KeepsTo, Elsewhere, OtherWitness
<1>4. \A x \in net' : ApartEvent(x, n)
  BY IsolatedKeeps
<1> QED
  BY <1>1, <1>3, <1>4, Zenon DEF Isolated, ApartEvent

\* Gossip of a good event names processes only.
LEMMA GoodDomain ==
  ASSUME NEW x, IInv', x \in net'
  PROVE  DOMAIN x.gossip \subseteq Node
  BY DEF IInv, GoodEvent, IsEvent, IsGossip

\* While n is isolated, whatever another process sends is apart from n.
LEMMA SentApart ==
  ASSUME IInv, IInv', NEW n \in Node, Isolated(n), NEW p \in Node, p # n,
         AddrOf[p] # AddrOf[n], NEW x \in net',
         \/ Unasked(p, x, Elsewhere(n), AnyAge)
         \/ \E m \in net : Reaction(p, m, x, Elsewhere(n), AnyAge, OtherWitness(n))
  PROVE  ApartEvent(x, n)
<1> DEFINE A == Elsewhere(n)
<1>0. /\ DOMAIN x.gossip \subseteq Node /\ n # NilUuid
      /\ DOMAIN view[p] \subseteq Node /\ n \notin DOMAIN view[p]
  BY GoodDomain, NodeAssumption, Zenon
     DEF NilUuid, IInv, ProcessInv, GoodView, IsView, Isolated
<1>1. \A u \in Node : \A to \in A[u] : to # AddrOf[n]
  BY DEF Elsewhere
<1>2. ASSUME NEW type, NEW arg, arg # n, NEW to, to # AddrOf[n], NEW g,
             GossipKeepsTo(g, A, AnyAge), x = swim_event_init(p, type, arg, to, g)
      PROVE  ApartEvent(x, n)
  <2>1. DOMAIN g \subseteq Node
    BY <1>0, <1>2, Zenon DEF swim_event_init
  <2> HIDE DEF A
  <2> QED
    BY <1>2, <2>1, InitApart, Zenon DEF A
<1> HIDE DEF A
<1>3. CASE Unasked(p, x, A, AnyAge)
  BY <1>0, <1>1, <1>2, <1>3, Zenon DEF Unasked
<1>4. ASSUME NEW m \in net, Reaction(p, m, x, A, AnyAge, OtherWitness(n))
      PROVE  ApartEvent(x, n)
  <2>0. ApartEvent(m, n)
    BY IsolatedKeeps, Zenon
  <2>1. CASE Answer(p, m, x, A, AnyAge)
    BY <1>2, <2>0, <2>1, Zenon DEF Answer, ApartEvent
  <2>2. CASE IndirectPing(p, x, A, AnyAge)
    BY <1>0, <1>1, <1>2, <2>2, Zenon DEF IndirectPing
  <2>3. CASE Relay(p, m, x, A, AnyAge, OtherWitness(n))
    <3>1. \A u \in Node : \A to \in OtherWitness(n)[u] : to # AddrOf[n]
      BY DEF OtherWitness
    <3>2. m.arg # n
      BY <2>0, Zenon DEF ApartEvent
    <3> QED
      BY <1>0, <1>2, <2>3, <3>1, <3>2, Zenon DEF Relay
  <2>4. CASE Forwarded(p, m, x, A)
    <3>1. /\ m \in [type : EventType, uuid : Node, age : Age, incarnation : Nat,
                    from : Addr, to : Addr, arg : Node \cup {NilUuid},
                    joinaddr : Addr \cup {NoAddr}, gossip : {m.gossip}]
          /\ m.type = "JOIN" => m.arg \in Node
      BY DEF IInv, GoodEvent, IsEvent
    <3>2. PICK u \in DOMAIN view[p] \cup {m.arg} : \E to \in A[u] : x = Forward(p, m, to)
      BY <2>4, Zenon DEF Forwarded
    <3>3. u \in Node
      BY <1>0, <2>4, <3>1, <3>2 DEF Forwarded
    <3>4. PICK to : to # AddrOf[n] /\ x = Forward(p, m, to)
      BY <1>1, <3>2, <3>3, Zenon
    <3>5. /\ x.gossip = m.gossip /\ x.uuid = m.uuid /\ x.arg = m.arg
          /\ x.joinaddr = JoinAddr(m) /\ x.from = AddrOf[p] /\ x.to = to
      BY <3>1, <3>4 DEF Forward
    <3>6. JoinAddr(m) # AddrOf[n]
      BY <2>0, Zenon DEF ApartEvent, JoinAddr
    <3> QED
      BY <2>0, <3>4, <3>5, <3>6, Zenon DEF ApartEvent
  <2> QED
    BY <1>4, <2>1, <2>2, <2>3, <2>4 DEF Reaction
<1> QED
  BY <1>3, <1>4 DEF A

\* A second later n is as isolated as before.
LEMMA TickIsolated ==
  ASSUME IInv, NEW n \in Node, Isolated(n), Tick
  PROVE  Isolated(n)'
<1>1. ASSUME NEW q \in Node
      PROVE  /\ DOMAIN view'[q] = DOMAIN view[q]
             /\ \A u \in DOMAIN view[q] :
                  /\ view'[q][u].addr = view[q][u].addr
                  /\ view'[q][u].witness = view[q][u].witness
  <2>1. view'[q] = Aged(view[q]) /\ IsView(view[q])
    BY Zenon DEF Tick, IInv, ProcessInv, GoodView
  <2> QED
    BY <2>1 DEF Aged, IsView, Entry
<1>2. ASSUME NEW x \in net'
      PROVE  ApartEvent(x, n)
  <2>1. PICK m \in net : x = AgedEvent(m)
    BY DEF Tick
  <2>2. /\ m \in [type : EventType, uuid : Node, age : Age, incarnation : Nat,
                  from : Addr, to : Addr, arg : Node \cup {NilUuid},
                  joinaddr : Addr \cup {NoAddr}, gossip : {m.gossip}]
        /\ IsGossip(m.gossip) /\ ApartEvent(m, n)
    BY IsolatedKeeps DEF IInv, GoodEvent, IsEvent
  <2>3. /\ x.uuid = m.uuid /\ x.arg = m.arg /\ x.joinaddr = m.joinaddr
        /\ x.from = m.from /\ x.to = m.to /\ x.gossip = Aged(m.gossip)
    BY <2>1, <2>2 DEF AgedEvent
  <2>4. /\ DOMAIN Aged(m.gossip) = DOMAIN m.gossip
        /\ \A u \in DOMAIN m.gossip : Aged(m.gossip)[u].addr = m.gossip[u].addr
    BY <2>2 DEF Aged, IsGossip, Info
  <2> QED
    BY <2>2, <2>3, <2>4 DEF ApartEvent
<1>3. pc' = pc
  BY Zenon DEF Tick
<1>4. pc'[n] \in Running /\ DOMAIN view'[n] = {}
  BY <1>1, <1>3 DEF Isolated
<1>5. \A p \in Node : \A u \in DOMAIN view'[p] :
        u # n /\ AddrOf[n] \notin {view'[p][u].addr, view'[p][u].witness}
  BY <1>1 DEF Isolated
<1> QED
  BY <1>2, <1>4, <1>5, Zenon DEF Isolated, ApartEvent

\* A process with an empty view can only end: nothing is addressed to it, its
\* heartbeat is never due and it has nobody to leave.
LEMMA IsolatedIdle ==
  ASSUME NEW n \in Node, Isolated(n), Step(n), ProcessInv
  PROVE  pc'[n] \in Ended
<1>1. pc[n] \in Running /\ DOMAIN view[n] = {}
  BY DEF Isolated
<1>2. ~swim_cluster_heartbeat(n)
  BY <1>1 DEF swim_cluster_heartbeat, HeartbeatDue
<1>3. ~swim_cluster_leave(n)
  <2>1. Cardinality(DOMAIN view[n]) = 0
    BY <1>1, FS_EmptySet
  <2>2. ~(Cardinality(DOMAIN view[n]) > 0)
    BY <2>1
  <2> QED
    BY <2>2, Zenon DEF swim_cluster_leave
<1>4. \A m \in net : ~Receive(n, m)
  BY Zenon DEF Isolated, Receive, swim_process_ping, swim_process_ping_req,
         swim_process_ack, swim_process_join, swim_process_leave, NoticeFails,
         Arrives
<1>5. \A seed : ~swim_server_start(n, seed)
  BY <1>1, Zenon DEF swim_server_start, Running
<1>6. Stop(n)
  BY <1>2, <1>3, <1>4, <1>5, Zenon DEF Step
<1> QED
  BY <1>6 DEF Stop, Terminate, ProcessInv, Ended

\* A lost JOIN is final, among any number of processes: whoever nobody has heard
\* of is heard of by nobody until it ends or another process starts, since the
\* JOIN is sent once (pthread_server_loop) and a heartbeat with an empty view
\* does nothing (swim_cluster_heartbeat).
THEOREM LostJoinFinal == Spec => LostJoinIsFinal
<1> DEFINE Started == \E p \in Node : pc[p] = "new" /\ pc'[p] # "new"
           A == \A n \in Node :
                  Isolated(n) => \/ Isolated(n)' \/ pc'[n] \in Ended
                                 \/ \E p \in Node : pc[p] = "new" /\ pc'[p] # "new"
<1>1. ASSUME IInv, IInv', OneBinds, Next, NEW n \in Node, Isolated(n)
      PROVE  Isolated(n)' \/ pc'[n] \in Ended \/ Started
  <2>0. ProcessInv /\ pc[n] \in Running
    BY <1>1 DEF IInv, Isolated
  <2>1. CASE Tick
    BY <1>1, <2>1, TickIsolated
  <2>2. CASE Step(n)
    BY <1>1, <2>0, <2>2, IsolatedIdle, Zenon
  <2>3. ASSUME NEW p \in Node, p # n, Step(p)
        PROVE  Isolated(n)' \/ Started
    <3>0. KeepsTo(view[p], Elsewhere(n), AnyAge, OtherWitness(n))
      BY <1>1, IsolatedKeeps
    <3>1. ASSUME NEW seed \in Seeds[p], swim_server_start(p, seed) PROVE Started
      BY <2>0, <3>1, Zenon DEF swim_server_start, ProcessInv
    <3>2. CASE Stop(p)
      <4>1. Stays(p, Elsewhere(n), AnyAge, OtherWitness(n)) /\ net' = net
        BY <2>0, <3>2, TerminateStays DEF Stop, Ended
      <4> QED
        BY <1>1, <2>3, <4>1, StaysIsolated
    <3>3. ASSUME NEW m \in net, Receive(p, m) PROVE Isolated(n)'
      <4>1. m.to = AddrOf[p]
        BY <3>3, Zenon DEF Receive, swim_process_ping, swim_process_ping_req,
                    swim_process_ack, swim_process_join, swim_process_leave,
                    NoticeFails, Arrives
      <4>2. AddrOf[p] # AddrOf[n]
        BY <1>1, <3>3, <4>1, Zenon DEF Isolated
      <4>3. Fits(p, m, Elsewhere(n), AnyAge, OtherWitness(n))
        BY <1>1, IsolatedKeeps
      <4>4. /\ Stays(p, Elsewhere(n), AnyAge, OtherWitness(n))
            /\ \A x \in net' :
                 \/ x \in net
                 \/ Reaction(p, m, x, Elsewhere(n), AnyAge, OtherWitness(n))
        BY <1>1, <3>0, <3>3, <4>3, ReceiveKeeps
      <4>5. \A x \in net' : x \in net \/ ApartEvent(x, n)
        BY <1>1, <2>3, <4>2, <4>4, SentApart
      <4> QED
        BY <1>1, <2>3, <4>4, <4>5, StaysIsolated
    <3>4. CASE swim_cluster_heartbeat(p) \/ swim_cluster_leave(p)
      <4>1. pc[p] \in Running
        BY <3>4 DEF swim_cluster_heartbeat, swim_cluster_leave, Running
      <4>2. AddrOf[p] # AddrOf[n]
        BY <1>1, <2>0, <2>3, <4>1 DEF OneBinds
      <4>3. /\ Stays(p, Elsewhere(n), AnyAge, OtherWitness(n))
            /\ \A x \in net' : x \in net \/ Unasked(p, x, Elsewhere(n), AnyAge)
        BY <1>1, <3>0, <3>4, HeartbeatKeeps, LeaveSentKeeps, Zenon
      <4>4. \A x \in net' : x \in net \/ ApartEvent(x, n)
        BY <1>1, <2>3, <4>2, <4>3, SentApart
      <4> QED
        BY <1>1, <2>3, <4>3, <4>4, StaysIsolated, Zenon
    <3> QED
      BY <2>3, <3>1, <3>2, <3>3, <3>4, Zenon DEF Step
  <2> HIDE DEF Started
  <2> QED
    BY <1>1, <2>1, <2>2, <2>3 DEF Next
<1>2. IInv /\ IInv' /\ OneBinds /\ [Next]_vars => [A]_vars
  BY <1>1
<1>3. Init => OneBinds
  BY DEF Init, OneBinds, Running
<1>4. IInv /\ OneBinds /\ [Next]_vars => OneBinds'
  BY NextOneBinds DEF IInv
<1> QED
  BY <1>2, <1>3, <1>4, InvariantHolds, PTL DEF Spec, LostJoinIsFinal

==============================================================================
