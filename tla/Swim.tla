--------------------------------- MODULE Swim ---------------------------------
(***************************************************************************)
(* A cluster of libswim processes: the server loop (swim/server.c), the    *)
(* event handlers (swim/process.c), the cluster operations                 *)
(* (swim/cluster.c) and the datagrams between them (swim/network.c).       *)
(*                                                                         *)
(* Each process runs one thread: receive at most one datagram, handle it,  *)
(* then run the heartbeat.  A handler is one action, since nothing else    *)
(* touches the state of the process while it runs.  Datagrams may be lost, *)
(* duplicated and reordered.                                               *)
(***************************************************************************)
EXTENDS SwimState

CONSTANTS
  AddrOf,              \* the address each process binds
  Seeds,               \* the addresses each process may be told to join
  Mortal,              \* the processes that may be stopped or killed
  Leavers,             \* the processes whose application may leave
  HEARTBEAT_INTERVAL,  \* SWIM_HEARTBEAT_INTERVAL (1)
  MAXPINGREQ,          \* SWIM_MAXPINGREQ (5)
  MAXLEAVE,            \* SWIM_MAXLEAVE (5)
  MaxIncarnation,      \* bound: largest incarnation explored (code: 2^32 - 1)
  MaxLifetime,         \* seconds a datagram may spend in the network
  MaxDatagrams         \* bound: datagrams the network carries

ASSUME DeploymentAssumption ==
  /\ AddrOf \in [Node -> Addr]
  /\ Seeds \in [Node -> SUBSET (Addr \cup {NoAddr})]
  /\ Mortal \subseteq Node /\ Leavers \subseteq Node
ASSUME BoundAssumption ==
  /\ HEARTBEAT_INTERVAL \in Nat /\ MAXPINGREQ \in Nat /\ MAXLEAVE \in Nat
  /\ MaxIncarnation \in Nat /\ MaxLifetime \in Nat /\ MaxDatagrams \in Nat

VARIABLES
  pc,           \* where each process is in its server loop, or how it ended
  incarnation,  \* swim->incarnation
  view,         \* swim->view
  hbAge,        \* age of swim->last_heartbeat
  downAge,      \* time since the process ended
  net           \* the datagrams the network carries

vars == <<pc, incarnation, view, hbAge, downAge, net>>

Running == {"recv", "heartbeat"}
Ended == {"stopped", "exited", "aborted"}

EventType == {"PING", "ACK", "PING_REQ", "JOIN", "LEAVE"}

IsEvent(m) ==
  /\ m \in [type : EventType, uuid : Node, age : Age, incarnation : Nat,
            from : Addr, to : Addr, arg : Node \cup {NilUuid},
            joinaddr : Addr \cup {NoAddr}, gossip : {m.gossip}]
  /\ IsGossip(m.gossip)

\* Every variable has the type of the C object it stands for.
TypeOK ==
  /\ pc \in [Node -> {"new"} \cup Running \cup Ended]
  /\ incarnation \in [Node -> 0..MaxIncarnation]
  /\ DOMAIN view = Node
  /\ \A n \in Node : IsView(view[n])
  /\ hbAge \in [Node -> 0..(HEARTBEAT_INTERVAL + 1)]
  /\ downAge \in [Node -> Age]
  /\ \A m \in net : IsEvent(m)

Init ==
  /\ pc = [n \in Node |-> "new"]
  /\ incarnation = [n \in Node |-> 0]
  /\ view = [n \in Node |-> Nothing]
  /\ hbAge = [n \in Node |-> 0]
  /\ downAge = [n \in Node |-> 0]
  /\ net = {}

------------------------------------------------------------------------------
\* Datagrams

swim_event_init(n, type, arg, to, gossip) ==
  [type |-> type, uuid |-> n, age |-> 0, incarnation |-> incarnation[n],
   from |-> AddrOf[n], to |-> to, arg |-> arg, joinaddr |-> NoAddr,
   gossip |-> gossip]

\* The send helpers give every datagram the call may produce: they differ in
\* the gossip that is picked from view v
swim_send_ack(n, v, arg, to) ==
  {swim_event_init(n, "ACK", arg, to, g) : g \in swim_fill_gossip(v)}

swim_send_ping(n, v, to) ==
  {swim_event_init(n, "PING", NilUuid, to, g) : g \in swim_fill_gossip(v)}

swim_send_ping_req(n, v, arg, to) ==
  {swim_event_init(n, "PING_REQ", arg, to, g) : g \in swim_fill_gossip(v)}

SameCall(m1, m2) == m1.type = m2.type /\ m1.to = m2.to /\ m1.arg = m2.arg

\* The network takes any of the datagrams sent, one for each call, and loses
\* the others.  It keeps what it has taken until it is too old: a datagram
\* that is received can arrive again, and one that never arrives is lost.
Transmit(sent) ==
  \E taken \in SUBSET sent :
    /\ \A m1, m2 \in taken : SameCall(m1, m2) => m1 = m2
    /\ Cardinality(net \cup taken) <= MaxDatagrams
    /\ net' = net \cup taken

------------------------------------------------------------------------------
\* Start, end and the passing of time

\* The address of the joining process is left for the receiver to fill in
swim_cluster_join(n, to) == swim_event_init(n, "JOIN", n, to, Nothing)

\* Mutant: a process that runs already joins once more
swim_server_start_Again(n, seed) ==
  /\ pc[n] \in {"new", "recv"}
  /\ \A p \in Node \ {n} : AddrOf[p] = AddrOf[n] => pc[p] \notin Running
  /\ pc' = [pc EXCEPT ![n] = "recv"]
  /\ Transmit({swim_cluster_join(n, to) : to \in {seed} \ {NoAddr}})
  /\ UNCHANGED <<incarnation, view, hbAge, downAge>>

\* swim_server_init and the start of the thread, which joins through seed
swim_server_start(n, seed) ==
  /\ pc[n] = "new"
  /\ \A p \in Node : AddrOf[p] = AddrOf[n] => pc[p] \notin Running
  /\ pc' = [pc EXCEPT ![n] = "recv"]
  /\ Transmit({swim_cluster_join(n, to) : to \in {seed} \ {NoAddr}})
  /\ UNCHANGED <<incarnation, view, hbAge, downAge>>

\* The process ends and its memory is gone
Terminate(n, how) ==
  /\ pc' = [pc EXCEPT ![n] = how]
  /\ view' = [view EXCEPT ![n] = Nothing]
  /\ hbAge' = [hbAge EXCEPT ![n] = 0]
  /\ UNCHANGED <<incarnation, downAge>>

\* Stopped by the application, or killed
Stop(n) ==
  /\ pc[n] \in Running /\ n \in Mortal
  /\ Terminate(n, "stopped")
  /\ UNCHANGED net

AgedEvent(m) == [m EXCEPT !.age = Older(@), !.gossip = Aged(@)]

\* One second passes; the network drops what has become too old
Tick ==
  /\ view' = [n \in Node |-> Aged(view[n])]
  /\ hbAge' = [n \in Node |->
                 IF pc[n] \in Running /\ hbAge[n] <= HEARTBEAT_INTERVAL
                 THEN hbAge[n] + 1 ELSE hbAge[n]]
  /\ downAge' = [n \in Node |->
                   IF pc[n] \in Ended THEN Older(downAge[n]) ELSE downAge[n]]
  /\ net' = {AgedEvent(m) : m \in {x \in net : x.age < MaxLifetime}}
  /\ UNCHANGED <<pc, incarnation>>

------------------------------------------------------------------------------
\* Receiving an event

Arrives(n, m, type) ==
  /\ pc[n] = "recv"
  /\ m.to = AddrOf[n]
  /\ m.type = type
  /\ NoticeAsserts(view[n], m.uuid)

\* The view after swim_process_event has noticed the sender
Noticed(n, m) == swim_state_notice(view[n], m.uuid, m.age, m.incarnation)

HeartbeatDue(n, v) == DOMAIN v # {} /\ hbAge[n] > HEARTBEAT_INTERVAL

\* The handler is done and leaves view v.  The heartbeat comes next; one that
\* is not due does nothing, and the loop goes on to receive.
Continue(n, v) ==
  /\ view' = [view EXCEPT ![n] = v]
  /\ pc' = [pc EXCEPT ![n] = IF HeartbeatDue(n, v) THEN "heartbeat" ELSE "recv"]
  /\ UNCHANGED <<hbAge, downAge>>

Handled(n, v) == Continue(n, v) /\ UNCHANGED incarnation

\* Mutant: a suspicion of the current incarnation is not refuted
SelfSuspicions_OffByOne(n, gossip) ==
  IF /\ n \in DOMAIN gossip /\ gossip[n].status = SUSPECT
     /\ gossip[n].incarnation < incarnation[n]
  THEN gossip[n].count ELSE 0

\* Every copy of a record that suspects the process itself counts
SelfSuspicions(n, gossip) ==
  IF n \in DOMAIN gossip /\ gossip[n].status = SUSPECT
  THEN gossip[n].count ELSE 0

\* An assertion fails on an UNKNOWN record, and a process that finds itself
\* declared dead exits; the first such record decides
swim_process_gossip(n, v, gossip) ==
  LET unknown == \E u \in DOMAIN gossip : gossip[u].status = UNKNOWN
      dead == n \in DOMAIN gossip /\ gossip[n].status = DEAD
      inc == incarnation[n] + SelfSuspicions(n, gossip)
  IN \/ unknown /\ Terminate(n, "aborted")
     \/ dead /\ Terminate(n, "exited")
     \/ /\ ~unknown /\ ~dead
        /\ inc <= MaxIncarnation
        /\ incarnation' = [incarnation EXCEPT ![n] = inc]
        /\ Continue(n, swim_state_merge(v, n, gossip))

swim_process_ping(n, m) ==
  /\ Arrives(n, m, "PING")
  /\ Transmit(swim_send_ack(n, Noticed(n, m), n, m.from))
  /\ swim_process_gossip(n, Noticed(n, m), m.gossip)

swim_process_ping_req(n, m) ==
  /\ Arrives(n, m, "PING_REQ")
  /\ LET v == Noticed(n, m)
         suspected == swim_state_suspect(v, m.arg, m.from)
     IN IF m.arg \in DOMAIN v
        THEN /\ Handled(n, suspected)
             /\ Transmit(swim_send_ping(n, suspected, v[m.arg].addr))
        ELSE Handled(n, v) /\ UNCHANGED net

\* The entry an ACK for an unknown node adds: address and time of the sender
AckInfo(m) ==
  [status |-> UNKNOWN, incarnation |-> 0, age |-> m.age, addr |-> m.from]

\* The view in which the status switch of swim_process_ack runs
AckView(v, m) ==
  IF m.arg \in DOMAIN v THEN v ELSE swim_state_add(v, m.arg, AckInfo(m))

\* The entry that switch looks at
AckNode(v, m) == IF m.arg \in DOMAIN v THEN m.arg ELSE Added(AckView(v, m))

\* The witness the ACK is relayed to, if any
AckWitness(v, u) ==
  {to \in {v[u].witness} : v[u].status = SUSPECT /\ to # NoAddr}

swim_process_ack(n, m) ==
  /\ Arrives(n, m, "ACK")
  /\ LET v == AckView(Noticed(n, m), m)
         u == AckNode(Noticed(n, m), m)
     IN \/ m.arg = n /\ Handled(n, Noticed(n, m)) /\ UNCHANGED net
        \/ /\ m.arg # n
           /\ Transmit(UNION {swim_send_ack(n, v, m.arg, to)
                                : to \in AckWitness(v, u)})
           /\ swim_process_gossip(n,
                IF v[u].status \in {SUSPECT, UNKNOWN}
                THEN swim_cluster_refuted_dead(v, u) ELSE v,
                m.gossip)

\* Mutants: the address is never filled in; every receiver fills it in
JoinAddr_NotFilled(m) == m.joinaddr
JoinAddr_LastSender(m) == m.from

\* The address of the joining node is filled in by the first receiver
JoinAddr(m) == IF m.joinaddr = NoAddr THEN m.from ELSE m.joinaddr

JoinInfo(m) ==
  [status |-> ALIVE, incarnation |-> 0, age |-> m.age, addr |-> JoinAddr(m)]

\* Mutant: the forwarded event is stamped with the current time
Forward_Restamped(n, m, to) ==
  [m EXCEPT !.age = 0, !.joinaddr = JoinAddr(m), !.from = AddrOf[n], !.to = to]

\* The event is forwarded with the header of the joining node
Forward(n, m, to) ==
  [m EXCEPT !.joinaddr = JoinAddr(m), !.from = AddrOf[n], !.to = to]

swim_process_join(n, m) ==
  /\ Arrives(n, m, "JOIN")
  /\ LET v == Noticed(n, m)
         joined == swim_state_add(v, m.arg, JoinInfo(m))
     IN IF m.arg \in DOMAIN v \cup {n}
        THEN Handled(n, v) /\ UNCHANGED net
        ELSE /\ Handled(n, joined)
             /\ Transmit({Forward(n, m, joined[u].addr) : u \in DOMAIN joined}
                         \cup swim_send_ack(n, joined, n, m.from))

swim_process_leave(n, m) ==
  /\ Arrives(n, m, "LEAVE")
  /\ LET v == swim_state_del(Noticed(n, m), n, m.arg)
     IN Handled(n, v) /\ Transmit(swim_send_ack(n, v, n, m.from))

\* swim_state_notice asserts that the sender is not UNKNOWN
NoticeFails(n, m) ==
  /\ pc[n] = "recv"
  /\ m.to = AddrOf[n]
  /\ ~NoticeAsserts(view[n], m.uuid)
  /\ Terminate(n, "aborted")
  /\ UNCHANGED net

------------------------------------------------------------------------------
\* Cluster operations

Expired(v) == {u \in DOMAIN v : v[u].status = ALIVE /\ v[u].age >= SuspectAfter}

swim_cluster_declare_dead(e) == [e EXCEPT !.status = DEAD]

\* Mutants: suspicion starts a new incarnation of the suspect; silence
\* for SuspectAfter is death, not suspicion; only a suspect with a witness dies
Visited_NewIncarnation(v, last) ==
  [u \in DOMAIN v |->
     IF u <= last /\ u \in Expired(v)
     THEN [v[u] EXCEPT !.status = SUSPECT, !.incarnation = @ + 1] ELSE v[u]]
Visited_DeadEarly(v, last) ==
  [u \in DOMAIN v |->
     IF u <= last /\ u \in Expired(v)
     THEN [v[u] EXCEPT !.status = DEAD] ELSE v[u]]
Visited_WitnessedOnly(v, last) ==
  [u \in DOMAIN v |->
     CASE u <= last /\ u \in Expired(v) -> [v[u] EXCEPT !.status = SUSPECT]
       [] u <= last /\ v[u].status = SUSPECT /\ v[u].age >= DeadAfter
            /\ v[u].witness # NoAddr -> [v[u] EXCEPT !.status = DEAD]
       [] OTHER -> v[u]]

\* The status loop of the heartbeat, after it has visited the UUIDs up to last
Visited(v, last) ==
  [u \in DOMAIN v |->
     CASE u <= last /\ u \in Expired(v) -> [v[u] EXCEPT !.status = SUSPECT]
       [] u <= last /\ v[u].status = SUSPECT /\ v[u].age >= DeadAfter ->
            swim_cluster_declare_dead(v[u])
       [] OTHER -> v[u]]

\* The loop "for (sent = MIN(view_size, MAXPINGREQ); sent > start; --sent)"
\* of swim_cluster_suspect_dead, over the view at that moment
PingReqTargets(v, start) ==
  LET size == Cardinality(DOMAIN v)
  IN {u \in DOMAIN v :
        /\ v[u].status = ALIVE
        /\ \E sent \in (start + 1)..MAXPINGREQ :
             sent <= size /\ Index(v, u) = (start + sent) % size}

swim_cluster_suspect_dead(n, v, target, start) ==
  UNION {swim_send_ping_req(n, v, target, v[u].addr)
           : u \in PingReqTargets(v, start)}

\* swim_probe_next: some node that is not dead, or nobody when the rest of the
\* round holds dead nodes only
ProbeTargets(v) == {u \in DOMAIN v : v[u].status # DEAD}
ProbeNobody(v) == \E u \in DOMAIN v : v[u].status = DEAD

Probe(n, v) ==
  {swim_send_ping(n, v, v[u].addr) : u \in ProbeTargets(v)}
    \cup (IF ProbeNobody(v) THEN {{}} ELSE {})

swim_cluster_heartbeat(n) ==
  LET v == view[n]
      size == Cardinality(DOMAIN v)
  IN /\ pc[n] \in Running
     /\ HeartbeatDue(n, v)
     /\ pc' = [pc EXCEPT ![n] = "recv"]
     /\ hbAge' = [hbAge EXCEPT ![n] = 0]
     /\ \E ping \in Probe(n, v), start \in [Expired(v) -> 0..(size - 1)] :
          Transmit(ping \cup
            UNION {swim_cluster_suspect_dead(n, Visited(v, t), t, start[t])
                     : t \in Expired(v)})
     /\ view' = [view EXCEPT ![n] =
                   [u \in DOMAIN v |-> Visited(v, u)[u]]]
     /\ UNCHANGED <<incarnation, downAge>>

\* Called by the application; leave_uuid stays cleared
swim_cluster_leave(n) ==
  LET v == view[n]
      size == Cardinality(DOMAIN v)
  IN /\ pc[n] = "recv" /\ n \in Leavers
     /\ size > 0
     /\ \E pos \in 0..(size - 1) :
          Transmit(
            {swim_event_init(n, "LEAVE", NilUuid, v[u].addr, Nothing) :
               u \in {w \in DOMAIN v : \E i \in 0..(MAXLEAVE - 1) :
                        i < size /\ Index(v, w) = (pos + i) % size}})
     /\ UNCHANGED <<pc, incarnation, view, hbAge, downAge>>

Receive(n, m) ==
  \/ swim_process_ping(n, m)
  \/ swim_process_ping_req(n, m)
  \/ swim_process_ack(n, m)
  \/ swim_process_join(n, m)
  \/ swim_process_leave(n, m)
  \/ NoticeFails(n, m)

Step(n) ==
  \/ \E seed \in Seeds[n] : swim_server_start(n, seed)
  \/ Stop(n)
  \/ \E m \in net : Receive(n, m)
  \/ swim_cluster_heartbeat(n)
  \/ swim_cluster_leave(n)

Next ==
  \/ Tick
  \/ \E n \in Node : Step(n)

Spec == Init /\ [][Next]_vars

------------------------------------------------------------------------------
\* Properties

\* Nobody credits a process with an incarnation it has not reached: only the
\* process itself raises its incarnation (swim_process_gossip), and neither a
\* view entry, nor a header, nor a gossip record that outlived several hops
\* and was reordered or duplicated on the way is ever ahead of it.
IncarnationNeverAhead ==
  /\ \A n \in Node : \A u \in DOMAIN view[n] :
       view[n][u].incarnation <= incarnation[u]
  /\ \A m \in net :
       /\ m.incarnation <= incarnation[m.uuid]
       /\ \A u \in DOMAIN m.gossip :
            m.gossip[u].incarnation <= incarnation[u]

\* Gossip cannot keep a process fresh that is gone: wherever a record about an
\* ended process is, its last_seen is not later than the end of the process,
\* whatever was forwarded, merged or delivered late (swim_state_merge,
\* swim_state_notice, the forwarding in swim_process_join).  Like
\* AddressIsTrue, it holds among three processes: an ACK relayed to a stranger
\* has the time of the relayer.
NotSeenAfterEnd ==
  \A u \in {p \in Node : pc[p] \in Ended} :
    /\ \A n \in Node : u \in DOMAIN view[n] => view[n][u].age >= downAge[u]
    /\ \A m \in net :
         /\ m.uuid = u => m.age >= downAge[u]
         /\ u \in DOMAIN m.gossip => m.gossip[u].age >= downAge[u]

\* Nobody is pronounced dead on fresh evidence: wherever a DEAD record is, in
\* a view or on its way through gossip, its last_seen is at least DeadAfter
\* seconds old (swim_cluster_heartbeat, swim_state_merge, swim_state_notice).
DeadIsSilent ==
  /\ \A n \in Node : \A u \in DOMAIN view[n] :
       view[n][u].status = DEAD => view[n][u].age = DeadAfter
  /\ \A m \in net : \A u \in DOMAIN m.gossip :
       m.gossip[u].status = DEAD => m.gossip[u].age = DeadAfter

\* A process is never in its own view, which is what the first assertion of
\* swim_state_add and the comment on struct SWIM demand of all its callers.
NeverInOwnView == \A n \in Node : n \notin DOMAIN view[n]

\* A member is recorded under the address it sends from, although a process
\* joins without telling its address (swim_cluster_join) and the first
\* receiver fills it in before the JOIN is forwarded (swim_process_join), and
\* although an ACK for an unknown node is credited to its sender
\* (swim_process_ack), who may only have relayed it.  Three processes keep to
\* it; among four, an ACK may be relayed to somebody who never asked for it.
AddressIsTrue ==
  /\ \A n \in Node : \A u \in DOMAIN view[n] : view[n][u].addr = AddrOf[u]
  /\ \A m \in net : \A u \in DOMAIN m.gossip : m.gossip[u].addr = AddrOf[u]

\* While a process runs, no handler takes the incarnation recorded for a member
\* back to an earlier one, in whatever order old and new headers and gossip
\* arrive (swim_state_notice, swim_state_merge).
ViewAdvances ==
  [][\A n \in Node : pc'[n] \in Running =>
       \A u \in DOMAIN view[n] \cap DOMAIN view'[n] :
         view'[n][u].incarnation >= view[n][u].incarnation]_vars

\* A refutation outranks the suspicion it answers: a process that hears it is
\* suspected, from however many copies of a record however old, and goes on,
\* has afterwards a higher incarnation than the suspicion names
\* (swim_process_gossip), so that swim_state_merge prefers it everywhere.
RefutationOutranks ==
  [][\A n \in Node : \A m \in net :
       (/\ swim_process_ping(n, m) \/ (swim_process_ack(n, m) /\ m.arg # n)
        /\ pc'[n] \in Running
        /\ n \in DOMAIN m.gossip /\ m.gossip[n].status = SUSPECT)
       => incarnation'[n] > m.gossip[n].incarnation]_vars

\* Nobody has heard of n, and nothing that would tell is on its way
Isolated(n) ==
  /\ pc[n] \in Running /\ DOMAIN view[n] = {}
  /\ \A p \in Node : \A u \in DOMAIN view[p] :
       u # n /\ AddrOf[n] \notin {view[p][u].addr, view[p][u].witness}
  /\ \A m \in net :
       /\ AddrOf[n] \notin {m.from, m.to, m.joinaddr} /\ n \notin {m.uuid, m.arg}
       /\ \A u \in DOMAIN m.gossip : u # n /\ m.gossip[u].addr # AddrOf[n]

\* A lost JOIN is final: pthread_server_loop sends it once, swim_cluster_heartbeat
\* does nothing while the view is empty, and no other handler sends unasked, so
\* a process nobody has heard of stays alone until another process starts,
\* which may be told to join through it.
LostJoinIsFinal ==
  [][\A n \in Node : Isolated(n) =>
       \/ Isolated(n)' \/ pc'[n] \in Ended
       \/ \E p \in Node : pc[p] = "new" /\ pc'[p] # "new"]_vars

\* The loop goes on: recvfrom returns after its timeout at the latest, so a
\* heartbeat that is due is run, and time passes.
Fairness == WF_vars(Tick) /\ \A n \in Node : WF_vars(swim_cluster_heartbeat(n))

FairSpec == Spec /\ Fairness

\* Completeness of the failure detector: a process that has ended is in the
\* end declared dead by every process that has it in its view and keeps
\* running, with a witness or without (swim/node.h:66).  Old datagrams refute
\* the suspicion for as long as the network keeps them, and gossip of a third
\* process puts it off (swim_cluster_heartbeat, swim_state_notice,
\* swim_state_merge).  Needs MaxLifetime <= DeadAfter: a datagram that is kept
\* and delivered for ever makes the process ALIVE again after every suspicion.
EndIsDetected ==
  \A n \in Node : \A u \in Node \ {n} :
    (pc[u] \in Ended /\ pc[n] \in Running /\ u \in DOMAIN view[n])
      ~> (pc[n] \in Ended \/ (u \in DOMAIN view[n] /\ view[n][u].status = DEAD))

------------------------------------------------------------------------------
\* What the comments of the code say and the code does not do

\* "If the node did not exist, we add it with the sender address and mark it
\* as alive and seen" (swim_process_ack), so that no member is UNKNOWN, which
\* swim_state_notice and swim_process_gossip assert.
NoUnknownMember ==
  \A n \in Node : \A u \in DOMAIN view[n] : view[n][u].status # UNKNOWN

\* "Note that a node declared dead can never refute it" (comment on
\* swim_cluster_declare_dead).
DeadIsFinal ==
  [][\A n \in Node : pc'[n] \in Running =>
       \A u \in DOMAIN view[n] :
         view[n][u].status = DEAD => view'[n][u].status = DEAD]_vars

\* "If the sender node exists, is marked suspect, and there is a witness, then
\* it needs to be notified that the node is alive" (swim_process_ack, which
\* forgets the witness once it has notified it).
SuspectAckTellsWitness ==
  [][\A n \in Node : \A m \in net :
       (/\ swim_process_ack(n, m) /\ pc'[n] \in Running
        /\ m.arg \in DOMAIN view[n]
        /\ view[n][m.arg].status = SUSPECT /\ view[n][m.arg].witness # NoAddr)
       => view'[n][m.arg].witness = NoAddr]_vars

\* "we will send out either one ping request to each node, or at most
\* SWIM_MAXPINGREQ ping requests to randomly selected nodes" (comment on
\* swim_cluster_suspect_dead): in a view that small, every live member is asked,
\* whatever start is drawn.
EveryoneIsAsked ==
  \A n \in Node : \A t \in Expired(view[n]) :
    LET v == Visited(view[n], t)
        size == Cardinality(DOMAIN v)
    IN  size <= MAXPINGREQ =>
          \A start \in 0..(size - 1) :
            PingReqTargets(v, start) = {u \in DOMAIN v : v[u].status = ALIVE}

\* "When a request to leave the cluster is made, we mark the server and
\* declared dead" (comment on swim_process_leave).
LeaverIsDead ==
  [][\A n \in Node : \A m \in net :
       (swim_process_leave(n, m) /\ m.uuid \in DOMAIN view[n])
       => view'[n][m.uuid].status = DEAD]_vars

\* "We need to notice the sender since the "public" address is there and we need
\* to add the sender to the view if it is not already there" (comment in
\* swim_process_event, which calls swim_state_notice for it).
SenderIsAdded ==
  [][\A n \in Node : \A m \in net :
       (Receive(n, m) /\ pc'[n] \in Running) => m.uuid \in DOMAIN view'[n]]_vars

\* "The time the node was suspected dead is also recorded and used to decide
\* when a node should be declared dead" (swim/node.h): while a member stays
\* suspected in one incarnation, that time does not come closer to now.
SuspicionKeepsItsTime ==
  [][\A n \in Node : pc'[n] \in Running =>
       \A u \in DOMAIN view[n] \cap DOMAIN view'[n] :
         (/\ view[n][u].status = SUSPECT /\ view'[n][u].status = SUSPECT
          /\ view'[n][u].incarnation = view[n][u].incarnation)
         => view'[n][u].age >= view[n][u].age]_vars

\* "If the node exists and is dead, we just ignore it.  Hence dead nodes will be
\* cleaned up once they are old enough" (comment on swim_state_notice).
DeadIsCleanedUp ==
  \A n \in Node : \A u \in Node \ {n} :
    (pc[n] \in Running /\ u \in DOMAIN view[n] /\ view[n][u].status = DEAD)
      ~> (\/ pc[n] \in Ended \/ u \notin DOMAIN view[n]
          \/ view[n][u].status # DEAD)

==============================================================================
