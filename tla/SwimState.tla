------------------------------ MODULE SwimState ------------------------------
(***************************************************************************)
(* The membership view of one process (swim/state.c, swim/node.c) and the  *)
(* records that travel between processes (swim/event.h), as operators on   *)
(* values.  Module Swim turns them into actions.                           *)
(*                                                                         *)
(* A UUID is a positive number, so that uuid_compare is "<"; 0 is the      *)
(* all-zero UUID of freshly cleared memory.  The array swim->view is kept  *)
(* sorted by UUID and free of duplicates, so it is modelled by a function  *)
(* whose domain is the set of UUIDs it holds.                              *)
(*                                                                         *)
(* A time_t stored at some moment is represented by its age, the seconds   *)
(* elapsed since, which saturates at DeadAfter: the code only compares     *)
(* stored times with each other and with now-60 and now-120.               *)
(***************************************************************************)
EXTENDS Integers, FiniteSets

CONSTANTS
  Node,             \* the UUIDs that processes may have
  Addr,             \* network addresses
  NoAddr,           \* an address of length zero
  SuspectAfter,     \* seconds of silence before a node is suspected (60)
  DeadAfter,        \* seconds of silence before a suspect is dead (120)
  MAX_GOSSIP_SIZE   \* SWIM_MAX_GOSSIP_SIZE (10)

ASSUME NodeAssumption == Node \subseteq Nat \ {0} /\ IsFiniteSet(Node)
ASSUME AddrAssumption == NoAddr \notin Addr
ASSUME TimeAssumption ==
  SuspectAfter \in Nat /\ DeadAfter \in Nat /\ SuspectAfter <= DeadAfter
ASSUME GossipAssumption == MAX_GOSSIP_SIZE \in Nat \ {0}

NilUuid == 0

\* enum Status, in the order the merge rules compare it
UNKNOWN == 0
ALIVE == 1
SUSPECT == 2
DEAD == 3
Status == {UNKNOWN, ALIVE, SUSPECT, DEAD}

Age == 0..DeadAfter

Older(age) == IF age < DeadAfter THEN age + 1 ELSE age

\* NodeState: NodeInfo and the witness, an address or none
Entry == [status : Status, incarnation : Nat, age : Age,
          addr : Addr, witness : Addr \cup {NoAddr}]

IsView(v) == DOMAIN v \subseteq Node /\ v \in [DOMAIN v -> Entry]

\* NodeInfo as gossip carries it, with the number of copies in the message
Info == [status : Status, incarnation : Nat, age : Age, addr : Addr,
         count : Nat \ {0}]

IsGossip(g) == DOMAIN g \subseteq Node /\ g \in [DOMAIN g -> Info]

Nothing == [u \in {} |-> u]

\* A view or a gossip one second later
Aged(f) == [u \in DOMAIN f |-> [f[u] EXCEPT !.age = Older(@)]]

------------------------------------------------------------------------------
\* Position of u in the sorted array
Index(v, u) == Cardinality({w \in DOMAIN v : w < u})

\* Node entry as swim_state_add copies it into a cleared array slot
NewEntry(info) ==
  [status |-> info.status, incarnation |-> info.incarnation, age |-> info.age,
   addr |-> info.addr, witness |-> NoAddr]

swim_state_add(v, u, info) ==
  [w \in DOMAIN v \cup {u} |-> IF w = u THEN NewEntry(info) ELSE v[w]]

\* What swim_state_add returns: the slot that was last before the sort, so
\* the entry with the largest UUID after it
Added(v) == CHOOSE u \in DOMAIN v : \A w \in DOMAIN v : w <= u

swim_state_suspect(v, u, addr) ==
  [v EXCEPT ![u].status = SUSPECT, ![u].witness = addr]

swim_state_del(v, self, u) ==
  IF u \in DOMAIN v \ {self} THEN [v EXCEPT ![u].status = DEAD] ELSE v

\* assert(node->info.status != SWIM_STATUS_UNKNOWN)
NoticeAsserts(v, u) == u \in DOMAIN v => v[u].status # UNKNOWN

\* Mutant: no check for stale incarnations
NoticeEntry_StaleAccepted(e, age, inc) ==
  IF inc # e.incarnation \/ e.status # DEAD
  THEN [e EXCEPT !.incarnation = inc, !.status = ALIVE, !.age = age] ELSE e

\* Mutant: a dead node that is heard again is marked as seen
NoticeEntry_SeenThoughDead(e, age, inc) ==
  CASE inc > e.incarnation ->
         [e EXCEPT !.incarnation = inc, !.status = ALIVE, !.age = age]
    [] inc = e.incarnation /\ e.status # DEAD ->
         [e EXCEPT !.status = ALIVE, !.age = age]
    [] OTHER -> [e EXCEPT !.age = age]

NoticeEntry(e, age, inc) ==
  CASE inc > e.incarnation ->
         [e EXCEPT !.incarnation = inc, !.status = ALIVE, !.age = age]
    [] inc = e.incarnation /\ e.status # DEAD ->
         [e EXCEPT !.status = ALIVE, !.age = age]
    [] OTHER -> e

swim_state_notice(v, u, age, inc) ==
  IF u \in DOMAIN v THEN [v EXCEPT ![u] = NoticeEntry(@, age, inc)] ELSE v

\* Mutant: gossip counts as a sign of life of its subject
Adopt_SeenNow(e, info) ==
  [e EXCEPT !.incarnation = info.incarnation, !.status = info.status,
            !.age = 0, !.witness = NoAddr]

\* Take over status and last_seen; swim_node_reset forgets the witness
Adopt(e, info) ==
  [e EXCEPT !.incarnation = info.incarnation, !.status = info.status,
            !.age = info.age, !.witness = NoAddr]

\* Mutant: whoever tells of a member has seen it
MergeEntry_SeenNow(e, info) ==
  CASE info.incarnation > e.incarnation -> Adopt(e, info)
    [] info.incarnation < e.incarnation -> e
    [] OTHER ->
         CASE e.status \in {DEAD, UNKNOWN} -> [e EXCEPT !.witness = NoAddr]
           [] e.status \in {ALIVE, SUSPECT} /\ info.status > e.status ->
                Adopt(e, info)
           [] e.status \in {ALIVE, SUSPECT} /\ info.status = e.status ->
                [e EXCEPT !.age = 0]
           [] OTHER -> e

MergeEntry(e, info) ==
  CASE info.incarnation > e.incarnation -> Adopt(e, info)
    [] info.incarnation < e.incarnation -> e
    [] OTHER ->
         CASE e.status \in {DEAD, UNKNOWN} -> [e EXCEPT !.witness = NoAddr]
           [] e.status \in {ALIVE, SUSPECT} /\ info.status > e.status ->
                Adopt(e, info)
           [] e.status \in {ALIVE, SUSPECT} /\ info.status = e.status
                /\ info.age < e.age -> [e EXCEPT !.age = info.age]
           [] OTHER -> e

\* Mutant: a record about the process itself is merged like any other
swim_state_merge_Self(v, self, gossip) ==
  [u \in DOMAIN v \cup DOMAIN gossip |->
     CASE u \notin DOMAIN v -> NewEntry(gossip[u])
       [] u \in DOMAIN v \cap DOMAIN gossip -> MergeEntry(v[u], gossip[u])
       [] OTHER -> v[u]]

\* Merging every gossip record.  A message carries one record per UUID (or
\* copies of it, and merging a copy again changes nothing), so the records
\* act on different entries and their order does not matter.
swim_state_merge(v, self, gossip) ==
  [u \in DOMAIN v \cup (DOMAIN gossip \ {self}) |->
     CASE u \notin DOMAIN v -> NewEntry(gossip[u])
       [] u \in DOMAIN v \cap (DOMAIN gossip \ {self}) ->
            MergeEntry(v[u], gossip[u])
       [] OTHER -> v[u]]

swim_cluster_refuted_dead(v, u) ==
  [v EXCEPT ![u].status = ALIVE, ![u].witness = NoAddr]

------------------------------------------------------------------------------
swim_node_copy(e, count) ==
  [status |-> e.status, incarnation |-> e.incarnation, age |-> e.age,
   addr |-> e.addr, count |-> count]

\* The gossip a message may carry: the whole view, or MAX_GOSSIP_SIZE random
\* picks with repetition when the view is that large
swim_fill_gossip(v) ==
  IF Cardinality(DOMAIN v) < MAX_GOSSIP_SIZE
  THEN {[u \in DOMAIN v |-> swim_node_copy(v[u], 1)]}
  ELSE {[u \in {pick[i] : i \in 1..MAX_GOSSIP_SIZE} |->
           swim_node_copy(v[u],
                          Cardinality({i \in 1..MAX_GOSSIP_SIZE : pick[i] = u}))]
          : pick \in [1..MAX_GOSSIP_SIZE -> DOMAIN v]}

==============================================================================
