------------------------------ MODULE ViewArray ------------------------------
(***************************************************************************)
(* The array behind the view of a process (swim/state.c): a block of slots *)
(* of which the first view_size are in use, sorted by UUID, searched with  *)
(* bsearch, sorted anew after every addition and doubled when it is full.  *)
(* Functions hand out pointers into it; a pointer is the number of a slot, *)
(* and NULL is 0.                                                          *)
(***************************************************************************)
EXTENDS Integers, Sequences, Functions

CONSTANTS
  Node, Addr, NoAddr, SuspectAfter, DeadAfter, MAX_GOSSIP_SIZE, Cleared,
  Self,    \* swim->uuid
  Infos    \* the entries that messages speak of

VARIABLES
  view,        \* the slots, used or not
  view_size,   \* how many are in use
  crashed,     \* NULL has been dereferenced
  asked        \* history: for whom a PING_REQ has come, and from where

vars == <<view, view_size, crashed, asked>>

NULL == 0
capacity == Len(view)
Used == 1..view_size

\* The map the first n slots of array a stand for
MapOf(a, n) ==
  [u \in {a[i].uuid : i \in 1..n} |->
     a[CHOOSE i \in 1..n : a[i].uuid = u].entry]

Members == MapOf(view, view_size)

Map == INSTANCE ViewMap WITH members <- Members

ASSUME ArrayAssumption ==
  /\ Node \subseteq Nat \ {0} /\ Self \in Node /\ NoAddr \notin Addr
  /\ DeadAfter \in Nat /\ Cleared \in Nat \ {0}
  /\ Infos \subseteq [status : Map!Status, incarnation : Nat, age : Map!Age,
                      addr : Addr, witness : {NoAddr}]

Slot == [uuid : Nat, entry : Map!Entry]

\* A slot of cleared memory, or of memory that holds anything: swim_state_add
\* overwrites all of it but the witness
Blank(addr, w) ==
  [uuid |-> 0,
   entry |-> [status |-> Map!UNKNOWN, incarnation |-> 0, age |-> 0,
              addr |-> addr, witness |-> w]]

TypeOK ==
  /\ view \in Seq(Slot)
  /\ view_size \in 0..Len(view)
  /\ crashed \in BOOLEAN
  /\ asked \subseteq Node \X Addr

\* swim_state_init: the array is cleared
Init ==
  /\ \E addr \in Addr : view = [i \in 1..Cleared |-> Blank(addr, NoAddr)]
  /\ view_size = 0
  /\ crashed = FALSE
  /\ asked = {}

------------------------------------------------------------------------------
\* Comparison with node_compare: strictly ascending UUIDs
Ascending(a, n) == \A i, j \in 1..n : i < j => a[i].uuid < a[j].uuid

\* What bsearch may return: a slot with the key if there is one, but an array
\* that is out of order may hide it
bsearch(a, n, u) ==
  LET found == {i \in 1..n : a[i].uuid = u}
  IN  IF found # {} /\ Ascending(a, n) THEN found ELSE found \cup {NULL}

swim_state_get_node(u) == bsearch(view, view_size, u)

\* Mutants: the array is left as it is; the witnesses stay where they are
qsort_Forgotten(a, n) == {a}
qsort_InfoOnly(a, n) ==
  {b \in {[i \in DOMAIN a |->
             IF i \in 1..n
             THEN [a[p[i]] EXCEPT !.entry.witness = a[i].entry.witness]
             ELSE a[i]] : p \in Bijection(1..n, 1..n)} : Ascending(b, n)}

\* The rearrangements of the first n slots that are in order
qsort(a, n) ==
  {b \in {[i \in DOMAIN a |-> IF i \in 1..n THEN a[p[i]] ELSE a[i]] :
            p \in Bijection(1..n, 1..n)} : Ascending(b, n)}

Full == view_size >= capacity

\* realloc to twice the size keeps the slots and does not clear the new ones
Grown ==
  IF Full
  THEN {view \o more : more \in [1..capacity -> {Blank(a, w) :
          a \in Addr, w \in Addr \cup {NoAddr}}]}
  ELSE {view}

\* The info is copied into the slot, the witness is not touched
Filled(a, n, u, info) ==
  [a EXCEPT ![n] = [uuid |-> u,
                    entry |-> [info EXCEPT !.witness = a[n].entry.witness]]]

\* Mutant: the slot is counted before it is known to exist
swim_state_add_CountedFirst(u, info) ==
  LET n == view_size + 1
  IN  {[view |-> b, size |-> n, node |-> n] :
         b \in UNION {qsort(Filled(a, n, u, info), n) : a \in Grown}}
      \cup {r \in {[view |-> view, size |-> n, node |-> NULL]} : Full}

\* The array after the addition, the size, and the pointer that is returned:
\* to the slot that was filled before the sort.  If realloc fails, NULL.
swim_state_add(u, info) ==
  LET n == view_size + 1
  IN  {[view |-> b, size |-> n, node |-> n] :
         b \in UNION {qsort(Filled(a, n, u, info), n) : a \in Grown}}
      \cup {r \in {[view |-> view, size |-> view_size, node |-> NULL]} : Full}

------------------------------------------------------------------------------
\* The uses of the array

SetEntry(a, i, e) == [a EXCEPT ![i].entry = e]

\* The status switch of swim_process_ack on the slot it has a pointer to
Refute(a, i) ==
  IF a[i].entry.status \in {Map!SUSPECT, Map!UNKNOWN}
  THEN SetEntry(a, i, [a[i].entry EXCEPT !.status = Map!ALIVE,
                                         !.witness = NoAddr])
  ELSE a

\* swim_process_ack up to the gossip: it uses what swim_state_add returns; the
\* info is that of swim_node_init
AckNode(u, info) ==
  /\ ~crashed /\ u # Self
  /\ info.status = Map!UNKNOWN /\ info.incarnation = 0
  /\ \E i \in swim_state_get_node(u) :
       IF i # NULL
       THEN view' = Refute(view, i) /\ UNCHANGED <<view_size, crashed>>
       ELSE \E r \in swim_state_add(u, info) :
              IF r.node = NULL
              THEN crashed' = TRUE /\ UNCHANGED <<view, view_size>>
              ELSE /\ view' = Refute(r.view, r.node)
                   /\ view_size' = r.size
                   /\ UNCHANGED crashed
  /\ UNCHANGED asked

\* swim_process_join and, for an unknown node, swim_state_merge: a node that
\* is not found is added, and what swim_state_add returns is ignored.  Both
\* assert that the status is not UNKNOWN.
AddNode(u, info) ==
  /\ ~crashed /\ u # Self
  /\ info.status # Map!UNKNOWN
  /\ NULL \in swim_state_get_node(u)
  /\ \E r \in swim_state_add(u, info) : view' = r.view /\ view_size' = r.size
  /\ UNCHANGED <<crashed, asked>>

\* The slots in which a function that changes an entry may find it
Found(u) == {i \in swim_state_get_node(u) \ {NULL} : ~crashed /\ u # Self}

Update(i, e) == view' = SetEntry(view, i, e) /\ UNCHANGED <<view_size, crashed>>

swim_state_suspect(u, addr) ==
  /\ \E i \in Found(u) :
       Update(i, [view[i].entry EXCEPT !.status = Map!SUSPECT, !.witness = addr])
  /\ asked' = asked \cup {<<u, addr>>}

\* A process whose assertion fails is gone
swim_state_notice(u, info) ==
  /\ Map!NoticeAsserts(Members, u)
  /\ \E i \in Found(u) :
       Update(i, Map!NoticeEntry(view[i].entry, info.age, info.incarnation))
  /\ UNCHANGED asked

swim_state_merge(u, info) ==
  /\ info.status # Map!UNKNOWN
  /\ \E i \in Found(u) : Update(i, Map!MergeEntry(view[i].entry, info))
  /\ UNCHANGED asked

swim_state_del(u) ==
  /\ \E i \in Found(u) : Update(i, [view[i].entry EXCEPT !.status = Map!DEAD])
  /\ UNCHANGED asked

Next == \E u \in Node :
  \/ \E info \in Infos :
       \/ AckNode(u, info) \/ AddNode(u, info)
       \/ swim_state_notice(u, info) \/ swim_state_merge(u, info)
  \/ \E addr \in Addr : swim_state_suspect(u, addr)
  \/ swim_state_del(u)

Spec == Init /\ [][Next]_vars

------------------------------------------------------------------------------
\* After every addition, in whatever order the nodes come and however often
\* the array has grown, the slots in use are sorted and no UUID has two: what
\* bsearch needs, and the assertion in swim_state_add that the node is new.
ViewSorted == Ascending(view, view_size) /\ \A i \in Used : view[i].uuid # Self

\* The array implements the map of module SwimState, as far as ViewMap
\* promises it: pointers into the array, handed out before a sort or not, hit
\* the entry the map operation changes.
MapOK == Map!Spec

\* As long as the first array has room, a witness belongs to the entry it is
\* found in: that very address has sent a PING_REQ for that very UUID, although
\* every addition moves the slots (swim_state_suspect, swim_state_add).
WitnessWasAsked ==
  view_size <= Cleared =>
    \A i \in Used : LET w == view[i].entry.witness
                    IN  w # NoAddr => <<view[i].uuid, w>> \in asked

------------------------------------------------------------------------------
\* What the comments of the code say and the code does not do

\* The witness "is set when a PING_REQ is sent" (swim/node.h:53), and by
\* nothing else, however many members there are.
WitnessAlwaysAsked ==
  \A i \in Used : LET w == view[i].entry.witness
                  IN  w # NoAddr => <<view[i].uuid, w>> \in asked

\* "If the node did not exist, we add it with the sender address"
\* (swim/process.c:121): swim_process_ack goes on with the node it added.
AckAddsNode == ~crashed
==============================================================================
