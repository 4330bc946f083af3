---------------------------- MODULE ProbeSchedule ----------------------------
(***************************************************************************)
(* The probe schedule of one process: struct ProbeSchedule (swim/state.h)  *)
(* and swim_probe_shuffle, swim_probe_next and swim_probe_invalidate       *)
(* (swim/state.c), with the operations on the view that disturb it.        *)
(*                                                                         *)
(* The schedule holds indices into the sorted array swim->view, so members *)
(* are slots here; an insertion moves every slot behind it.  Module Swim   *)
(* abstracts the schedule to "some member that is not dead": what is lost  *)
(* there, the order of the probes, is what this module is about.           *)
(***************************************************************************)
EXTENDS Integers, Functions

CONSTANT MaxView    \* bound: members a view may have

ASSUME MaxViewAssumption == MaxView \in Nat

VARIABLES
  view_size,        \* swim->view_size
  dead,             \* slots whose status is SWIM_STATUS_DEAD
  order,            \* swim->probe.order
  pos,              \* swim->probe.pos
  size,             \* swim->probe.size
  target,           \* what the last call of swim_probe_next returned
  waited,           \* history: periods since a member was probed or came up
  since             \* history: periods since the round was last disturbed

vars == <<view_size, dead, order, pos, size, target, waited, since>>

Nobody == -1
Slots == 0..view_size-1

\* The history counters saturate where no property tells values apart
Count(k) == IF k < 2 * MaxView THEN k + 1 ELSE k

\* Every order of n indices.  FisherYates below is the loop that draws one.
Orders(n) == Bijection(0..n-1, 0..n-1)

TypeOK ==
  /\ view_size \in 0..MaxView
  /\ dead \in SUBSET Slots
  /\ pos \in 0..MaxView
  /\ size \in {0, view_size}
  /\ size > 0 => order \in Orders(size) /\ pos <= size
  /\ target \in {Nobody} \cup Slots
  /\ waited \in [Slots -> 0..2*MaxView]
  /\ since \in 0..2*MaxView

Init ==
  /\ view_size = 0 /\ dead = {}
  /\ order = [p \in {} |-> p] /\ pos = 0 /\ size = 0
  /\ target = Nobody
  /\ waited = [i \in {} |-> i] /\ since = 0

------------------------------------------------------------------------------
Swap(o, i, j) == [o EXCEPT ![i] = o[j], ![j] = o[i]]

\* Mutant: rand() % i, which never leaves an element where it is
Drawn_NeverStays(i) == 0..i-1

\* rand() % (i + 1)
Drawn(i) == 0..i

\* Arrays the loop of swim_probe_shuffle may hold after k iterations
FisherYates(n) ==
  LET after[k \in 0..n-1] ==
        IF k = 0 THEN {[p \in 0..n-1 |-> p]}
        ELSE {Swap(o, n-k, j) : o \in after[k-1], j \in Drawn(n-k)}
  IN  after[n-1]

\* The round is over, or the view has changed since it was drawn
Stale == pos >= size \/ size # view_size

\* Positions of o from first on whose member may be probed
Probeable(o, first) == {p \in first..view_size-1 : o[p] \notin dead}

\* A period passes: every live member but the one probed waits longer
Period(probed) ==
  /\ waited' = [i \in Slots |->
                  IF i = probed \/ i \in dead THEN 0 ELSE Count(waited[i])]
  /\ since' = Count(since)

\* Mutant: only the member whose turn it is is looked at
Advance_NoLoop(o, first) ==
  /\ pos' = first + 1
  /\ target' = IF o[first] \in dead THEN Nobody ELSE o[first]

\* Mutant: the loop starts one position late
Advance_SkipsOne(o, first) ==
  LET left == Probeable(o, first + 1)
  IN  IF left = {} THEN pos' = view_size /\ target' = Nobody
      ELSE \E p \in left : /\ \A q \in left : p <= q
                           /\ pos' = p + 1 /\ target' = o[p]

\* The while loop of swim_probe_next: past the dead to the next live member
Advance(o, first) ==
  LET left == Probeable(o, first)
  IN  IF left = {} THEN pos' = view_size /\ target' = Nobody
      ELSE \E p \in left : /\ \A q \in left : p <= q
                           /\ pos' = p + 1 /\ target' = o[p]

swim_probe_next ==
  /\ view_size > 0
  /\ \E o \in (IF Stale THEN Orders(view_size) ELSE {order}) :
       /\ order' = o
       /\ Advance(o, IF Stale THEN 0 ELSE pos)
  /\ size' = view_size
  /\ Period(target')
  /\ UNCHANGED <<view_size, dead>>

\* realloc fails in swim_probe_shuffle: the old schedule stays, nobody is
\* probed, and whatever was promised starts anew
ShuffleFails ==
  /\ view_size > 0
  /\ Stale
  /\ target' = Nobody
  /\ waited' = [i \in Slots |-> IF i \in dead THEN 0 ELSE Count(waited[i])]
  /\ since' = 0
  /\ UNCHANGED <<view_size, dead, order, pos, size>>

\* Mutant: the schedule survives a change of the view
swim_probe_invalidate_Forgotten == size' = size

swim_probe_invalidate == size' = 0

\* Where an insertion at slot k moves slot i
Moved(i, k) == IF i < k THEN i ELSE i + 1

\* A node that sorts to slot k is added, alive or dead
swim_state_add(k, isDead) ==
  /\ view_size < MaxView
  /\ view_size' = view_size + 1
  /\ dead' = {Moved(i, k) : i \in dead} \cup (IF isDead THEN {k} ELSE {})
  /\ waited' = [i \in 0..view_size |->
                  IF i = k THEN 0 ELSE waited[IF i < k THEN i ELSE i - 1]]
  /\ swim_probe_invalidate
  /\ since' = 0
  /\ target' = Nobody    \* the slots it spoke of have moved
  /\ UNCHANGED <<order, pos>>

\* A node leaves
swim_state_del(i) ==
  /\ dead' = dead \cup {i}
  /\ waited' = [waited EXCEPT ![i] = 0]
  /\ swim_probe_invalidate
  /\ since' = 0
  /\ UNCHANGED <<view_size, order, pos, target>>

\* swim_cluster_declare_dead, or gossip that says so
Die(i) ==
  /\ dead' = dead \cup {i}
  /\ waited' = [waited EXCEPT ![i] = 0]
  /\ UNCHANGED <<view_size, order, pos, size, target, since>>

\* A newer incarnation in gossip or in a message from the node itself
Revive(i) ==
  /\ i \in dead
  /\ dead' = dead \ {i}
  /\ waited' = [waited EXCEPT ![i] = 0]
  /\ UNCHANGED <<view_size, order, pos, size, target, since>>

Next ==
  \/ swim_probe_next
  \/ ShuffleFails
  \/ \E k \in 0..view_size, d \in BOOLEAN : swim_state_add(k, d)
  \/ \E i \in Slots : swim_state_del(i)
  \/ \E i \in Slots : Die(i)
  \/ \E i \in Slots : Revive(i)

Spec == Init /\ [][Next]_vars

------------------------------------------------------------------------------
\* The slots that the current round has not come to
Todo == IF size = view_size THEN {order[p] : p \in pos..size-1} ELSE {}

Rounds == INSTANCE ProbeRound WITH todo <- Todo

\* swim_probe_next implements rounds: with an index array, a position that
\* skips dead members and a size that a change of the view resets, it
\* returns every live member of a round once and never one twice.
RoundsOK == Rounds!Spec

\* The guarantee of the comment on struct ProbeSchedule (swim/state.h:11), on
\* an undisturbed view of N members: successive probes of a member that stays
\* alive are at most 2N-1 periods apart.  A longer wait is only seen in the
\* first round after the view changed or a shuffle failed.
ProbedInTime ==
  \A i \in Slots \ dead : waited[i] > 2 * view_size - 2 => since < view_size

\* The loop of swim_probe_shuffle (swim/state.c:378) draws every order of the
\* view, and nothing else: what swim_probe_next takes for granted.
ShuffleIsFair ==
  view_size > 0 => FisherYates(view_size) = Orders(view_size)

\* The same guarantee without the condition, as the comment states it: "This
\* guarantees that successive probes of the same node are at most 2N-1
\* periods apart".
AlwaysProbedInTime ==
  \A i \in Slots \ dead : waited[i] <= 2 * view_size - 2

\* The comment on swim_probe_next (swim/state.c:391): it returns "-1 if no
\* probeable node exists".
NobodyMeansNobody ==
  [][swim_probe_next /\ target' = Nobody => Slots \subseteq dead]_vars
==============================================================================
