----------------------------- MODULE ProbeProofs -----------------------------
(***************************************************************************)
(* For every size of the view: the schedule implements the rounds of       *)
(* ProbeRound, ProbedInTime, and ShuffleIsFair.                            *)
(*                                                                         *)
(* ProbedInTime says nothing of where in the round a member stands, which  *)
(* is what its wait depends on.  GapInv does: a member behind the position *)
(* has waited for fewer periods than positions went by since its own, a    *)
(* member ahead of it for that and for what was left of the last round.    *)
(*                                                                         *)
(* ShuffleIsFair is an induction over the iterations of the loop: after k  *)
(* of them every array is an order, and every order has its last k slots   *)
(* in one of these arrays; after n - 1 it is that array.                   *)
(***************************************************************************)
EXTENDS ProbeSchedule, SetInduction

\* Undisturbed: the round under way, or just over, was drawn for this view
\* and at least one period has passed since
GapInv ==
  /\ TypeOK
  /\ size = 0 => since = 0
  /\ since = 0 => pos >= size
  /\ size = view_size =>
       \A p \in 0..size-1 : order[p] \notin dead =>
         /\ p < pos => since = 0 \/ waited[order[p]] < pos - p
         /\ p >= pos => waited[order[p]] < size + pos \/ since <= pos

------------------------------------------------------------------------------
\* An order holds every slot, each once.
LEMMA OrderFacts ==
  ASSUME NEW n \in Nat, NEW o \in Orders(n)
  PROVE  /\ o \in [0..n-1 -> 0..n-1]
         /\ \A i \in 0..n-1 : \E p \in 0..n-1 : o[p] = i
         /\ \A p, q \in 0..n-1 : o[p] = o[q] => p = q
  BY DEF Orders, Bijection, Injection, Surjection, IsInjective

\* The history counters count by one, or stay at the bound.
LEMMA CountFacts ==
  ASSUME NEW k \in 0..2*MaxView
  PROVE  /\ Count(k) \in 0..2*MaxView
         /\ Count(k) <= k + 1
         /\ MaxView > 0 /\ k = 0 => Count(k) = 1
         /\ MaxView > 0 => Count(k) > 0
  BY MaxViewAssumption DEF Count

\* What a call of swim_probe_next does to the position.
LEMMA AdvanceFacts ==
  ASSUME TypeOK, view_size > 0,
         NEW o \in Orders(view_size), NEW first \in 0..view_size-1,
         Advance(o, first)
  PROVE  /\ pos' \in first+1..view_size
         /\ \/ /\ target' = Nobody
               /\ pos' = view_size
               /\ \A p \in first..view_size-1 : o[p] \in dead
            \/ \E last \in first..view_size-1 :
                 /\ pos' = last + 1
                 /\ target' = o[last] /\ target' \in Slots \ dead
                 /\ \A p \in first..last-1 : o[p] \in dead
<1> DEFINE left == Probeable(o, first)
<1>1. left \subseteq first..view_size-1
  BY DEF Probeable
<1>2. \A p \in first..view_size-1 : p \in left <=> o[p] \notin dead
  BY DEF Probeable
<1>3. view_size \in Nat
  BY MaxViewAssumption DEF TypeOK
<1>4. o \in [0..view_size-1 -> 0..view_size-1]
  BY <1>3, OrderFacts
<1>5. CASE left = {}
  <2>1. pos' = view_size /\ target' = Nobody
    BY <1>5 DEF Advance
  <2>2. QED
    BY <2>1, <1>2, <1>3, <1>5
<1>6. CASE left # {}
  <2>1. PICK p \in left : /\ \A q \in left : p <= q
                          /\ pos' = p + 1 /\ target' = o[p]
    BY <1>6 DEF Advance
  <2>2. p \in first..view_size-1 /\ o[p] \notin dead
    BY <2>1, <1>1, <1>2
  <2>3. \A q \in first..p-1 : o[q] \in dead
    BY <2>1, <2>2, <1>2, <1>3
  <2> HIDE DEF left
  <2>4. QED
    BY <2>1, <2>2, <2>3, <1>3, <1>4 DEF Slots
<1>7. QED
  BY <1>5, <1>6

\* GapInv is what ProbedInTime rests on.
LEMMA GapInvImplies == GapInv => ProbedInTime
<1> SUFFICES ASSUME GapInv, NEW i \in Slots \ dead,
                    waited[i] > 2 * view_size - 2
             PROVE  since < view_size
  BY DEF ProbedInTime
<1>1. view_size \in Nat /\ view_size > 0 /\ i \in 0..view_size-1
  BY MaxViewAssumption DEF GapInv, TypeOK, Slots
<1>2. waited[i] \in Nat /\ since \in Nat /\ pos \in Nat
  BY MaxViewAssumption DEF GapInv, TypeOK, Slots
<1>3. CASE size # view_size
  BY <1>1, <1>3 DEF GapInv, TypeOK
<1>4. CASE size = view_size
  <2>1. order \in Orders(view_size)
    BY <1>1, <1>4 DEF GapInv, TypeOK
  <2>2. PICK p \in 0..view_size-1 : order[p] = i
    BY <1>1, <2>1, OrderFacts
  <2>3. /\ p < pos => since = 0 \/ waited[i] < pos - p
        /\ p >= pos => waited[i] < size + pos \/ since <= pos
    BY <1>4, <2>2 DEF GapInv
  <2>4. pos <= view_size
    BY <1>1, <1>4 DEF GapInv, TypeOK
  <2>5. QED
    BY <1>1, <1>2, <1>4, <2>3, <2>4
<1>5. QED
  BY <1>3, <1>4

------------------------------------------------------------------------------
\* One step of swim_probe_next, by what it has to do with the members' waits.
LEMMA NextGap ==
  ASSUME GapInv, swim_probe_next
  PROVE  GapInv'
<1>1. /\ view_size \in Nat /\ view_size > 0 /\ view_size <= MaxView
      /\ pos \in Nat /\ since \in 0..2*MaxView
      /\ waited \in [Slots -> 0..2*MaxView]
      /\ dead \subseteq Slots
      /\ MaxView \in Nat /\ MaxView > 0
  BY MaxViewAssumption DEF GapInv, TypeOK, swim_probe_next, Slots
<1>2. PICK o \in (IF Stale THEN Orders(view_size) ELSE {order}) :
        order' = o /\ Advance(o, IF Stale THEN 0 ELSE pos)
  BY DEF swim_probe_next
<1> DEFINE first == IF Stale THEN 0 ELSE pos
<1>3. o \in Orders(view_size) /\ first \in 0..view_size-1
  <2>1. CASE Stale
    BY <2>1, <1>1, <1>2
  <2>2. CASE ~Stale
    BY <2>2, <1>1, <1>2 DEF Stale, GapInv, TypeOK
  <2>3. QED
    BY <2>1, <2>2
<1>4. /\ o \in [Slots -> Slots]
      /\ \A p, q \in Slots : o[p] = o[q] => p = q
  BY <1>1, <1>3, OrderFacts DEF Slots
<1>5. Advance(o, first)
  BY <1>2
<1> HIDE DEF first
<1>6. /\ pos' \in first+1..view_size
      /\ \/ /\ target' = Nobody
            /\ pos' = view_size
            /\ \A p \in first..view_size-1 : o[p] \in dead
         \/ \E last \in first..view_size-1 :
              /\ pos' = last + 1
              /\ target' = o[last] /\ target' \in Slots \ dead
              /\ \A p \in first..last-1 : o[p] \in dead
  BY <1>1, <1>3, <1>5, AdvanceFacts DEF GapInv
<1>61. /\ view_size \in Nat /\ pos \in Nat /\ since \in Nat
       /\ pos' \in Nat /\ first \in Nat /\ pos' > first /\ pos' <= view_size
  BY <1>1, <1>3, <1>6
<1>7. /\ size' = view_size /\ view_size' = view_size /\ dead' = dead
      /\ Slots' = Slots /\ since' = Count(since)
      /\ waited' = [i \in Slots |->
             IF i = target' \/ i \in dead THEN 0 ELSE Count(waited[i])]
  BY DEF swim_probe_next, Period, Slots
<1>8. waited' \in [Slots -> 0..2*MaxView] /\ since' \in 0..2*MaxView
  BY <1>1, <1>7, CountFacts
<1>9. TypeOK'
  <2>1. pos' \in 0..MaxView /\ pos' <= size' /\ size' \in {0, view_size'}
    BY <1>1, <1>3, <1>6, <1>7
  <2>2. target' \in {Nobody'} \cup Slots'
    BY <1>6, <1>7 DEF Nobody
  <2>3. order' \in Orders(size')
    BY <1>2, <1>3, <1>7
  <2>4. Orders(size)' = Orders(size')
    BY DEF Orders
  <2>5. QED
    BY <1>1, <1>7, <1>8, <2>1, <2>2, <2>3, <2>4 DEF TypeOK
<1>10. since' > 0 /\ since' <= since + 1 /\ (since = 0 => since' = 1)
  BY <1>1, <1>7, CountFacts
<1>11. ASSUME NEW p \in Slots, o[p] \notin dead
       PROVE  /\ p < pos' => waited'[o[p]] < pos' - p
              /\ p >= pos' =>
                   waited'[o[p]] < view_size + pos' \/ since' <= pos'
  <2>0. p \in Nat /\ p < view_size
    BY <1>1 DEF Slots
  <2>1. PICK i \in Slots : i = o[p] /\ i \notin dead
    BY <1>4, <1>11
  <2>2. waited[i] \in Nat /\ waited'[i] \in Nat /\ waited'[i] <= waited[i] + 1
    <3>1. waited[i] \in 0..2*MaxView /\ waited'[i] \in 0..2*MaxView
      BY <1>1, <1>8
    <3>2. waited'[i] = 0 \/ waited'[i] = Count(waited[i])
      BY <1>7
    <3>3. Count(waited[i]) <= waited[i] + 1
      BY <3>1, CountFacts
    <3>4. QED
      BY <3>1, <3>2, <3>3, <1>1
  <2>3. ASSUME p < pos' PROVE waited'[i] < pos' - p
    <3>1. CASE p < first
      <4>1. ~Stale /\ first = pos
        BY <1>1, <2>0, <2>1, <3>1 DEF first, Slots
      <4>2. size = view_size /\ order = o /\ since # 0
        BY <1>2, <4>1, <1>1 DEF Stale, GapInv, TypeOK
      <4>3. waited[i] < pos - p
        BY <1>1, <2>0, <2>1, <3>1, <4>1, <4>2 DEF GapInv, Slots
      <4>4. QED
        BY <4>1, <4>3, <1>61, <2>0, <2>2
    <3>2. CASE p >= first
      <4>1. p \in first..view_size-1
        BY <1>61, <2>0, <3>2
      <4>2. PICK last \in first..view_size-1 :
              /\ pos' = last + 1 /\ target' = o[last]
              /\ \A q \in first..last-1 : o[q] \in dead
        BY <1>6, <2>1, <4>1
      <4>3. p = last
        <5>1. p <= last
          BY <1>61, <2>0, <2>3, <4>2
        <5>2. p < last => p \in first..last-1
          BY <1>61, <2>0, <3>2
        <5>3. QED
          BY <1>61, <2>0, <2>1, <4>2, <5>1, <5>2
      <4>4. waited'[i] = 0
        BY <1>7, <2>1, <4>2, <4>3
      <4>5. QED
        BY <1>61, <2>0, <4>2, <4>3, <4>4
    <3>3. QED
      BY <3>1, <3>2, <1>1, <1>3, <2>1 DEF Slots
  <2>4. ASSUME p >= pos'
        PROVE  waited'[i] < view_size + pos' \/ since' <= pos'
    <3>1. CASE ~Stale
      <4>1. size = view_size /\ order = o /\ first = pos /\ p >= pos
        BY <1>1, <1>2, <1>6, <1>61, <2>0, <2>1, <2>4, <3>1 DEF Stale, first, Slots
      <4>2. waited[i] < size + pos \/ since <= pos
        BY <1>1, <2>0, <2>1, <4>1 DEF GapInv, Slots
      <4>3. QED
        <5>1. since' \in Nat
          BY <1>1, <1>8
        <5>2. QED
          BY <1>61, <1>10, <2>2, <4>1, <4>2, <5>1
    <3>2. CASE Stale
      <4>1. CASE since = 0
        BY <1>1, <1>3, <1>6, <1>61, <1>10, <4>1
      <4>2. CASE since # 0
        <5>1. size = view_size /\ pos = size
          BY <1>1, <3>2, <4>2 DEF GapInv, TypeOK, Stale
        <5>2. order \in Orders(view_size)
          BY <1>1, <5>1 DEF GapInv, TypeOK
        <5>21. i \in 0..view_size-1
          BY DEF Slots
        <5>3. PICK q \in 0..view_size-1 : order[q] = i
          BY <1>61, <5>2, <5>21, OrderFacts
        <5>4. waited[i] < pos - q
          BY <1>1, <2>0, <2>1, <4>2, <5>1, <5>3 DEF GapInv
        <5>5. QED
          <6>1. q \in Nat /\ waited[i] < view_size
            BY <1>61, <2>2, <5>1, <5>3, <5>4
          <6>2. QED
            BY <1>61, <2>2, <6>1
      <4>3. QED
        BY <4>1, <4>2
    <3>3. QED
      BY <3>1, <3>2
  <2>5. QED
    BY <2>1, <2>3, <2>4
<1>12. \A p \in 0..size'-1 : p \in Slots /\ order'[p] = o[p]
  BY <1>2, <1>7 DEF Slots
<1>13. QED
  BY <1>1, <1>7, <1>9, <1>10, <1>11, <1>12 DEF GapInv

\* GapInv is inductive.
LEMMA GapInvInductive == GapInv /\ [Next]_vars => GapInv'
<1> SUFFICES ASSUME GapInv, [Next]_vars PROVE GapInv'
  OBVIOUS
<1>0. /\ view_size \in Nat /\ view_size <= MaxView
      /\ pos \in Nat /\ since \in 0..2*MaxView
      /\ waited \in [Slots -> 0..2*MaxView]
      /\ dead \subseteq Slots
      /\ MaxView \in Nat
  BY MaxViewAssumption DEF GapInv, TypeOK, Slots
<1>1. CASE swim_probe_next
  BY <1>1, NextGap
<1>2. CASE ShuffleFails
  <2>1. /\ UNCHANGED <<view_size, dead, order, pos, size>> /\ since' = 0
        /\ target' = Nobody /\ Slots' = Slots /\ pos >= size
        /\ waited' = [i \in Slots |->
                        IF i \in dead THEN 0 ELSE Count(waited[i])]
    BY <1>0, <1>2 DEF ShuffleFails, Slots, Stale, GapInv, TypeOK
  <2>2. waited' \in [Slots -> 0..2*MaxView]
    BY <1>0, <2>1, CountFacts
  <2>3. TypeOK'
    BY <1>0, <2>1, <2>2 DEF GapInv, TypeOK, Orders
  <2>4. \A p \in 0..size-1 : ~(p >= pos)
    BY <1>0, <2>1 DEF GapInv, TypeOK
  <2>5. QED
    BY <2>1, <2>3, <2>4 DEF GapInv
<1>3. ASSUME NEW k \in 0..view_size, NEW d \in BOOLEAN, swim_state_add(k, d)
      PROVE  GapInv'
  <2>1. /\ view_size' = view_size + 1 /\ view_size < MaxView
        /\ size' = 0 /\ since' = 0 /\ pos' = pos /\ target' = Nobody
        /\ Slots' = 0..view_size
    BY <1>0, <1>3 DEF swim_state_add, swim_probe_invalidate, Slots
  <2>2. dead' \subseteq 0..view_size
    BY <1>0, <1>3 DEF swim_state_add, Moved, Slots
  <2>3. waited' \in [0..view_size -> 0..2*MaxView]
    BY <1>0, <1>3 DEF swim_state_add, Slots
  <2>4. TypeOK'
    BY <1>0, <2>1, <2>2, <2>3 DEF GapInv, TypeOK, Nobody
  <2>5. QED
    BY <1>0, <2>1, <2>4 DEF GapInv
<1>4. ASSUME NEW i \in Slots, swim_state_del(i)
      PROVE  GapInv'
  <2>1. /\ UNCHANGED <<view_size, order, pos, target>> /\ Slots' = Slots
        /\ size' = 0 /\ since' = 0
        /\ dead' = dead \cup {i} /\ waited' = [waited EXCEPT ![i] = 0]
    BY <1>4 DEF swim_state_del, swim_probe_invalidate, Slots
  <2>2. waited' \in [Slots -> 0..2*MaxView]
    BY <1>0, <2>1
  <2>3. TypeOK'
    BY <1>0, <2>1, <2>2 DEF GapInv, TypeOK, Nobody
  <2>4. view_size > 0
    BY <1>0 DEF Slots
  <2>5. QED
    BY <1>0, <2>1, <2>3, <2>4 DEF GapInv
<1>5. ASSUME NEW i \in Slots, Die(i)
      PROVE  GapInv'
  <2>1. /\ UNCHANGED <<view_size, order, pos, size, target, since>>
        /\ Slots' = Slots
        /\ dead' = dead \cup {i} /\ waited' = [waited EXCEPT ![i] = 0]
    BY <1>5 DEF Die, Slots
  <2>2. waited' \in [Slots -> 0..2*MaxView]
    BY <1>0, <2>1
  <2>3. TypeOK'
    BY <1>0, <2>1, <2>2 DEF GapInv, TypeOK, Nobody, Orders
  <2>4. \A j \in Slots : j \notin dead' => j \notin dead /\ waited'[j] = waited[j]
    BY <1>0, <2>1
  <2>5. QED
    BY <1>0, <2>1, <2>3, <2>4 DEF GapInv
<1>6. ASSUME NEW i \in Slots, Revive(i)
      PROVE  GapInv'
  <2>1. /\ UNCHANGED <<view_size, order, pos, size, target, since>>
        /\ Slots' = Slots
        /\ dead' = dead \ {i} /\ waited' = [waited EXCEPT ![i] = 0]
    BY <1>6 DEF Revive, Slots
  <2>2. waited' \in [Slots -> 0..2*MaxView]
    BY <1>0, <2>1
  <2>3. TypeOK'
    BY <1>0, <2>1, <2>2 DEF GapInv, TypeOK, Nobody, Orders
  <2>4. \A j \in Slots : j \notin dead' =>
          \/ j \notin dead /\ waited'[j] = waited[j]
          \/ waited'[j] = 0
    BY <1>0, <2>1
  <2>5. QED
    BY <1>0, <2>1, <2>3, <2>4 DEF GapInv
<1>7. CASE UNCHANGED vars
  BY <1>7 DEF vars, GapInv, TypeOK, Slots, Orders, Nobody
<1>8. QED
  BY <1>1, <1>2, <1>3, <1>4, <1>5, <1>6, <1>7 DEF Next

LEMMA GapInvHolds == Spec => []GapInv
<1>1. Init => GapInv
  BY MaxViewAssumption DEF Init, GapInv, TypeOK, Slots, Nobody
<1>2. QED
  BY <1>1, GapInvInductive, PTL DEF Spec

\* The schedule stays a permutation of the view it was drawn for, or is void
\* (swim_probe_shuffle, swim_probe_invalidate).
THEOREM ScheduleType == Spec => []TypeOK
<1>1. GapInv => TypeOK
  BY DEF GapInv
<1>2. QED
  BY <1>1, GapInvHolds, PTL

\* On an undisturbed view of any size N, a member that stays alive is probed
\* at least every 2N-1 periods (swim_probe_next).
THEOREM ProbedInTimeHolds == Spec => []ProbedInTime
  BY GapInvHolds, GapInvImplies, PTL

------------------------------------------------------------------------------
\* The members a call of swim_probe_next goes through are what is left of the
\* abstract round, or a new one.
LEMMA RoundLeft ==
  ASSUME GapInv, view_size > 0,
         NEW o \in (IF Stale THEN Orders(view_size) ELSE {order})
  PROVE  Rounds!Round =
           {o[p] : p \in (IF Stale THEN 0 ELSE pos)..view_size-1}
<1>0. view_size \in Nat /\ pos \in Nat
  BY MaxViewAssumption DEF GapInv, TypeOK
<1>1. CASE Stale
  <2>1. Todo = {}
    BY <1>0, <1>1 DEF Stale, Todo
  <2>2. /\ o \in [0..view_size-1 -> 0..view_size-1]
         /\ \A i \in 0..view_size-1 : \E p \in 0..view_size-1 : o[p] = i
    BY <1>0, <1>1, OrderFacts
  <2>3. {o[p] : p \in 0..view_size-1} = 0..view_size-1
    BY <2>2
  <2>4. QED
    BY <1>1, <2>1, <2>3 DEF Rounds!Round
<1>2. CASE ~Stale
  <2>1. size = view_size /\ pos \in pos..view_size-1
    BY <1>0, <1>2 DEF Stale, GapInv, TypeOK
  <2>2. Todo = {order[p] : p \in pos..view_size-1} /\ Todo # {}
    BY <2>1 DEF Todo
  <2>3. QED
    BY <1>2, <2>2 DEF Rounds!Round
<1>3. QED
  BY <1>1, <1>2

\* Every step of the schedule is a step of a round, or changes nothing of it.
LEMMA StepRefines == GapInv /\ [Next]_vars => [Rounds!Next]_(Rounds!vars)
<1> SUFFICES ASSUME GapInv, [Next]_vars PROVE [Rounds!Next]_(Rounds!vars)
  OBVIOUS
<1>0. /\ view_size \in Nat /\ pos \in Nat /\ dead \subseteq Slots
      /\ Slots = 0..view_size-1
  BY MaxViewAssumption DEF GapInv, TypeOK, Slots
<1>1. CASE swim_probe_next
  <2>1. /\ view_size > 0 /\ size' = view_size
        /\ view_size' = view_size /\ dead' = dead
    BY <1>1 DEF swim_probe_next
  <2>2. PICK o \in (IF Stale THEN Orders(view_size) ELSE {order}) :
          order' = o /\ Advance(o, IF Stale THEN 0 ELSE pos)
    BY <1>1 DEF swim_probe_next
  <2> DEFINE first == IF Stale THEN 0 ELSE pos
  <2>3. o \in Orders(view_size) /\ first \in 0..view_size-1
    <3>1. CASE Stale
      BY <3>1, <1>0, <2>1, <2>2
    <3>2. CASE ~Stale
      BY <3>2, <1>0, <2>1, <2>2 DEF Stale, GapInv, TypeOK
    <3>3. QED
      BY <3>1, <3>2
  <2>4. Rounds!Round = {o[p] : p \in first..view_size-1}
    BY <2>1, <2>2, RoundLeft
  <2>5. Advance(o, first)
    BY <2>2
  <2> HIDE DEF first
  <2>6. /\ pos' \in first+1..view_size
        /\ \/ /\ target' = Nobody
              /\ pos' = view_size
              /\ \A p \in first..view_size-1 : o[p] \in dead
           \/ \E last \in first..view_size-1 :
                /\ pos' = last + 1
                /\ target' = o[last] /\ target' \in Slots \ dead
                /\ \A p \in first..last-1 : o[p] \in dead
    BY <2>1, <2>3, <2>5, AdvanceFacts DEF GapInv
  <2>7. Todo' = {o[p] : p \in pos'..view_size-1}
    BY <2>1, <2>2 DEF Todo
  <2>8. CASE target' = Nobody /\ pos' = view_size
             /\ \A p \in first..view_size-1 : o[p] \in dead
    <3>1. Todo' = {}
      BY <1>0, <2>7, <2>8
    <3>2. Rounds!Round \subseteq dead
      BY <2>4, <2>8
    <3>3. Rounds!EndRound
      BY <2>1, <2>8, <3>1, <3>2 DEF Rounds!EndRound, Rounds!Nobody, Nobody
    <3>4. QED
      BY <3>3 DEF Rounds!Next
  <2>9. ASSUME NEW last \in first..view_size-1,
               pos' = last + 1, target' = o[last], target' \in Slots \ dead,
               \A p \in first..last-1 : o[p] \in dead
        PROVE  [Rounds!Next]_(Rounds!vars)
    <3>0. /\ first \in Nat /\ last \in Nat /\ last < view_size
          /\ first <= last
      BY <1>0, <2>3
    <3>1. \A p, q \in 0..view_size-1 : o[p] = o[q] => p = q
      BY <1>0, <2>3, OrderFacts
    <3>2. \A p \in pos'..view_size-1 :
            p \in first..view_size-1 /\ p \in 0..view_size-1 /\ p # last
      BY <1>0, <2>9, <3>0
    <3>3. last \in 0..view_size-1
      BY <1>0, <3>0
    <3>4. Todo' \subseteq Rounds!Round \ {o[last]}
      BY <2>4, <2>7, <3>1, <3>2, <3>3
    <3>5. \A p \in first..view_size-1 :
            p \in first..last-1 \/ p = last \/ p \in pos'..view_size-1
      BY <1>0, <2>9, <3>0
    <3>6. Rounds!Round \ Todo' \subseteq dead \cup {o[last]}
      BY <2>4, <2>7, <2>9, <3>5
    <3>7. o[last] \in Rounds!Round \ dead
      BY <2>4, <2>9
    <3>8. Rounds!Probe(target')
      BY <2>1, <2>9, <3>4, <3>6, <3>7 DEF Rounds!Probe
    <3>9. target' \in 0..view_size-1
      BY <1>0, <2>9
    <3>10. QED
      BY <3>8, <3>9 DEF Rounds!Next
  <2>10. QED
    BY <2>6, <2>8, <2>9
<1>2. CASE ShuffleFails
  <2>1. Todo = {} /\ Todo' = Todo
    BY <1>0, <1>2 DEF ShuffleFails, Todo, Stale
  <2>2. Rounds!NoRound
    BY <1>2, <2>1 DEF ShuffleFails, Rounds!NoRound, Rounds!Nobody, Nobody
  <2>3. QED
    BY <2>2 DEF Rounds!Next
<1>3. ASSUME NEW k \in 0..view_size, NEW d \in BOOLEAN, swim_state_add(k, d)
      PROVE  [Rounds!Next]_(Rounds!vars)
  <2>1. /\ view_size' = view_size + 1 /\ size' = 0 /\ target' = Nobody
    BY <1>3 DEF swim_state_add, swim_probe_invalidate
  <2>2. dead' \subseteq 0..view_size'-1
    <3>1. dead' \subseteq 0..view_size
      BY <1>0, <1>3 DEF swim_state_add, Moved, Slots
    <3>2. 0..view_size'-1 = 0..view_size
      BY <1>0, <2>1
    <3>3. QED
      BY <3>1, <3>2
  <2>3. Todo' = {}
    BY <1>0, <2>1 DEF Todo
  <2>4. Rounds!Change
    BY <2>1, <2>2, <2>3 DEF Rounds!Change, Rounds!Nobody, Nobody
  <2>5. QED
    BY <2>4 DEF Rounds!Next
<1>4. ASSUME NEW i \in Slots, swim_state_del(i)
      PROVE  [Rounds!Next]_(Rounds!vars)
  <2>1. /\ view_size' = view_size /\ size' = 0 /\ target' = target
        /\ dead' = dead \cup {i}
    BY <1>4 DEF swim_state_del, swim_probe_invalidate
  <2>2. Todo' = {}
    BY <1>0, <2>1 DEF Todo
  <2>3. Rounds!Change
    BY <1>0, <2>1, <2>2 DEF Rounds!Change
  <2>4. QED
    BY <2>3 DEF Rounds!Next
<1>5. ASSUME NEW i \in Slots, Die(i) \/ Revive(i)
      PROVE  [Rounds!Next]_(Rounds!vars)
  <2>1. /\ UNCHANGED <<view_size, order, pos, size, target>>
        /\ dead' \subseteq Slots
    BY <1>0, <1>5 DEF Die, Revive
  <2>2. Todo' = Todo
    BY <2>1 DEF Todo
  <2>3. Rounds!StatusChange
    BY <1>0, <2>1, <2>2 DEF Rounds!StatusChange
  <2>4. QED
    BY <2>3 DEF Rounds!Next
<1>6. CASE UNCHANGED vars
  BY <1>6 DEF vars, Rounds!vars, Todo
<1>7. QED
  BY <1>1, <1>2, <1>3, <1>4, <1>5, <1>6 DEF Next

\* The array, the position and the size that swim_probe_next works with
\* implement rounds in which every live member is probed exactly once.
THEOREM RoundsImplemented == Spec => RoundsOK
<1>1. Init => Rounds!Init
  BY DEF Init, Rounds!Init, Rounds!Nobody, Nobody, Todo
<1>2. QED
  BY <1>1, GapInvHolds, StepRefines, PTL DEF Spec, RoundsOK, Rounds!Spec

------------------------------------------------------------------------------
(***************************************************************************)
(* The loop of swim_probe_shuffle.  That it draws nothing but orders is an *)
(* induction over its iterations.  That it draws them all is another one:  *)
(* whatever order is wanted, after k iterations the last k places can hold *)
(* what they hold in it, since what place n-k should hold has not been put *)
(* behind it and is therefore among the elements rand() chooses from.      *)
(***************************************************************************)
\* One iteration
Iteration(n, k, S) == {Swap(o, n - k, j) : o \in S, j \in Drawn(n - k)}

\* f[k] are the arrays after k of m iterations
Runs(n, m, f) ==
  f = [k \in 0..m |-> IF k = 0 THEN {[p \in 0..n-1 |-> p]}
                      ELSE Iteration(n, k, f[k - 1])]

\* The recursive function of FisherYates exists, for every number of
\* iterations.
LEMMA RunsExist ==
  ASSUME NEW n
  PROVE  \A m \in Nat : \E f : Runs(n, m, f)
<1> DEFINE T == {m \in Nat : \E f : Runs(n, m, f)}
           id == {[p \in 0..n-1 |-> p]}
<1>1. 0 \in T
  <2>1. Runs(n, 0, [k \in 0..0 |-> id])
    BY DEF Runs
  <2> QED
    BY <2>1
<1>2. ASSUME NEW m \in Nat, m \in T PROVE m + 1 \in T
  <2>1. PICK f : Runs(n, m, f)
    BY <1>2
  <2> HIDE DEF id
  <2> DEFINE g == [k \in 0..(m + 1) |-> IF k = m + 1 THEN Iteration(n, k, f[m])
                                        ELSE f[k]]
  <2>2. ASSUME NEW k \in 0..(m + 1)
        PROVE  g[k] = IF k = 0 THEN id ELSE Iteration(n, k, g[k - 1])
    <3>1. CASE k = m + 1
      <4>1. k # 0 /\ k - 1 = m /\ g[k] = Iteration(n, k, f[m]) /\ g[m] = f[m]
        BY <3>1
      <4> QED
        BY <4>1
    <3>2. CASE k # m + 1
      <4>1. /\ k \in 0..m /\ g[k] = f[k]
            /\ k # 0 => k - 1 \in 0..m /\ g[k - 1] = f[k - 1]
        BY <3>2
      <4>2. f[k] = IF k = 0 THEN id ELSE Iteration(n, k, f[k - 1])
        BY <2>1, <4>1 DEF Runs, id
      <4> QED
        BY <4>1, <4>2
    <3> QED
      BY <3>1, <3>2
  <2>3. g = [k \in 0..(m + 1) |-> g[k]]
    OBVIOUS
  <2> HIDE DEF g
  <2>4. Runs(n, m + 1, g)
    BY <2>2, <2>3 DEF Runs, id
  <2> QED
    BY <2>4
<1>3. \A m \in Nat : m \in T
  <2> HIDE DEF T
  <2> QED
    BY <1>1, <1>2, NatSetInduction
<1> QED
  BY <1>3

\* FisherYates iterates n - 1 times from the identity.
LEMMA FisherYatesRuns ==
  ASSUME NEW n \in Nat \ {0}
  PROVE  \E f : /\ FisherYates(n) = f[n - 1]
                /\ f[0] = {[p \in 0..n-1 |-> p]}
                /\ \A k \in 1..n-1 : f[k] = Iteration(n, k, f[k - 1])
<1> DEFINE f == CHOOSE h : Runs(n, n - 1, h)
<1>1. FisherYates(n) = f[n - 1]
  BY DEF FisherYates, Runs, Iteration
<1>2. Runs(n, n - 1, f)
  <2>1. n - 1 \in Nat
    OBVIOUS
  <2> QED
    BY <2>1, RunsExist
<1> HIDE DEF f
<1>3. \A k \in 0..n-1 : f[k] = IF k = 0 THEN {[p \in 0..n-1 |-> p]}
                               ELSE Iteration(n, k, f[k - 1])
  BY <1>2 DEF Runs
<1>4. 0 \in 0..n-1 /\ \A k \in 1..n-1 : k \in 0..n-1 /\ k # 0
  OBVIOUS
<1> QED
  BY <1>1, <1>3, <1>4, Zenon

\* An array that holds every slot once is an order.
LEMMA IsOrder ==
  ASSUME NEW n \in Nat, NEW o \in [0..n-1 -> 0..n-1],
         \A i \in 0..n-1 : \E p \in 0..n-1 : o[p] = i,
         \A p, q \in 0..n-1 : o[p] = o[q] => p = q
  PROVE  o \in Orders(n)
  BY DEF Orders, Bijection, Injection, Surjection, IsInjective

\* Swapping two places of an order gives an order.
LEMMA SwapOrder ==
  ASSUME NEW n \in Nat, NEW o \in Orders(n), NEW i \in 0..n-1, NEW j \in 0..n-1
  PROVE  /\ Swap(o, i, j) \in Orders(n)
         /\ Swap(o, i, j)[i] = o[j]
         /\ \A p \in 0..n-1 : p \notin {i, j} => Swap(o, i, j)[p] = o[p]
<1> DEFINE s == Swap(o, i, j)
<1>1. /\ o \in [0..n-1 -> 0..n-1]
      /\ \A v \in 0..n-1 : \E p \in 0..n-1 : o[p] = v
      /\ \A p, q \in 0..n-1 : o[p] = o[q] => p = q
  BY OrderFacts
<1>2. /\ s \in [0..n-1 -> 0..n-1] /\ s[i] = o[j] /\ s[j] = o[i]
      /\ \A p \in 0..n-1 : p \notin {i, j} => s[p] = o[p]
  BY <1>1 DEF Swap
<1> HIDE DEF s
<1>3. \A v \in 0..n-1 : \E p \in 0..n-1 : s[p] = v
  <2> SUFFICES ASSUME NEW v \in 0..n-1 PROVE \E p \in 0..n-1 : s[p] = v
    OBVIOUS
  <2>1. PICK p \in 0..n-1 : o[p] = v
    BY <1>1
  <2>2. s[p] = v \/ s[j] = v \/ s[i] = v
    BY <1>2, <2>1
  <2> QED
    BY <2>1, <2>2
<1>4. \A p, q \in 0..n-1 : s[p] = s[q] => p = q
  <2> DEFINE t(p) == IF p = i THEN j ELSE IF p = j THEN i ELSE p
  <2>1. \A p \in 0..n-1 : s[p] = o[t(p)] /\ t(p) \in 0..n-1
    BY <1>2
  <2>2. \A p, q \in 0..n-1 : t(p) = t(q) => p = q
    OBVIOUS
  <2> HIDE DEF t
  <2> SUFFICES ASSUME NEW p \in 0..n-1, NEW q \in 0..n-1, s[p] = s[q]
               PROVE  p = q
    OBVIOUS
  <2>3. o[t(p)] = o[t(q)] /\ t(p) \in 0..n-1 /\ t(q) \in 0..n-1
    BY <2>1
  <2>4. t(p) = t(q)
    BY <1>1, <2>3
  <2> QED
    BY <2>2, <2>4
<1>5. s \in Orders(n)
  BY <1>2, <1>3, <1>4, IsOrder
<1> QED
  BY <1>2, <1>5 DEF s

\* Two orders that agree from place 1 on are the same.
LEMMA OrdersAgree ==
  ASSUME NEW n \in Nat \ {0}, NEW o \in Orders(n), NEW w \in Orders(n),
         \A p \in 1..n-1 : o[p] = w[p]
  PROVE  o = w
<1>1. /\ o \in [0..n-1 -> 0..n-1] /\ w \in [0..n-1 -> 0..n-1]
      /\ \A v \in 0..n-1 : \E p \in 0..n-1 : o[p] = v
      /\ \A p, q \in 0..n-1 : w[p] = w[q] => p = q
  BY OrderFacts
<1>2. PICK p \in 0..n-1 : o[p] = w[0]
  <2>1. w[0] \in 0..n-1
    BY <1>1
  <2> QED
    BY <1>1, <2>1, Zenon
<1>3. p = 0
  BY <1>1, <1>2
<1>4. \A q \in 0..n-1 : o[q] = w[q]
  BY <1>2, <1>3
<1> QED
  BY <1>1, <1>4

\* The loop draws every order and nothing else, for every size of the view.
LEMMA ShuffleDrawsOrders ==
  ASSUME NEW n \in Nat \ {0}
  PROVE  FisherYates(n) = Orders(n)
<1>1. PICK f : /\ FisherYates(n) = f[n - 1]
               /\ f[0] = {[p \in 0..n-1 |-> p]}
               /\ \A k \in 1..n-1 : f[k] = Iteration(n, k, f[k - 1])
  BY FisherYatesRuns
<1> DEFINE T == {k \in Nat : k \in 0..n-1 =>
                   /\ f[k] \subseteq Orders(n)
                   /\ \A w \in Orders(n) : \E o \in f[k] :
                        \A p \in n-k..n-1 : o[p] = w[p]}
<1>2. 0 \in T
  <2>1. [p \in 0..n-1 |-> p] \in Orders(n)
    BY IsOrder
  <2>2. \A w \in Orders(n) : \A p \in n-0..n-1 : [q \in 0..n-1 |-> q][p] = w[p]
    OBVIOUS
  <2> QED
    BY <1>1, <2>1, <2>2
<1>3. ASSUME NEW m \in Nat, m \in T PROVE m + 1 \in T
  <2> SUFFICES ASSUME m + 1 \in 0..n-1
               PROVE  /\ f[m + 1] \subseteq Orders(n)
                      /\ \A w \in Orders(n) : \E o \in f[m + 1] :
                           \A p \in n-(m+1)..n-1 : o[p] = w[p]
    OBVIOUS
  <2> DEFINE i == n - (m + 1)
  <2>1. /\ m \in 0..n-1 /\ m + 1 \in 1..n-1 /\ m + 1 - 1 = m
        /\ i \in 0..n-1 /\ n - m = i + 1
    OBVIOUS
  <2>2. f[m + 1] = {Swap(o, i, j) : o \in f[m], j \in 0..i}
    BY <1>1, <2>1 DEF Iteration, Drawn
  <2>3. /\ f[m] \subseteq Orders(n)
        /\ \A w \in Orders(n) : \E o \in f[m] : \A p \in i+1..n-1 : o[p] = w[p]
    BY <1>3, <2>1
  <2> HIDE DEF i
  <2>4. \A j \in 0..i : j \in 0..n-1
    BY <2>1
  <2>5. f[m + 1] \subseteq Orders(n)
    BY <2>1, <2>2, <2>3, <2>4, SwapOrder
  <2>6. ASSUME NEW w \in Orders(n)
        PROVE  \E o \in f[m + 1] : \A p \in i..n-1 : o[p] = w[p]
    <3>1. PICK o \in f[m] : \A p \in i+1..n-1 : o[p] = w[p]
      BY <2>3
    <3>2. o \in Orders(n)
      BY <2>3
    <3>3. /\ w \in [0..n-1 -> 0..n-1]
          /\ \A p, q \in 0..n-1 : w[p] = w[q] => p = q
      BY OrderFacts
    <3>4. PICK j \in 0..n-1 : o[j] = w[i]
      <4>1. w[i] \in 0..n-1
        BY <2>1, <3>3
      <4> QED
        BY <3>2, <4>1, OrderFacts, Zenon
    <3>5. j \in 0..i
      BY <2>1, <3>1, <3>3, <3>4
    <3>6. /\ Swap(o, i, j)[i] = w[i]
          /\ \A p \in 0..n-1 : p \notin {i, j} => Swap(o, i, j)[p] = o[p]
      BY <2>1, <3>2, <3>4, SwapOrder
    <3>7. \A p \in i..n-1 : Swap(o, i, j)[p] = w[p]
      BY <2>1, <3>1, <3>5, <3>6
    <3>8. Swap(o, i, j) \in f[m + 1]
      BY <2>2, <3>5
    <3> QED
      BY <3>7, <3>8
  <2> QED
    BY <2>5, <2>6 DEF i
<1>4. \A k \in Nat : k \in T
  <2> HIDE DEF T
  <2> QED
    BY <1>2, <1>3, NatSetInduction
<1>5. /\ f[n - 1] \subseteq Orders(n)
      /\ \A w \in Orders(n) : \E o \in f[n - 1] : \A p \in 1..n-1 : o[p] = w[p]
  <2>1. n - 1 \in Nat /\ n - 1 \in 0..n-1 /\ n - (n - 1) = 1
    OBVIOUS
  <2>2. n - 1 \in T
    BY <1>4, <2>1
  <2> QED
    BY <2>1, <2>2
<1>6. \A w \in Orders(n) : w \in f[n - 1]
  BY <1>5, OrdersAgree
<1> QED
  BY <1>1, <1>5, <1>6

\* The shuffle gives swim_probe_next any order of the view and nothing else,
\* in every state of every schedule.
THEOREM ShuffleFair == Spec => []ShuffleIsFair
<1>1. TypeOK => ShuffleIsFair
  BY MaxViewAssumption, ShuffleDrawsOrders DEF TypeOK, ShuffleIsFair
<1>2. GapInv => TypeOK
  BY DEF GapInv
<1> QED
  BY <1>1, <1>2, GapInvHolds, PTL
==============================================================================
