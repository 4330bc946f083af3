----------------------------- MODULE SwimProofs ------------------------------
(***************************************************************************)
(* For every number of processes, every deployment and every bound: the    *)
(* type invariant of Swim and its safety properties IncarnationNeverAhead, *)
(* DeadIsSilent, NeverInOwnView, ViewAdvances and RefutationOutranks.      *)
(*                                                                         *)
(* None of the invariants is inductive alone.  A view is only as good as   *)
(* the gossip and the headers merged into it, and gossip is only as good   *)
(* as the view it was copied from, so IInv asks the same of both; and a    *)
(* LEAVE must carry the cleared leave_uuid, or swim_state_del would        *)
(* pronounce a member dead that was seen a moment ago.                     *)
(*                                                                         *)
(* The first half is about the view operators of SwimState.  A view is     *)
(* good with respect to the incarnations inc that the processes have       *)
(* reached when it is well typed, credits nobody with an incarnation not   *)
(* reached yet, and calls dead only what was last seen DeadAfter seconds   *)
(* ago.                                                                    *)
(***************************************************************************)
EXTENDS Swim, SetInduction, FiniteSetTheorems

GoodEntry(e, limit) ==
  /\ e \in Entry
  /\ e.incarnation <= limit
  /\ e.status = DEAD => e.age = DeadAfter

GoodInfo(i, limit) ==
  /\ i \in Info
  /\ i.incarnation <= limit
  /\ i.status = DEAD => i.age = DeadAfter

GoodView(v, inc) ==
  IsView(v) /\ \A u \in DOMAIN v : GoodEntry(v[u], inc[u])

GoodGossip(g, inc) ==
  IsGossip(g) /\ \A u \in DOMAIN g : GoodInfo(g[u], inc[u])

Incarnations == [Node -> Nat]

------------------------------------------------------------------------------
\* The status values are different numbers, in this order.
LEMMA StatusType ==
  /\ UNKNOWN \in Status /\ ALIVE \in Status /\ SUSPECT \in Status
  /\ DEAD \in Status /\ DEAD # ALIVE /\ DEAD # SUSPECT /\ DEAD # UNKNOWN
  BY DEF UNKNOWN, ALIVE, SUSPECT, DEAD, Status

\* Ageing by a second stays within the saturating range, and what is as old as
\* can be stays so.
LEMMA OlderType ==
  ASSUME NEW age \in Age
  PROVE  Older(age) \in Age /\ (age = DeadAfter => Older(age) = DeadAfter)
  BY TimeAssumption DEF Older, Age

\* Replacing one entry by a good one keeps a view good (swim_state_suspect,
\* swim_state_notice, swim_cluster_refuted_dead write through a pointer).
LEMMA ReplaceGood ==
  ASSUME NEW v, NEW inc \in Incarnations, GoodView(v, inc),
         NEW u \in DOMAIN v, NEW e, GoodEntry(e, inc[u])
  PROVE  GoodView([v EXCEPT ![u] = e], inc)
  BY DEF GoodView, GoodEntry, IsView

\* swim_state_add keeps a view good when the record it copies is good.
LEMMA AddGood ==
  ASSUME NEW v, NEW inc \in Incarnations, GoodView(v, inc),
         NEW u \in Node, NEW info, GoodEntry(NewEntry(info), inc[u])
  PROVE  /\ GoodView(swim_state_add(v, u, info), inc)
         /\ DOMAIN swim_state_add(v, u, info) = DOMAIN v \cup {u}
  BY DEF GoodView, IsView, swim_state_add, GoodEntry

\* swim_state_notice gives an entry the incarnation and the time of a header,
\* and never touches the age of a dead entry it leaves dead.
LEMMA NoticeEntryGood ==
  ASSUME NEW e, NEW limit \in Nat, GoodEntry(e, limit),
         NEW age \in Age, NEW i \in Nat, i <= limit
  PROVE  /\ GoodEntry(NoticeEntry(e, age, i), limit)
         /\ NoticeEntry(e, age, i).incarnation >= e.incarnation
<1> DEFINE r == NoticeEntry(e, age, i)
<1>1. CASE i > e.incarnation
  <2>1. r = [e EXCEPT !.incarnation = i, !.status = ALIVE, !.age = age]
    BY <1>1 DEF NoticeEntry
  <2>2. r \in Entry /\ r.incarnation = i /\ r.status = ALIVE
    BY <2>1, StatusType, Zenon DEF GoodEntry, Entry
  <2> QED
    BY <1>1, <2>2, StatusType DEF GoodEntry, Entry
<1>2. CASE i = e.incarnation /\ e.status # DEAD
  <2>1. r = [e EXCEPT !.status = ALIVE, !.age = age]
    BY <1>2 DEF NoticeEntry, GoodEntry, Entry
  <2>2. r \in Entry /\ r.incarnation = e.incarnation /\ r.status = ALIVE
    BY <2>1, StatusType, Zenon DEF GoodEntry, Entry
  <2> QED
    BY <1>2, <2>2, StatusType DEF GoodEntry
<1>3. CASE ~(i > e.incarnation) /\ ~(i = e.incarnation /\ e.status # DEAD)
  <2>1. r = e
    BY <1>3 DEF NoticeEntry
  <2> QED
    BY <2>1 DEF GoodEntry, Entry
<1> QED
  BY <1>1, <1>2, <1>3

\* Taking over a good record gives a good entry.
LEMMA AdoptGood ==
  ASSUME NEW e \in Entry, NEW info, NEW limit \in Nat, GoodInfo(info, limit)
  PROVE  /\ GoodEntry(Adopt(e, info), limit)
         /\ Adopt(e, info).incarnation = info.incarnation
  BY Zenon DEF GoodEntry, GoodInfo, Adopt, Entry, Info

\* MergeEntry takes over only what a good gossip record says.
LEMMA MergeEntryGood ==
  ASSUME NEW e, NEW info, NEW limit \in Nat,
         GoodEntry(e, limit), GoodInfo(info, limit)
  PROVE  /\ GoodEntry(MergeEntry(e, info), limit)
         /\ MergeEntry(e, info).incarnation >= e.incarnation
<1> USE DEF GoodEntry, GoodInfo
<1> DEFINE r == MergeEntry(e, info)
<1>0. e \in Entry /\ e.incarnation \in Nat /\ info.incarnation \in Nat
  BY DEF Entry, Info
<1>1. CASE info.incarnation > e.incarnation
  <2>1. r = Adopt(e, info)
    BY <1>0, <1>1 DEF MergeEntry
  <2> QED
    BY <1>0, <1>1, <2>1, AdoptGood
<1>2. CASE info.incarnation < e.incarnation
  <2>1. r = e
    BY <1>0, <1>2 DEF MergeEntry
  <2> QED
    BY <1>0, <2>1
<1>3. CASE info.incarnation = e.incarnation
  <2>1. \/ r = Adopt(e, info) \/ r = [e EXCEPT !.witness = NoAddr] \/ r = e
        \/ e.status # DEAD /\ r = [e EXCEPT !.age = info.age]
    BY <1>0, <1>3 DEF MergeEntry, ALIVE, SUSPECT, DEAD, UNKNOWN
  <2>2. CASE r = Adopt(e, info)
    BY <1>0, <1>3, <2>2, AdoptGood
  <2>3. CASE r = [e EXCEPT !.witness = NoAddr]
    BY <1>0, <2>3 DEF Entry
  <2>4. CASE r = e
    BY <1>0, <2>4
  <2>5. CASE e.status # DEAD /\ r = [e EXCEPT !.age = info.age]
    BY <1>0, <2>5 DEF Entry, Info
  <2> QED
    BY <2>1, <2>2, <2>3, <2>4, <2>5
<1> QED
  BY <1>0, <1>1, <1>2, <1>3

------------------------------------------------------------------------------
\* swim_state_notice keeps a view good, its domain, and every incarnation.
LEMMA NoticeGood ==
  ASSUME NEW v, NEW inc \in Incarnations, GoodView(v, inc), NEW u \in Node,
         NEW age \in Age, NEW i \in Nat, i <= inc[u]
  PROVE  LET r == swim_state_notice(v, u, age, i)
         IN /\ GoodView(r, inc) /\ DOMAIN r = DOMAIN v
            /\ \A w \in DOMAIN v : r[w].incarnation >= v[w].incarnation
<1> DEFINE r == swim_state_notice(v, u, age, i)
<1>0. \A w \in DOMAIN v : v[w].incarnation \in Nat
  BY DEF GoodView, GoodEntry, Entry
<1>1. CASE u \notin DOMAIN v
  BY <1>0, <1>1 DEF swim_state_notice
<1>2. CASE u \in DOMAIN v
  <2> DEFINE e == NoticeEntry(v[u], age, i)
  <2>1. r = [v EXCEPT ![u] = e]
    BY <1>2 DEF swim_state_notice
  <2>2. GoodEntry(e, inc[u]) /\ e.incarnation >= v[u].incarnation
    BY <1>2, NoticeEntryGood DEF GoodView, Incarnations
  <2> HIDE DEF e
  <2>3. GoodView([v EXCEPT ![u] = e], inc)
    BY <1>2, <2>2, ReplaceGood
  <2> QED
    BY <1>0, <1>2, <2>1, <2>2, <2>3 DEF GoodView, IsView
<1> QED
  BY <1>1, <1>2

\* swim_state_merge keeps a view good, drops nobody, adds nobody but members
\* of the gossip, never the process itself, and takes no incarnation back.
LEMMA MergeGood ==
  ASSUME NEW v, NEW inc \in Incarnations, GoodView(v, inc),
         NEW self \in Node, NEW g, GoodGossip(g, inc)
  PROVE  LET r == swim_state_merge(v, self, g)
         IN /\ GoodView(r, inc)
            /\ DOMAIN r = DOMAIN v \cup (DOMAIN g \ {self})
            /\ \A w \in DOMAIN v : r[w].incarnation >= v[w].incarnation
<1> DEFINE r == swim_state_merge(v, self, g)
<1>1. DOMAIN r = DOMAIN v \cup (DOMAIN g \ {self})
  BY DEF swim_state_merge
<1>2. DOMAIN r \subseteq Node
  BY <1>1 DEF GoodView, GoodGossip, IsView, IsGossip
<1>3. ASSUME NEW u \in DOMAIN r
      PROVE  /\ GoodEntry(r[u], inc[u])
             /\ u \in DOMAIN v => r[u].incarnation >= v[u].incarnation
  <2>0. inc[u] \in Nat
    BY <1>2, <1>3 DEF Incarnations
  <2>1. CASE u \notin DOMAIN v
    <3>1. r[u] = NewEntry(g[u]) /\ u \in DOMAIN g
      BY <1>1, <2>1 DEF swim_state_merge
    <3>2. GoodInfo(g[u], inc[u])
      BY <3>1 DEF GoodGossip
    <3> QED
      BY <2>1, <3>1, <3>2 DEF GoodEntry, GoodInfo, NewEntry, Entry, Info
  <2>2. CASE u \in DOMAIN v \cap (DOMAIN g \ {self})
    <3>1. r[u] = MergeEntry(v[u], g[u])
      BY <1>1, <2>2 DEF swim_state_merge
    <3> QED
      BY <2>0, <2>2, <3>1, MergeEntryGood DEF GoodView, GoodGossip
  <2>3. CASE u \in DOMAIN v /\ u \notin DOMAIN g \ {self}
    <3>1. r[u] = v[u]
      BY <1>1, <2>3 DEF swim_state_merge
    <3> QED
      BY <2>3, <3>1 DEF GoodView, GoodEntry, Entry
  <2> QED
    BY <1>1, <2>1, <2>2, <2>3
<1>4. r \in [DOMAIN r -> Entry]
  BY <1>1, <1>3, Zenon DEF swim_state_merge, GoodEntry
<1> HIDE DEF r
<1> QED
  BY <1>1, <1>2, <1>3, <1>4 DEF GoodView, IsView, r

\* swim_fill_gossip copies good records out of a good view.
LEMMA FillGossipGood ==
  ASSUME NEW v, NEW inc \in Incarnations, GoodView(v, inc),
         NEW g \in swim_fill_gossip(v)
  PROVE  GoodGossip(g, inc)
<1>1. ASSUME NEW u \in DOMAIN v, NEW count \in Nat \ {0}
      PROVE  GoodInfo(swim_node_copy(v[u], count), inc[u])
  BY <1>1 DEF GoodView, GoodEntry, GoodInfo, swim_node_copy, Entry, Info
<1>2. CASE g = [u \in DOMAIN v |-> swim_node_copy(v[u], 1)]
  BY <1>1, <1>2 DEF GoodGossip, GoodInfo, IsGossip, GoodView, IsView
<1>3. ASSUME NEW pick \in [1..MAX_GOSSIP_SIZE -> DOMAIN v],
             g = [u \in {pick[i] : i \in 1..MAX_GOSSIP_SIZE} |->
                    swim_node_copy(v[u],
                      Cardinality({i \in 1..MAX_GOSSIP_SIZE : pick[i] = u}))]
      PROVE  GoodGossip(g, inc)
  <2> DEFINE Copies(u) == {i \in 1..MAX_GOSSIP_SIZE : pick[i] = u}
  <2>1. \A i \in 1..MAX_GOSSIP_SIZE : Cardinality(Copies(pick[i])) \in Nat \ {0}
    <3>1. IsFiniteSet(1..MAX_GOSSIP_SIZE)
      BY GossipAssumption, FS_Interval
    <3>2. \A u : IsFiniteSet(Copies(u))
      BY <3>1, FS_Subset, Zenon
    <3>3. \A i \in 1..MAX_GOSSIP_SIZE : Copies(pick[i]) # {}
      OBVIOUS
    <3> HIDE DEF Copies
    <3> QED
      BY <3>2, <3>3, FS_CardinalityType, FS_EmptySet
  <2>2. DOMAIN g = {pick[i] : i \in 1..MAX_GOSSIP_SIZE}
    BY <1>3
  <2>3. DOMAIN g \subseteq DOMAIN v
    BY <1>3, <2>2
  <2>4. \A u \in DOMAIN g : g[u] = swim_node_copy(v[u], Cardinality(Copies(u)))
    BY <1>3, <2>2
  <2>5. \A u \in DOMAIN g : GoodInfo(g[u], inc[u])
    <3>1. \A u \in DOMAIN g : Cardinality(Copies(u)) \in Nat \ {0}
      BY <2>1, <2>2
    <3> QED
      BY <1>1, <2>3, <2>4, <3>1, Zenon
  <2>6. g \in [DOMAIN g -> Info]
    BY <1>3, <2>2, <2>5, Zenon DEF GoodInfo
  <2> QED
    BY <2>3, <2>5, <2>6 DEF GoodGossip, IsGossip, GoodView, IsView
<1> QED
  BY <1>2, <1>3, Zenon DEF swim_fill_gossip

------------------------------------------------------------------------------
\* swim_state_suspect keeps a view good: suspicion is not death.
LEMMA SuspectGood ==
  ASSUME NEW v, NEW inc \in Incarnations, GoodView(v, inc),
         NEW u \in DOMAIN v, NEW addr \in Addr
  PROVE  LET r == swim_state_suspect(v, u, addr)
         IN /\ GoodView(r, inc) /\ DOMAIN r = DOMAIN v
            /\ \A w \in DOMAIN v : r[w].incarnation = v[w].incarnation
<1> DEFINE e == [v[u] EXCEPT !.status = SUSPECT, !.witness = addr]
<1>1. GoodEntry(e, inc[u]) /\ e.incarnation = v[u].incarnation
  BY StatusType, Zenon DEF GoodView, GoodEntry, Entry
<1>2. swim_state_suspect(v, u, addr) = [v EXCEPT ![u] = e]
  BY Zenon DEF swim_state_suspect, GoodView, GoodEntry, IsView, Entry
<1> HIDE DEF e
<1>3. GoodView([v EXCEPT ![u] = e], inc)
  BY <1>1, ReplaceGood
<1> QED
  BY <1>1, <1>2, <1>3

\* swim_cluster_refuted_dead keeps a view good: it makes the entry ALIVE.
LEMMA RefutedGood ==
  ASSUME NEW v, NEW inc \in Incarnations, GoodView(v, inc), NEW u \in DOMAIN v
  PROVE  LET r == swim_cluster_refuted_dead(v, u)
         IN /\ GoodView(r, inc) /\ DOMAIN r = DOMAIN v
            /\ \A w \in DOMAIN v : r[w].incarnation = v[w].incarnation
<1> DEFINE e == [v[u] EXCEPT !.status = ALIVE, !.witness = NoAddr]
<1>1. GoodEntry(e, inc[u]) /\ e.incarnation = v[u].incarnation
  BY StatusType, Zenon DEF GoodView, GoodEntry, Entry
<1>2. swim_cluster_refuted_dead(v, u) = [v EXCEPT ![u] = e]
  BY Zenon DEF swim_cluster_refuted_dead, GoodView, GoodEntry, IsView, Entry
<1> HIDE DEF e
<1>3. GoodView([v EXCEPT ![u] = e], inc)
  BY <1>1, ReplaceGood
<1> QED
  BY <1>1, <1>2, <1>3

\* A good view is good a second later: a silent node stays silent.
LEMMA AgedViewGood ==
  ASSUME NEW v, NEW inc \in Incarnations, GoodView(v, inc)
  PROVE  /\ GoodView(Aged(v), inc) /\ DOMAIN Aged(v) = DOMAIN v
         /\ \A w \in DOMAIN v : Aged(v)[w].incarnation = v[w].incarnation
<1>1. ASSUME NEW u \in DOMAIN v
      PROVE  /\ GoodEntry(Aged(v)[u], inc[u])
             /\ Aged(v)[u].incarnation = v[u].incarnation
  <2>1. Aged(v)[u] = [v[u] EXCEPT !.age = Older(v[u].age)]
    BY <1>1 DEF Aged
  <2>2. v[u] \in Entry /\ v[u].age \in Age
    BY <1>1 DEF GoodView, GoodEntry, Entry
  <2> QED
    BY <1>1, <2>1, <2>2, OlderType DEF GoodView, GoodEntry, Entry
<1>2. DOMAIN Aged(v) = DOMAIN v
  BY DEF Aged
<1>3. Aged(v) \in [DOMAIN v -> Entry]
  BY <1>1, Zenon DEF Aged, GoodEntry
<1> QED
  BY <1>1, <1>2, <1>3 DEF GoodView, IsView

\* So is good gossip.
LEMMA AgedGossipGood ==
  ASSUME NEW g, NEW inc \in Incarnations, GoodGossip(g, inc)
  PROVE  GoodGossip(Aged(g), inc)
<1>1. ASSUME NEW u \in DOMAIN g
      PROVE  GoodInfo(Aged(g)[u], inc[u])
  <2>1. Aged(g)[u] = [g[u] EXCEPT !.age = Older(g[u].age)]
    BY <1>1 DEF Aged
  <2>2. g[u] \in Info /\ g[u].age \in Age
    BY <1>1 DEF GoodGossip, GoodInfo, Info
  <2> QED
    BY <1>1, <2>1, <2>2, OlderType DEF GoodGossip, GoodInfo, Info
<1>2. DOMAIN Aged(g) = DOMAIN g
  BY DEF Aged
<1>3. Aged(g) \in [DOMAIN g -> Info]
  BY <1>1, Zenon DEF Aged, GoodInfo
<1> QED
  BY <1>1, <1>2, <1>3 DEF GoodGossip, IsGossip

\* What is good stays good when processes reach higher incarnations.
LEMMA GoodMonotonic ==
  ASSUME NEW inc \in Incarnations, NEW higher \in Incarnations,
         \A u \in Node : inc[u] <= higher[u]
  PROVE  /\ \A v : GoodView(v, inc) => GoodView(v, higher)
         /\ \A g : GoodGossip(g, inc) => GoodGossip(g, higher)
<1>1. ASSUME NEW v, GoodView(v, inc) PROVE GoodView(v, higher)
  <2>1. \A u \in DOMAIN v : u \in Node /\ inc[u] \in Nat /\ higher[u] \in Nat
                            /\ inc[u] <= higher[u]
    BY <1>1 DEF GoodView, IsView, Incarnations
  <2> QED
    BY <1>1, <2>1 DEF GoodView, GoodEntry, Entry
<1>2. ASSUME NEW g, GoodGossip(g, inc) PROVE GoodGossip(g, higher)
  <2>1. \A u \in DOMAIN g : u \in Node /\ inc[u] \in Nat /\ higher[u] \in Nat
                            /\ inc[u] <= higher[u]
    BY <1>2 DEF GoodGossip, IsGossip, Incarnations
  <2> QED
    BY <1>2, <2>1 DEF GoodGossip, GoodInfo, Info
<1> QED
  BY <1>1, <1>2

------------------------------------------------------------------------------
\* A finite set has more elements than a subset that misses one.
LEMMA FewerElements ==
  ASSUME NEW A, IsFiniteSet(A), NEW B \in SUBSET A, NEW x \in A \ B
  PROVE  /\ Cardinality(A) \in Nat /\ Cardinality(B) \in Nat
         /\ Cardinality(B) < Cardinality(A)
<1>1. /\ IsFiniteSet(B) /\ Cardinality(B) <= Cardinality(A)
      /\ Cardinality(A) # Cardinality(B)
  BY FS_Subset
<1>2. Cardinality(A) \in Nat /\ Cardinality(B) \in Nat
  BY <1>1, FS_CardinalityType
<1> QED
  BY <1>1, <1>2

\* A non-empty view has a last slot: swim_state_add returns an entry of it.
LEMMA AddedInView ==
  ASSUME NEW v, DOMAIN v \subseteq Node, DOMAIN v # {}
  PROVE  Added(v) \in DOMAIN v
<1> DEFINE S == DOMAIN v
           Above(u) == {w \in S : w > u}
           T == {Cardinality(Above(u)) : u \in S}
<1>1. IsFiniteSet(S) /\ S \subseteq Nat
  BY NodeAssumption, FS_Subset, Zenon
<1>2. \A u \in S : IsFiniteSet(Above(u)) /\ Cardinality(Above(u)) \in Nat
  BY <1>1, FS_Subset, FS_CardinalityType
<1>3. T \subseteq Nat /\ T # {}
  BY <1>2, Zenon
<1>4. PICK x \in T : \A y \in T : x <= y
  <2> HIDE DEF T
  <2> QED
    BY <1>3, LeastOf, Zenon
<1>5. PICK u \in S : x = Cardinality(Above(u))
  OBVIOUS
<1>6. ASSUME NEW w \in S, w > u
      PROVE  FALSE
  <2>1. Above(w) \subseteq Above(u) /\ w \in Above(u) /\ w \notin Above(w)
    BY <1>1, <1>6
  <2>2. Cardinality(Above(w)) \in T
    BY Zenon
  <2> HIDE DEF Above, T
  <2>3. /\ Cardinality(Above(w)) \in Nat /\ Cardinality(Above(u)) \in Nat
        /\ Cardinality(Above(w)) < Cardinality(Above(u))
    BY <1>2, <2>1, FewerElements
  <2> QED
    BY <1>4, <1>5, <2>2, <2>3
<1>7. \A w \in S : w <= u
  BY <1>1, <1>6
<1> QED
  BY <1>7 DEF Added

------------------------------------------------------------------------------
(***************************************************************************)
(* What the view operators write into a view.  A view keeps to the         *)
(* addresses A, the ages T and the witnesses W when the entry of every u   *)
(* has an address in A[u], an age in T[u] and a witness in W[u], or none.  *)
(* Nothing but the record or the header an operator is handed enters it.   *)
(***************************************************************************)
KeepsTo(v, A, T, W) ==
  \A u \in DOMAIN v :
    /\ v[u].addr \in A[u] /\ v[u].age \in T[u]
    /\ v[u].witness \in W[u] \cup {NoAddr}

GossipKeepsTo(g, A, T) ==
  \A u \in DOMAIN g : g[u].addr \in A[u] /\ g[u].age \in T[u]

\* An empty view or message keeps to anything.
LEMMA NothingKeeps ==
  ASSUME NEW A, NEW T, NEW W
  PROVE  KeepsTo(Nothing, A, T, W) /\ GossipKeepsTo(Nothing, A, T)
  BY DEF KeepsTo, GossipKeepsTo, Nothing

\* Keeping to something is keeping to anything wider.
LEMMA KeepsMonotonic ==
  ASSUME NEW v, NEW A, NEW T, NEW W, NEW wider, KeepsTo(v, A, T, W),
         \A u \in DOMAIN v : W[u] \subseteq wider[u]
  PROVE  KeepsTo(v, A, T, wider)
  BY DEF KeepsTo

\* swim_state_notice writes no address and no witness, and no time but that of
\* the header.
LEMMA NoticeKeeps ==
  ASSUME NEW v, NEW A, NEW T, NEW W, KeepsTo(v, A, T, W), IsView(v),
         NEW u, NEW age, age \in T[u], NEW i
  PROVE  KeepsTo(swim_state_notice(v, u, age, i), A, T, W)
<1> DEFINE e == NoticeEntry(v[u], age, i)
<1>1. CASE u \notin DOMAIN v
  BY <1>1 DEF swim_state_notice
<1>2. CASE u \in DOMAIN v
  <2>1. v[u] \in Entry
    BY <1>2 DEF IsView
  <2>2. /\ e.addr = v[u].addr /\ e.witness = v[u].witness
        /\ e.age = v[u].age \/ e.age = age
    BY <2>1 DEF NoticeEntry, Entry
  <2>3. swim_state_notice(v, u, age, i) = [v EXCEPT ![u] = e]
    BY <1>2 DEF swim_state_notice
  <2> HIDE DEF e
  <2> QED
    BY <1>2, <2>2, <2>3 DEF KeepsTo
<1> QED
  BY <1>1, <1>2

\* swim_state_suspect writes the witness it is given.
LEMMA SuspectKeeps ==
  ASSUME NEW v, NEW A, NEW T, NEW W, KeepsTo(v, A, T, W), IsView(v),
         NEW u \in DOMAIN v, NEW addr \in W[u]
  PROVE  KeepsTo(swim_state_suspect(v, u, addr), A, T, W)
<1> DEFINE e == [v[u] EXCEPT !.status = SUSPECT, !.witness = addr]
<1>1. v[u] \in Entry
  BY DEF IsView
<1>2. e.addr = v[u].addr /\ e.witness = addr /\ e.age = v[u].age
  BY <1>1 DEF Entry
<1>3. swim_state_suspect(v, u, addr) = [v EXCEPT ![u] = e]
  BY <1>1, Zenon DEF swim_state_suspect, IsView, Entry
<1> HIDE DEF e
<1> QED
  BY <1>2, <1>3 DEF KeepsTo

\* swim_cluster_refuted_dead only clears the witness.
LEMMA RefutedKeeps ==
  ASSUME NEW v, NEW A, NEW T, NEW W, KeepsTo(v, A, T, W), IsView(v),
         NEW u \in DOMAIN v
  PROVE  KeepsTo(swim_cluster_refuted_dead(v, u), A, T, W)
<1> DEFINE e == [v[u] EXCEPT !.status = ALIVE, !.witness = NoAddr]
<1>1. v[u] \in Entry
  BY DEF IsView
<1>2. e.addr = v[u].addr /\ e.witness = NoAddr /\ e.age = v[u].age
  BY <1>1 DEF Entry
<1>3. swim_cluster_refuted_dead(v, u) = [v EXCEPT ![u] = e]
  BY <1>1 DEF swim_cluster_refuted_dead, IsView, Entry
<1> HIDE DEF e
<1> QED
  BY <1>2, <1>3 DEF KeepsTo

\* swim_state_add writes the address and the time of the record, no witness.
LEMMA AddKeeps ==
  ASSUME NEW v, NEW A, NEW T, NEW W, KeepsTo(v, A, T, W),
         NEW u, NEW info, info.addr \in A[u], info.age \in T[u]
  PROVE  KeepsTo(swim_state_add(v, u, info), A, T, W)
  BY DEF KeepsTo, swim_state_add, NewEntry

\* MergeEntry keeps the address, and takes time or witness from nowhere else.
LEMMA MergeEntryKeeps ==
  ASSUME NEW e \in Entry, NEW info
  PROVE  LET r == MergeEntry(e, info)
         IN /\ r.addr = e.addr
            /\ r.age = e.age \/ r.age = info.age
            /\ r.witness = e.witness \/ r.witness = NoAddr
<1> DEFINE r == MergeEntry(e, info)
<1>1. \/ r = Adopt(e, info) \/ r = [e EXCEPT !.witness = NoAddr] \/ r = e
      \/ r = [e EXCEPT !.age = info.age]
  <2>1. CASE info.incarnation > e.incarnation
    BY <2>1 DEF MergeEntry
  <2>2. CASE /\ info.incarnation < e.incarnation
             /\ ~(info.incarnation > e.incarnation)
    BY <2>2 DEF MergeEntry
  <2>3. CASE /\ ~(info.incarnation > e.incarnation)
             /\ ~(info.incarnation < e.incarnation)
    <3>1. e.status \in Status
      BY DEF Entry
    <3> QED
      BY <2>3, <3>1 DEF MergeEntry, Status
  <2> QED
    BY <2>1, <2>2, <2>3
<1> HIDE DEF r
<1>2. CASE r = Adopt(e, info)
  BY <1>2 DEF Adopt, Entry, r
<1>3. CASE r = [e EXCEPT !.witness = NoAddr]
  BY <1>3 DEF Entry, r
<1>4. CASE r = [e EXCEPT !.age = info.age]
  BY <1>4 DEF Entry, r
<1> QED
  BY <1>1, <1>2, <1>3, <1>4 DEF r

\* swim_state_merge writes addresses and times of the gossip, and no witness.
LEMMA MergeKeeps ==
  ASSUME NEW v, NEW A, NEW T, NEW W, KeepsTo(v, A, T, W), IsView(v),
         NEW self, NEW g, GossipKeepsTo(g, A, T)
  PROVE  KeepsTo(swim_state_merge(v, self, g), A, T, W)
<1> DEFINE r == swim_state_merge(v, self, g)
<1>1. DOMAIN r = DOMAIN v \cup (DOMAIN g \ {self})
  BY DEF swim_state_merge
<1>2. ASSUME NEW u \in DOMAIN r
      PROVE  /\ r[u].addr \in A[u] /\ r[u].age \in T[u]
             /\ r[u].witness \in W[u] \cup {NoAddr}
  <2>1. CASE u \notin DOMAIN v
    <3>1. r[u] = NewEntry(g[u]) /\ u \in DOMAIN g
      BY <1>1, <2>1 DEF swim_state_merge
    <3> QED
      BY <3>1 DEF GossipKeepsTo, NewEntry
  <2>2. CASE u \in DOMAIN v \cap (DOMAIN g \ {self})
    <3>1. r[u] = MergeEntry(v[u], g[u]) /\ v[u] \in Entry
      BY <1>1, <2>2 DEF swim_state_merge, IsView
    <3> HIDE DEF r
    <3> QED
      BY <2>2, <3>1, MergeEntryKeeps DEF KeepsTo, GossipKeepsTo
  <2>3. CASE u \in DOMAIN v /\ u \notin DOMAIN g \ {self}
    <3>1. r[u] = v[u]
      BY <1>1, <2>3 DEF swim_state_merge
    <3> QED
      BY <2>3, <3>1 DEF KeepsTo
  <2> QED
    BY <1>1, <2>1, <2>2, <2>3
<1> HIDE DEF r
<1> QED
  BY <1>2 DEF KeepsTo, r

\* swim_fill_gossip copies addresses and times of members, and nothing else.
LEMMA FillGossipKeeps ==
  ASSUME NEW v, NEW A, NEW T, NEW W, KeepsTo(v, A, T, W),
         NEW g \in swim_fill_gossip(v)
  PROVE  GossipKeepsTo(g, A, T)
<1>1. \A u \in DOMAIN v : \A count :
        /\ swim_node_copy(v[u], count).addr \in A[u]
        /\ swim_node_copy(v[u], count).age \in T[u]
  BY DEF KeepsTo, swim_node_copy
<1>2. CASE g = [u \in DOMAIN v |-> swim_node_copy(v[u], 1)]
  BY <1>1, <1>2 DEF GossipKeepsTo
<1>3. ASSUME NEW pick \in [1..MAX_GOSSIP_SIZE -> DOMAIN v],
             g = [u \in {pick[i] : i \in 1..MAX_GOSSIP_SIZE} |->
                    swim_node_copy(v[u],
                      Cardinality({i \in 1..MAX_GOSSIP_SIZE : pick[i] = u}))]
      PROVE  GossipKeepsTo(g, A, T)
  <2>1. DOMAIN g = {pick[i] : i \in 1..MAX_GOSSIP_SIZE}
    BY <1>3
  <2>2. DOMAIN g \subseteq DOMAIN v
    BY <1>3, <2>1
  <2>3. \A u \in DOMAIN g : \E count : g[u] = swim_node_copy(v[u], count)
    BY <1>3, <2>1
  <2> QED
    BY <1>1, <2>2, <2>3 DEF GossipKeepsTo
<1> QED
  BY <1>2, <1>3, Zenon DEF swim_fill_gossip

\* A second later only the ages have changed.
LEMMA AgedKeeps ==
  ASSUME NEW A, NEW T, NEW later, NEW W,
         \A u \in Node : \A age \in T[u] : Older(age) \in later[u]
  PROVE  /\ \A v : IsView(v) /\ KeepsTo(v, A, T, W)
                     => KeepsTo(Aged(v), A, later, W)
         /\ \A g : IsGossip(g) /\ GossipKeepsTo(g, A, T)
                     => GossipKeepsTo(Aged(g), A, later)
<1>1. ASSUME NEW v, IsView(v), KeepsTo(v, A, T, W)
      PROVE  KeepsTo(Aged(v), A, later, W)
  <2>1. ASSUME NEW u \in DOMAIN v
        PROVE  /\ Aged(v)[u].addr = v[u].addr
               /\ Aged(v)[u].witness = v[u].witness
               /\ Aged(v)[u].age = Older(v[u].age)
    BY <1>1, <2>1 DEF Aged, IsView, Entry
  <2>2. DOMAIN Aged(v) = DOMAIN v /\ DOMAIN v \subseteq Node
    BY <1>1 DEF Aged, IsView
  <2> QED
    BY <1>1, <2>1, <2>2 DEF KeepsTo
<1>2. ASSUME NEW g, IsGossip(g), GossipKeepsTo(g, A, T)
      PROVE  GossipKeepsTo(Aged(g), A, later)
  <2>1. ASSUME NEW u \in DOMAIN g
        PROVE  /\ Aged(g)[u].addr = g[u].addr
               /\ Aged(g)[u].age = Older(g[u].age)
    BY <1>2, <2>1 DEF Aged, IsGossip, Info
  <2>2. DOMAIN Aged(g) = DOMAIN g /\ DOMAIN g \subseteq Node
    BY <1>2 DEF Aged, IsGossip
  <2> QED
    BY <1>2, <2>1, <2>2 DEF GossipKeepsTo
<1> QED
  BY <1>1, <1>2

------------------------------------------------------------------------------
\* What a process keeps, and what is under way to it

GoodEvent(m, inc) ==
  /\ IsEvent(m)
  /\ m.incarnation <= inc[m.uuid]
  /\ GoodGossip(m.gossip, inc)
  /\ m.type \in {"ACK", "JOIN"} => m.arg \in Node
  /\ m.type = "LEAVE" => m.arg = NilUuid

ProcessInv ==
  /\ pc \in [Node -> {"new"} \cup Running \cup Ended]
  /\ incarnation \in [Node -> 0..MaxIncarnation]
  /\ DOMAIN view = Node
  /\ hbAge \in [Node -> 0..(HEARTBEAT_INTERVAL + 1)]
  /\ downAge \in [Node -> Age]
  /\ \A n \in Node : GoodView(view[n], incarnation) /\ n \notin DOMAIN view[n]

IInv == ProcessInv /\ \A m \in net : GoodEvent(m, incarnation)

\* What every step does to incarnations and views
Grows ==
  /\ \A u \in Node : incarnation[u] <= incarnation'[u]
  /\ \A n \in Node : pc'[n] \in Running =>
       \A u \in DOMAIN view[n] :
         /\ u \in DOMAIN view'[n]
         /\ view'[n][u].incarnation >= view[n][u].incarnation

\* What a step must establish; its datagrams are judged by the incarnations
\* they were sent with
GoodStep == ProcessInv' /\ Grows /\ \A m \in net' : GoodEvent(m, incarnation)

\* v is a good successor of the view of n
Succeeds(v, n) ==
  /\ GoodView(v, incarnation)
  /\ n \notin DOMAIN v
  /\ \A u \in DOMAIN view[n] :
       u \in DOMAIN v /\ v[u].incarnation >= view[n][u].incarnation

------------------------------------------------------------------------------
\* The incarnations of a state that satisfies the type conjuncts are naturals.
LEMMA IncarnationsType ==
  ASSUME incarnation \in [Node -> 0..MaxIncarnation]
  PROVE  incarnation \in Incarnations
  BY BoundAssumption DEF Incarnations

\* Every recorded incarnation is a natural number.
LEMMA RecordedType ==
  ASSUME ProcessInv, NEW n \in Node, NEW u \in DOMAIN view[n]
  PROVE  view[n][u].incarnation \in Nat /\ u \in Node
  BY DEF ProcessInv, GoodView, GoodEntry, Entry, IsView

\* An event built by swim_event_init from good gossip is good.
LEMMA EventInitGood ==
  ASSUME ProcessInv, NEW n \in Node, NEW type \in EventType,
         NEW arg \in Node \cup {NilUuid}, NEW to \in Addr,
         NEW g, GoodGossip(g, incarnation),
         type \in {"ACK", "JOIN"} => arg \in Node,
         type = "LEAVE" => arg = NilUuid
  PROVE  GoodEvent(swim_event_init(n, type, arg, to, g), incarnation)
<1> DEFINE m == swim_event_init(n, type, arg, to, g)
<1>0. AddrOf[n] \in Addr
  BY DeploymentAssumption
<1>1. incarnation[n] \in Nat /\ 0 \in Age
  BY BoundAssumption, TimeAssumption DEF ProcessInv, Age
<1>2. /\ m.uuid = n /\ m.incarnation = incarnation[n] /\ m.gossip = g
      /\ m.type = type /\ m.arg = arg
  BY DEF swim_event_init
<1>3. m \in [type : EventType, uuid : Node, age : Age, incarnation : Nat,
             from : Addr, to : Addr, arg : Node \cup {NilUuid},
             joinaddr : Addr \cup {NoAddr}, gossip : {m.gossip}]
  BY <1>0, <1>1, <1>2 DEF swim_event_init
<1> HIDE DEF m
<1>4. IsEvent(m)
  BY <1>2, <1>3 DEF IsEvent, GoodGossip
<1> QED
  BY <1>1, <1>2, <1>4 DEF GoodEvent, m

\* The send helpers produce good events from a good view.
LEMMA SendGood ==
  ASSUME ProcessInv, NEW n \in Node, NEW v, GoodView(v, incarnation),
         NEW to \in Addr
  PROVE  /\ \A arg \in Node : \A m \in swim_send_ack(n, v, arg, to) :
              GoodEvent(m, incarnation)
         /\ \A m \in swim_send_ping(n, v, to) : GoodEvent(m, incarnation)
         /\ \A arg \in Node : \A m \in swim_send_ping_req(n, v, arg, to) :
              GoodEvent(m, incarnation)
<1>1. \A g \in swim_fill_gossip(v) : GoodGossip(g, incarnation)
  BY FillGossipGood, IncarnationsType DEF ProcessInv
<1>2. {"ACK", "PING", "PING_REQ"} \subseteq EventType
  BY DEF EventType
<1>3. ASSUME NEW arg \in Node, NEW g \in swim_fill_gossip(v)
      PROVE  /\ GoodEvent(swim_event_init(n, "ACK", arg, to, g), incarnation)
             /\ GoodEvent(swim_event_init(n, "PING_REQ", arg, to, g), incarnation)
  BY <1>1, <1>2, <1>3, EventInitGood
<1>4. ASSUME NEW g \in swim_fill_gossip(v)
      PROVE  GoodEvent(swim_event_init(n, "PING", NilUuid, to, g), incarnation)
  BY <1>1, <1>2, <1>4, EventInitGood
<1> QED
  BY <1>3, <1>4 DEF swim_send_ack, swim_send_ping, swim_send_ping_req

\* The network holds good events after it has taken some of the good ones sent.
LEMMA TransmitGood ==
  ASSUME IInv, NEW sent, \A m \in sent : GoodEvent(m, incarnation),
         Transmit(sent)
  PROVE  \A m \in net' : GoodEvent(m, incarnation)
  BY DEF IInv, Transmit

------------------------------------------------------------------------------
\* A process that ends leaves the others as they were.
LEMMA TerminateStep ==
  ASSUME ProcessInv, NEW n \in Node, NEW how \in Ended, Terminate(n, how)
  PROVE  ProcessInv' /\ Grows
<1> USE DEF ProcessInv, Terminate
<1>1. GoodView(Nothing, incarnation) /\ DOMAIN Nothing = {}
  BY DEF GoodView, IsView, Nothing
<1>2. \A p \in Node : view'[p] = IF p = n THEN Nothing ELSE view[p]
  OBVIOUS
<1>3. ProcessInv'
  BY <1>1, <1>2, BoundAssumption
<1>4. pc'[n] \notin Running
  BY DEF Running, Ended
<1>5. \A u \in Node : incarnation[u] <= incarnation'[u]
  BY BoundAssumption
<1>6. ASSUME NEW p \in Node, pc'[p] \in Running, NEW u \in DOMAIN view[p]
      PROVE  view'[p] = view[p] /\ view[p][u].incarnation \in Nat
  BY <1>2, <1>4, <1>6, RecordedType
<1> QED
  BY <1>3, <1>5, <1>6 DEF Grows

\* A handler that ends with a good successor of its view is a good step, when
\* it leaves its incarnation alone or raises it.
LEMMA ContinueStep ==
  ASSUME ProcessInv, NEW n \in Node, NEW v, Succeeds(v, n), Continue(n, v),
         incarnation' \in [Node -> 0..MaxIncarnation],
         \A u \in Node : incarnation[u] <= incarnation'[u]
  PROVE  ProcessInv' /\ Grows
<1>1. incarnation \in Incarnations /\ incarnation' \in Incarnations
  BY BoundAssumption DEF ProcessInv, Incarnations
<1>2. /\ DOMAIN view' = Node
      /\ \A p \in Node : view'[p] = IF p = n THEN v ELSE view[p]
  BY DEF Continue, ProcessInv
<1>3. ASSUME NEW p \in Node
      PROVE  GoodView(view'[p], incarnation') /\ p \notin DOMAIN view'[p]
  <2>1. GoodView(view'[p], incarnation) /\ p \notin DOMAIN view'[p]
    BY <1>2 DEF ProcessInv, Succeeds
  <2> QED
    BY <1>1, <2>1, GoodMonotonic
<1>4. pc' \in [Node -> {"new"} \cup Running \cup Ended]
  BY DEF ProcessInv, Continue, Running
<1>5. ProcessInv'
  BY <1>2, <1>3, <1>4 DEF ProcessInv, Continue
<1>6. \A p \in Node : \A u \in DOMAIN view[p] :
        /\ u \in DOMAIN view'[p]
        /\ view'[p][u].incarnation >= view[p][u].incarnation
  BY <1>2, RecordedType DEF Succeeds
<1> QED
  BY <1>5, <1>6 DEF Grows

\* So is a handler that leaves the incarnation alone.
LEMMA HandledStep ==
  ASSUME ProcessInv, NEW n \in Node, NEW v, Succeeds(v, n), Handled(n, v)
  PROVE  ProcessInv' /\ Grows
<1>1. \A u \in Node : incarnation[u] <= incarnation[u]
  BY BoundAssumption DEF ProcessInv
<1> QED
  BY <1>1, ContinueStep DEF Handled, ProcessInv

\* swim_process_gossip is a good step from a good successor of the view and
\* good gossip, whether it returns, exits or aborts.
LEMMA GossipStep ==
  ASSUME ProcessInv, NEW n \in Node, NEW v, Succeeds(v, n),
         NEW g, GoodGossip(g, incarnation), swim_process_gossip(n, v, g)
  PROVE  ProcessInv' /\ Grows
<1>1. CASE Terminate(n, "aborted") \/ Terminate(n, "exited")
  BY <1>1, TerminateStep DEF Ended
<1>2. ASSUME NEW inc \in Nat,
             inc = incarnation[n] + SelfSuspicions(n, g),
             inc <= MaxIncarnation,
             incarnation' = [incarnation EXCEPT ![n] = inc],
             Continue(n, swim_state_merge(v, n, g))
      PROVE  ProcessInv' /\ Grows
  <2> DEFINE r == swim_state_merge(v, n, g)
  <2>1. SelfSuspicions(n, g) \in Nat
    BY DEF SelfSuspicions, GoodGossip, GoodInfo, Info
  <2>2. /\ incarnation' \in [Node -> 0..MaxIncarnation]
        /\ \A u \in Node : incarnation[u] <= incarnation'[u]
    BY <1>2, <2>1, BoundAssumption DEF ProcessInv
  <2>3. /\ GoodView(r, incarnation)
        /\ DOMAIN r = DOMAIN v \cup (DOMAIN g \ {n})
        /\ \A w \in DOMAIN v : r[w].incarnation >= v[w].incarnation
    BY MergeGood, IncarnationsType, Zenon DEF ProcessInv, Succeeds
  <2> HIDE DEF r
  <2>4. \A w \in DOMAIN view[n] : /\ v[w].incarnation \in Nat
                                  /\ r[w].incarnation \in Nat
    BY <2>3 DEF Succeeds, GoodView, GoodEntry, Entry
  <2>5. Succeeds(r, n)
    BY <2>3, <2>4, RecordedType DEF Succeeds
  <2> QED
    BY <1>2, <2>2, <2>5, ContinueStep DEF r
<1>3. SelfSuspicions(n, g) \in Nat /\ incarnation[n] \in Nat
  BY BoundAssumption DEF SelfSuspicions, GoodGossip, GoodInfo, Info, ProcessInv
<1> QED
  BY <1>1, <1>2, <1>3 DEF swim_process_gossip

\* The view after the sender was noticed is a good successor.
LEMMA NoticedGood ==
  ASSUME IInv, NEW n \in Node, NEW m \in net
  PROVE  Succeeds(Noticed(n, m), n) /\ DOMAIN Noticed(n, m) = DOMAIN view[n]
<1>1. /\ m.uuid \in Node /\ m.age \in Age /\ m.incarnation \in Nat
      /\ m.incarnation <= incarnation[m.uuid]
  BY DEF IInv, GoodEvent, IsEvent
<1>2. GoodView(view[n], incarnation) /\ n \notin DOMAIN view[n]
  BY DEF IInv, ProcessInv
<1>3. incarnation \in Incarnations
  BY IncarnationsType DEF IInv, ProcessInv
<1> QED
  BY <1>1, <1>2, <1>3, NoticeGood DEF Noticed, Succeeds

------------------------------------------------------------------------------
\* One lemma for each action.

\* The parts of a datagram in the network have their types.
LEMMA DatagramType ==
  ASSUME IInv, NEW m \in net
  PROVE  /\ m.from \in Addr /\ m.age \in Age /\ m.uuid \in Node
         /\ m.type \in {"ACK", "JOIN"} => m.arg \in Node
         /\ m.type = "LEAVE" => m.arg = NilUuid
         /\ JoinAddr(m) \in Addr
         /\ GoodGossip(m.gossip, incarnation)
  BY DEF IInv, GoodEvent, IsEvent, JoinAddr

\* A new entry that is not DEAD and carries incarnation 0 is below every bound.
LEMMA FreshGood ==
  ASSUME NEW s \in Status, s # DEAD, NEW a \in Age, NEW b \in Addr,
         NEW limit \in Nat
  PROVE  GoodEntry(NewEntry([status |-> s, incarnation |-> 0, age |-> a,
                             addr |-> b]), limit)
  BY DEF GoodEntry, NewEntry, Entry

\* swim_process_ping answers from the noticed view and merges the gossip.
LEMMA PingStep ==
  ASSUME IInv, NEW n \in Node, NEW m \in net, swim_process_ping(n, m)
  PROVE  GoodStep
<1>1. Succeeds(Noticed(n, m), n)
  BY NoticedGood
<1>2. \A x \in swim_send_ack(n, Noticed(n, m), n, m.from) :
        GoodEvent(x, incarnation)
  BY <1>1, SendGood, DatagramType DEF Succeeds, IInv
<1>3. \A x \in net' : GoodEvent(x, incarnation)
  BY <1>2, TransmitGood DEF swim_process_ping
<1>4. ProcessInv' /\ Grows
  BY <1>1, GossipStep, DatagramType DEF swim_process_ping, IInv
<1> QED
  BY <1>3, <1>4 DEF GoodStep

\* A step that sends nothing keeps the network good.
LEMMA SilentGood ==
  ASSUME IInv, UNCHANGED net
  PROVE  \A m \in net' : GoodEvent(m, incarnation)
  BY DEF IInv

\* swim_process_ping_req suspects the target, when it is known, and pings it.
LEMMA PingReqStep ==
  ASSUME IInv, NEW n \in Node, NEW m \in net, swim_process_ping_req(n, m)
  PROVE  GoodStep
<1> DEFINE v == Noticed(n, m)
           r == swim_state_suspect(v, m.arg, m.from)
<1>1. Succeeds(v, n)
  BY NoticedGood
<1>2. CASE m.arg \in DOMAIN v
  <2>1. Handled(n, r) /\ Transmit(swim_send_ping(n, r, v[m.arg].addr))
    BY <1>2 DEF swim_process_ping_req
  <2>2. v[m.arg].addr \in Addr
    BY <1>1, <1>2 DEF Succeeds, GoodView, GoodEntry, Entry
  <2> HIDE DEF v
  <2>3. /\ GoodView(r, incarnation) /\ DOMAIN r = DOMAIN v
        /\ \A w \in DOMAIN v : r[w].incarnation = v[w].incarnation
    BY <1>1, <1>2, SuspectGood, DatagramType, IncarnationsType
       DEF Succeeds, IInv, ProcessInv
  <2> HIDE DEF r
  <2>4. Succeeds(r, n)
    BY <1>1, <2>3 DEF Succeeds
  <2>5. \A x \in swim_send_ping(n, r, v[m.arg].addr) : GoodEvent(x, incarnation)
    BY <2>2, <2>3, SendGood DEF IInv
  <2>6. \A x \in net' : GoodEvent(x, incarnation)
    BY <2>1, <2>5, TransmitGood
  <2>7. ProcessInv' /\ Grows
    BY <2>1, <2>4, HandledStep DEF IInv
  <2> QED
    BY <2>6, <2>7 DEF GoodStep
<1>3. CASE m.arg \notin DOMAIN v
  <2>1. Handled(n, v) /\ UNCHANGED net
    BY <1>3 DEF swim_process_ping_req
  <2> QED
    BY <1>1, <2>1, HandledStep, SilentGood DEF GoodStep, IInv
<1> QED
  BY <1>2, <1>3

\* swim_process_ack adds an unknown node, relays the ACK to a witness, revives
\* the entry it looks at and merges the gossip.
LEMMA AckStep ==
  ASSUME IInv, NEW n \in Node, NEW m \in net, swim_process_ack(n, m)
  PROVE  GoodStep
<1> DEFINE old == Noticed(n, m)
           v == AckView(old, m)
           u == AckNode(old, m)
           r == IF v[u].status \in {SUSPECT, UNKNOWN}
                THEN swim_cluster_refuted_dead(v, u) ELSE v
<1>0. Succeeds(old, n) /\ ProcessInv /\ incarnation \in Incarnations
  BY NoticedGood, IncarnationsType DEF IInv, ProcessInv
<1>1. CASE m.arg = n /\ Handled(n, old) /\ UNCHANGED net
  BY <1>0, <1>1, HandledStep, SilentGood DEF GoodStep
<1>2. CASE /\ m.arg # n
           /\ Transmit(UNION {swim_send_ack(n, v, m.arg, to)
                                : to \in AckWitness(v, u)})
           /\ swim_process_gossip(n, r, m.gossip)
  <2> HIDE DEF old
  <2>1. m.type = "ACK"
    BY DEF swim_process_ack, Arrives
  <2>2. m.arg \in Node
    BY <2>1, DatagramType
  <2>3. GoodEntry(NewEntry(AckInfo(m)), incarnation[m.arg])
    <3>1. incarnation[m.arg] \in Nat
      BY <1>0, <2>2 DEF Incarnations
    <3> QED
      BY <3>1, DatagramType, StatusType, FreshGood DEF AckInfo
  <2>4. /\ GoodView(v, incarnation) /\ DOMAIN v = DOMAIN old \cup {m.arg}
        /\ \A w \in DOMAIN old : v[w] = old[w]
    <3>1. CASE m.arg \in DOMAIN old
      BY <1>0, <3>1 DEF AckView, Succeeds
    <3>2. CASE m.arg \notin DOMAIN old
      <4>1. v = swim_state_add(old, m.arg, AckInfo(m))
        BY <3>2 DEF AckView
      <4>2. LET a == swim_state_add(old, m.arg, AckInfo(m))
            IN GoodView(a, incarnation) /\ DOMAIN a = DOMAIN old \cup {m.arg}
        BY <1>0, <2>2, <2>3, AddGood, Zenon DEF Succeeds
      <4>3. \A w \in DOMAIN old : v[w] = old[w]
        BY <3>2, <4>1 DEF swim_state_add
      <4> HIDE DEF v
      <4> QED
        BY <4>1, <4>2, <4>3
    <3> QED
      BY <3>1, <3>2
  <2>5. u \in DOMAIN v
    BY <2>4, AddedInView DEF AckNode, GoodView, IsView
  <2>6. Succeeds(v, n)
    BY <1>0, <1>2, <2>4 DEF Succeeds
  <2> HIDE DEF v, u
  <2>7. Succeeds(r, n)
    <3>1. CASE v[u].status \in {SUSPECT, UNKNOWN}
      <4>1. r = swim_cluster_refuted_dead(v, u)
        BY <3>1
      <4> HIDE DEF r
      <4> QED
        BY <1>0, <2>4, <2>5, <2>6, <4>1, RefutedGood DEF Succeeds
    <3> QED
      BY <2>6, <3>1
  <2>8. \A to \in AckWitness(v, u) : to \in Addr
    BY <2>4, <2>5 DEF AckWitness, GoodView, GoodEntry, Entry
  <2>9. \A to \in AckWitness(v, u) : \A x \in swim_send_ack(n, v, m.arg, to) :
          GoodEvent(x, incarnation)
    BY <1>0, <2>2, <2>4, <2>8, SendGood
  <2>10. \A x \in net' : GoodEvent(x, incarnation)
    BY <1>2, <2>9, TransmitGood
  <2> HIDE DEF r
  <2>11. ProcessInv' /\ Grows
    BY <1>0, <1>2, <2>7, GossipStep, DatagramType
  <2> QED
    BY <2>10, <2>11 DEF GoodStep
<1> QED
  BY <1>1, <1>2 DEF swim_process_ack

\* A forwarded JOIN keeps the header of the joining node and its cleared
\* gossip, so it is as good as the JOIN received.
LEMMA ForwardGood ==
  ASSUME IInv, NEW n \in Node, NEW m \in net, NEW to \in Addr
  PROVE  GoodEvent(Forward(n, m, to), incarnation)
<1> DEFINE f == Forward(n, m, to)
<1>1. GoodEvent(m, incarnation) /\ AddrOf[n] \in Addr /\ JoinAddr(m) \in Addr
  BY DatagramType, DeploymentAssumption DEF IInv
<1>2. m \in [type : EventType, uuid : Node, age : Age, incarnation : Nat,
             from : Addr, to : Addr, arg : Node \cup {NilUuid},
             joinaddr : Addr \cup {NoAddr}, gossip : {m.gossip}]
  BY <1>1 DEF GoodEvent, IsEvent
<1>3. f \in [type : EventType, uuid : Node, age : Age, incarnation : Nat,
             from : Addr, to : Addr, arg : Node \cup {NilUuid},
             joinaddr : Addr \cup {NoAddr}, gossip : {m.gossip}]
  BY <1>1, <1>2, Zenon DEF Forward
<1>4. /\ f.type = m.type /\ f.uuid = m.uuid /\ f.incarnation = m.incarnation
      /\ f.arg = m.arg /\ f.gossip = m.gossip
  BY <1>2 DEF Forward
<1> HIDE DEF f
<1>5. IsEvent(f)
  BY <1>1, <1>3, <1>4 DEF IsEvent, GoodEvent
<1> QED
  BY <1>1, <1>4, <1>5 DEF GoodEvent, f

\* swim_process_join adds an unknown node, forwards the JOIN to the whole view
\* and answers with an ACK.
LEMMA JoinStep ==
  ASSUME IInv, NEW n \in Node, NEW m \in net, swim_process_join(n, m)
  PROVE  GoodStep
<1> DEFINE v == Noticed(n, m)
           r == swim_state_add(v, m.arg, JoinInfo(m))
           sent == {Forward(n, m, r[u].addr) : u \in DOMAIN r}
                     \cup swim_send_ack(n, r, n, m.from)
<1>0. Succeeds(v, n) /\ ProcessInv /\ incarnation \in Incarnations
  BY NoticedGood, IncarnationsType DEF IInv, ProcessInv
<1>1. CASE m.arg \in DOMAIN v \cup {n}
  <2>1. Handled(n, v) /\ UNCHANGED net
    BY <1>1 DEF swim_process_join
  <2> QED
    BY <1>0, <2>1, HandledStep, SilentGood DEF GoodStep
<1>2. CASE m.arg \notin DOMAIN v \cup {n}
  <2>1. Handled(n, r) /\ Transmit(sent)
    BY <1>2 DEF swim_process_join
  <2>2. m.type = "JOIN"
    BY DEF swim_process_join, Arrives
  <2>3. m.arg \in Node
    BY <2>2, DatagramType
  <2>4. GoodEntry(NewEntry(JoinInfo(m)), incarnation[m.arg])
    <3>1. incarnation[m.arg] \in Nat
      BY <1>0, <2>3 DEF Incarnations
    <3> QED
      BY <3>1, DatagramType, StatusType, FreshGood DEF JoinInfo
  <2> HIDE DEF v
  <2>5. GoodView(r, incarnation) /\ DOMAIN r = DOMAIN v \cup {m.arg}
    BY <1>0, <2>3, <2>4, AddGood DEF Succeeds
  <2>6. \A w \in DOMAIN v : r[w] = v[w]
    BY <1>2 DEF swim_state_add
  <2> HIDE DEF r
  <2>7. Succeeds(r, n)
    BY <1>0, <1>2, <2>5, <2>6 DEF Succeeds
  <2>8. \A u \in DOMAIN r : r[u].addr \in Addr
    BY <2>5, Zenon DEF GoodView, GoodEntry, Entry
  <2>9. \A x \in sent : GoodEvent(x, incarnation)
    <3>1. \A u \in DOMAIN r : GoodEvent(Forward(n, m, r[u].addr), incarnation)
      BY <2>8, ForwardGood
    <3>2. \A x \in swim_send_ack(n, r, n, m.from) : GoodEvent(x, incarnation)
      BY <1>0, <2>5, SendGood, DatagramType, Zenon
    <3> QED
      BY <3>1, <3>2, Zenon
  <2>10. \A x \in net' : GoodEvent(x, incarnation)
    BY <2>1, <2>9, TransmitGood
  <2>11. ProcessInv' /\ Grows
    BY <1>0, <2>1, <2>7, HandledStep
  <2> QED
    BY <2>10, <2>11 DEF GoodStep
<1> QED
  BY <1>1, <1>2

\* swim_process_leave is handed a cleared UUID, which no node has, and so
\* changes no entry but that of the sender it has noticed.
LEMMA LeaveReceivedStep ==
  ASSUME IInv, NEW n \in Node, NEW m \in net, swim_process_leave(n, m)
  PROVE  GoodStep
<1> DEFINE v == Noticed(n, m)
<1>0. Succeeds(v, n) /\ ProcessInv
  BY NoticedGood DEF IInv
<1>1. m.type = "LEAVE"
  BY DEF swim_process_leave, Arrives
<1>2. m.arg \notin DOMAIN v
  BY <1>0, <1>1, DatagramType, NodeAssumption
     DEF NilUuid, Succeeds, GoodView, IsView
<1>3. swim_state_del(v, n, m.arg) = v
  BY <1>2 DEF swim_state_del
<1>4. Handled(n, v) /\ Transmit(swim_send_ack(n, v, n, m.from))
  BY <1>3 DEF swim_process_leave
<1> HIDE DEF v
<1>5. \A x \in swim_send_ack(n, v, n, m.from) : GoodEvent(x, incarnation)
  BY <1>0, SendGood, DatagramType DEF Succeeds
<1>6. \A x \in net' : GoodEvent(x, incarnation)
  BY <1>4, <1>5, TransmitGood
<1>7. ProcessInv' /\ Grows
  BY <1>0, <1>4, HandledStep
<1> QED
  BY <1>6, <1>7 DEF GoodStep

\* The status loop of the heartbeat declares dead only what was last seen
\* DeadAfter seconds ago, and changes nothing but statuses.
LEMMA VisitedGood ==
  ASSUME NEW v, NEW inc \in Incarnations, GoodView(v, inc), NEW last
  PROVE  LET r == Visited(v, last)
         IN /\ GoodView(r, inc) /\ DOMAIN r = DOMAIN v
            /\ \A u \in DOMAIN v : /\ r[u].incarnation = v[u].incarnation
                                   /\ r[u].addr = v[u].addr
<1> DEFINE r == Visited(v, last)
<1>1. ASSUME NEW u \in DOMAIN v
      PROVE  /\ GoodEntry(r[u], inc[u])
             /\ r[u].incarnation = v[u].incarnation /\ r[u].addr = v[u].addr
  <2>0. GoodEntry(v[u], inc[u]) /\ v[u] \in Entry /\ v[u].age \in 0..DeadAfter
    BY DEF GoodView, GoodEntry, Entry, Age
  <2>1. \/ r[u] = [v[u] EXCEPT !.status = SUSPECT]
        \/ v[u].age >= DeadAfter /\ r[u] = [v[u] EXCEPT !.status = DEAD]
        \/ r[u] = v[u]
    BY <1>1 DEF Visited, swim_cluster_declare_dead
  <2>2. CASE r[u] = [v[u] EXCEPT !.status = SUSPECT]
    BY <2>0, <2>2, StatusType DEF GoodEntry, Entry
  <2>3. CASE v[u].age >= DeadAfter /\ r[u] = [v[u] EXCEPT !.status = DEAD]
    <3>1. v[u].age = DeadAfter
      BY <2>0, <2>3, TimeAssumption
    <3> QED
      BY <2>0, <2>3, <3>1, StatusType DEF GoodEntry, Entry
  <2> QED
    BY <2>0, <2>1, <2>2, <2>3
<1>2. DOMAIN r = DOMAIN v
  BY DEF Visited
<1>3. r \in [DOMAIN v -> Entry]
  BY <1>1 DEF Visited, GoodEntry
<1> HIDE DEF r
<1> QED
  BY <1>1, <1>2, <1>3 DEF GoodView, IsView, r

\* swim_cluster_heartbeat pings, asks for indirect pings and updates statuses.
LEMMA HeartbeatStep ==
  ASSUME IInv, NEW n \in Node, swim_cluster_heartbeat(n)
  PROVE  GoodStep
<1> DEFINE v == view[n]
           size == Cardinality(DOMAIN v)
           r == [u \in DOMAIN v |-> Visited(v, u)[u]]
<1>0. /\ ProcessInv /\ incarnation \in Incarnations
      /\ GoodView(v, incarnation) /\ n \notin DOMAIN v
  BY IncarnationsType DEF IInv, ProcessInv
<1>1. \A t : GoodView(Visited(v, t), incarnation)
  BY <1>0, VisitedGood
<1>2. \A t : /\ DOMAIN Visited(v, t) = DOMAIN v
             /\ \A u \in DOMAIN v :
                  /\ Visited(v, t)[u].incarnation = v[u].incarnation
                  /\ Visited(v, t)[u].addr = v[u].addr
  BY <1>0, VisitedGood
<1>3. \A u \in DOMAIN v : u \in Node /\ v[u].addr \in Addr
                          /\ v[u].incarnation \in Nat
  BY <1>0 DEF GoodView, GoodEntry, Entry, IsView
<1>4. PICK ping \in Probe(n, v), start \in [Expired(v) -> 0..(size - 1)] :
        Transmit(ping \cup
          UNION {swim_cluster_suspect_dead(n, Visited(v, t), t, start[t])
                   : t \in Expired(v)})
  BY Zenon DEF swim_cluster_heartbeat
<1>5. \A x \in ping : GoodEvent(x, incarnation)
  BY <1>0, <1>3, SendGood DEF Probe, ProbeTargets
<1>6. ASSUME NEW t \in Expired(v),
             NEW x \in swim_cluster_suspect_dead(n, Visited(v, t), t, start[t])
      PROVE  GoodEvent(x, incarnation)
  <2>1. t \in DOMAIN v
    BY <1>6 DEF Expired
  <2> DEFINE w == Visited(v, t)
  <2>2. PICK u \in DOMAIN w : x \in swim_send_ping_req(n, w, t, w[u].addr)
    BY <1>6 DEF swim_cluster_suspect_dead, PingReqTargets
  <2>3. w[u].addr \in Addr
    BY <1>2, <1>3, <2>2
  <2>4. GoodView(w, incarnation) /\ t \in Node
    BY <1>1, <1>3, <2>1
  <2> HIDE DEF w, v
  <2> QED
    BY <1>0, <2>2, <2>3, <2>4, SendGood
<1>7. \A x \in net' : GoodEvent(x, incarnation)
  BY <1>4, <1>5, <1>6, TransmitGood
<1>8. /\ pc' = [pc EXCEPT ![n] = "recv"] /\ hbAge' = [hbAge EXCEPT ![n] = 0]
      /\ view' = [view EXCEPT ![n] = r] /\ UNCHANGED <<incarnation, downAge>>
  BY DEF swim_cluster_heartbeat
<1>9. /\ GoodView(r, incarnation) /\ DOMAIN r = DOMAIN v
      /\ \A u \in DOMAIN v : r[u].incarnation = v[u].incarnation
  <2>1. DOMAIN r = DOMAIN v /\ \A u \in DOMAIN v : r[u] = Visited(v, u)[u]
    OBVIOUS
  <2>2. \A u \in DOMAIN v : GoodEntry(r[u], incarnation[u])
    BY <1>1, <1>2, <2>1 DEF GoodView
  <2>3. r \in [DOMAIN r -> Entry]
    BY <2>1, <2>2, Zenon DEF GoodEntry
  <2> HIDE DEF r
  <2> QED
    BY <1>2, <1>3, <2>1, <2>2, <2>3 DEF GoodView, IsView
<1> HIDE DEF r, size
<1>10. \A p \in Node : view'[p] = IF p = n THEN r ELSE view[p]
  BY <1>0, <1>8 DEF ProcessInv
<1>11. ProcessInv'
  BY <1>0, <1>8, <1>9, <1>10, BoundAssumption, SMTT(30) DEF ProcessInv, Running
<1>12. Grows
  <2>1. \A u \in Node : incarnation[u] <= incarnation'[u]
    BY <1>0, <1>8 DEF Incarnations
  <2>2. ASSUME NEW p \in Node, NEW u \in DOMAIN view[p]
        PROVE  /\ u \in DOMAIN view'[p]
               /\ view'[p][u].incarnation >= view[p][u].incarnation
    <3>1. CASE p = n
      BY <1>3, <1>9, <1>10, <3>1
    <3>2. CASE p # n
      BY <1>0, <1>10, <3>2, RecordedType
    <3> QED
      BY <3>1, <3>2
  <2> QED
    BY <2>1, <2>2, Zenon DEF Grows
<1> QED
  BY <1>7, <1>11, <1>12 DEF GoodStep

\* A step that touches neither views nor incarnations grows nothing.
LEMMA SameGrows ==
  ASSUME ProcessInv, UNCHANGED <<view, incarnation>>
  PROVE  Grows
<1>1. \A u \in Node : incarnation[u] <= incarnation'[u]
  BY BoundAssumption DEF ProcessInv
<1> QED
  BY <1>1, RecordedType DEF Grows

\* swim_cluster_leave sends LEAVE events whose leave_uuid is cleared.
LEMMA LeaveStep ==
  ASSUME IInv, NEW n \in Node, swim_cluster_leave(n)
  PROVE  GoodStep
<1> DEFINE v == view[n]
           Leave(u) == swim_event_init(n, "LEAVE", NilUuid, v[u].addr, Nothing)
<1>0. ProcessInv
  BY DEF IInv
<1>1. \A u \in DOMAIN v : v[u].addr \in Addr
  BY <1>0 DEF ProcessInv, GoodView, GoodEntry, Entry
<1>2. GoodGossip(Nothing, incarnation) /\ "LEAVE" \in EventType
  BY DEF GoodGossip, IsGossip, Nothing, EventType
<1>3. \A u \in DOMAIN v : GoodEvent(Leave(u), incarnation)
  BY <1>0, <1>1, <1>2, EventInitGood
<1>4. PICK S \in SUBSET DOMAIN v : Transmit({Leave(u) : u \in S})
  BY Zenon DEF swim_cluster_leave
<1>5. \A x \in {Leave(u) : u \in S} : GoodEvent(x, incarnation)
  BY <1>3
<1>6. \A x \in net' : GoodEvent(x, incarnation)
  BY <1>4, <1>5, TransmitGood
<1>7. UNCHANGED <<pc, incarnation, view, hbAge, downAge>>
  BY DEF swim_cluster_leave
<1>8. ProcessInv'
  BY <1>0, <1>7 DEF ProcessInv
<1> QED
  BY <1>0, <1>6, <1>7, <1>8, SameGrows DEF GoodStep

\* A process that starts joins with its own UUID.
LEMMA StartStep ==
  ASSUME IInv, NEW n \in Node, NEW seed \in Seeds[n],
         swim_server_start(n, seed)
  PROVE  GoodStep
<1> DEFINE sent == {swim_cluster_join(n, to) : to \in {seed} \ {NoAddr}}
<1>0. ProcessInv
  BY DEF IInv
<1>1. seed \in Addr \cup {NoAddr}
  BY DeploymentAssumption
<1>2. GoodGossip(Nothing, incarnation) /\ "JOIN" \in EventType
  BY DEF GoodGossip, IsGossip, Nothing, EventType
<1>3. \A x \in sent : GoodEvent(x, incarnation)
  BY <1>0, <1>1, <1>2, EventInitGood DEF swim_cluster_join
<1>4. \A x \in net' : GoodEvent(x, incarnation)
  BY <1>3, TransmitGood DEF swim_server_start
<1>5. ProcessInv'
  BY <1>0, Zenon DEF ProcessInv, swim_server_start, Running
<1> QED
  BY <1>0, <1>4, <1>5, SameGrows DEF GoodStep, swim_server_start

\* A good event is good a second later.
LEMMA AgedEventGood ==
  ASSUME NEW m, NEW inc \in Incarnations, GoodEvent(m, inc)
  PROVE  GoodEvent(AgedEvent(m), inc)
<1> DEFINE f == AgedEvent(m)
<1>1. m \in [type : EventType, uuid : Node, age : Age, incarnation : Nat,
             from : Addr, to : Addr, arg : Node \cup {NilUuid},
             joinaddr : Addr \cup {NoAddr}, gossip : {m.gossip}]
  BY DEF GoodEvent, IsEvent
<1>2. /\ f.type = m.type /\ f.uuid = m.uuid /\ f.incarnation = m.incarnation
      /\ f.arg = m.arg /\ f.gossip = Aged(m.gossip)
  BY <1>1 DEF AgedEvent
<1>3. Older(m.age) \in Age
  BY <1>1, OlderType
<1>4. f \in [type : EventType, uuid : Node, age : Age, incarnation : Nat,
             from : Addr, to : Addr, arg : Node \cup {NilUuid},
             joinaddr : Addr \cup {NoAddr}, gossip : {Aged(m.gossip)}]
  BY <1>1, <1>3, Zenon DEF AgedEvent
<1> HIDE DEF f
<1>5. GoodGossip(f.gossip, inc)
  BY <1>2, AgedGossipGood DEF GoodEvent
<1>6. IsEvent(f)
  BY <1>2, <1>4, <1>5 DEF IsEvent, GoodGossip
<1> QED
  BY <1>2, <1>5, <1>6, Zenon DEF GoodEvent, f

\* Time passes: nothing becomes fresher.
LEMMA TickStep ==
  ASSUME IInv, Tick
  PROVE  GoodStep
<1>0. ProcessInv /\ incarnation \in Incarnations
  BY IncarnationsType DEF IInv, ProcessInv
<1>1. /\ DOMAIN view' = Node /\ \A n \in Node : view'[n] = Aged(view[n])
      /\ UNCHANGED <<pc, incarnation>>
  BY DEF Tick
<1>2. ASSUME NEW n \in Node
      PROVE  /\ GoodView(view'[n], incarnation)
             /\ DOMAIN view'[n] = DOMAIN view[n]
             /\ \A u \in DOMAIN view[n] :
                  view'[n][u].incarnation = view[n][u].incarnation
  <2>1. GoodView(view[n], incarnation)
    BY <1>0 DEF ProcessInv
  <2>2. /\ GoodView(Aged(view[n]), incarnation)
        /\ DOMAIN Aged(view[n]) = DOMAIN view[n]
        /\ \A u \in DOMAIN view[n] :
             Aged(view[n])[u].incarnation = view[n][u].incarnation
    BY <1>0, <2>1, AgedViewGood
  <2>3. view'[n] = Aged(view[n])
    BY <1>1
  <2> QED
    BY <2>2, <2>3
<1>3. hbAge' \in [Node -> 0..(HEARTBEAT_INTERVAL + 1)]
  <2>1. hbAge \in [Node -> 0..(HEARTBEAT_INTERVAL + 1)]
    BY <1>0 DEF ProcessInv
  <2>2. hbAge' = [n \in Node |->
                    IF pc[n] \in Running /\ hbAge[n] <= HEARTBEAT_INTERVAL
                    THEN hbAge[n] + 1 ELSE hbAge[n]]
    BY DEF Tick
  <2> QED
    BY <2>1, <2>2, BoundAssumption
<1>4. downAge' \in [Node -> Age]
  <2>1. downAge \in [Node -> Age]
    BY <1>0 DEF ProcessInv
  <2>2. downAge' = [n \in Node |-> IF pc[n] \in Ended THEN Older(downAge[n])
                                  ELSE downAge[n]]
    BY DEF Tick
  <2>3. \A n \in Node : Older(downAge[n]) \in Age
    BY <2>1, OlderType
  <2> QED
    BY <2>1, <2>2, <2>3
<1>5. ProcessInv'
  BY <1>0, <1>1, <1>2, <1>3, <1>4 DEF ProcessInv
<1>6. Grows
  <2>1. \A u \in Node : incarnation[u] <= incarnation'[u]
    BY <1>0, <1>1 DEF Incarnations
  <2> QED
    BY <1>0, <1>2, <2>1, RecordedType DEF Grows
<1>7. \A m \in net : GoodEvent(AgedEvent(m), incarnation)
  BY <1>0, AgedEventGood DEF IInv
<1>8. \A x \in net' : GoodEvent(x, incarnation)
  BY <1>7 DEF Tick
<1> QED
  BY <1>5, <1>6, <1>8 DEF GoodStep

------------------------------------------------------------------------------
\* Every step is good.
LEMMA NextStep ==
  ASSUME IInv, Next
  PROVE  GoodStep
<1>0. ProcessInv
  BY DEF IInv
<1>1. CASE Tick
  BY <1>1, TickStep
<1>2. ASSUME NEW n \in Node, Step(n) PROVE GoodStep
  <2>1. ASSUME NEW seed \in Seeds[n], swim_server_start(n, seed) PROVE GoodStep
    BY <2>1, StartStep
  <2>2. CASE Stop(n)
    BY <1>0, <2>2, TerminateStep, SilentGood DEF Stop, Ended, GoodStep
  <2>3. ASSUME NEW m \in net, Receive(n, m) PROVE GoodStep
    <3>1. CASE swim_process_ping(n, m)
      BY <3>1, PingStep
    <3>2. CASE swim_process_ping_req(n, m)
      BY <3>2, PingReqStep
    <3>3. CASE swim_process_ack(n, m)
      BY <3>3, AckStep
    <3>4. CASE swim_process_join(n, m)
      BY <3>4, JoinStep
    <3>5. CASE swim_process_leave(n, m)
      BY <3>5, LeaveReceivedStep
    <3>6. CASE NoticeFails(n, m)
      BY <1>0, <3>6, TerminateStep, SilentGood DEF NoticeFails, Ended, GoodStep
    <3> QED
      BY <2>3, <3>1, <3>2, <3>3, <3>4, <3>5, <3>6 DEF Receive
  <2>4. CASE swim_cluster_heartbeat(n)
    BY <2>4, HeartbeatStep
  <2>5. CASE swim_cluster_leave(n)
    BY <2>5, LeaveStep
  <2> QED
    BY <1>2, <2>1, <2>2, <2>3, <2>4, <2>5 DEF Step
<1> QED
  BY <1>1, <1>2 DEF Next

\* The invariant holds initially: nobody knows anybody.
LEMMA InitIInv == Init => IInv
<1> SUFFICES ASSUME Init PROVE IInv
  OBVIOUS
<1>1. \A n \in Node : GoodView(view[n], incarnation) /\ n \notin DOMAIN view[n]
  BY DEF Init, GoodView, IsView, Nothing
<1> QED
  BY <1>1, BoundAssumption, TimeAssumption DEF Init, IInv, ProcessInv, Age

\* The invariant is inductive.
LEMMA NextIInv == IInv /\ [Next]_vars => IInv'
<1> SUFFICES ASSUME IInv, [Next]_vars PROVE IInv'
  OBVIOUS
<1>1. CASE Next
  <2>1. GoodStep
    BY <1>1, NextStep
  <2>2. incarnation \in Incarnations /\ incarnation' \in Incarnations
    BY <2>1, BoundAssumption DEF IInv, GoodStep, ProcessInv, Incarnations
  <2>3. \A u \in Node : incarnation[u] <= incarnation'[u]
    BY <2>1 DEF GoodStep, Grows
  <2>4. ASSUME NEW m \in net' PROVE GoodEvent(m, incarnation')
    <3>1. GoodEvent(m, incarnation)
      BY <2>1, <2>4 DEF GoodStep
    <3>2. GoodGossip(m.gossip, incarnation')
      BY <2>2, <2>3, <3>1, GoodMonotonic DEF GoodEvent
    <3>3. /\ m.uuid \in Node /\ m.incarnation \in Nat
          /\ incarnation[m.uuid] \in Nat /\ incarnation'[m.uuid] \in Nat
      BY <2>2, <3>1 DEF GoodEvent, IsEvent, Incarnations
    <3> QED
      BY <2>3, <3>1, <3>2, <3>3 DEF GoodEvent
  <2> QED
    BY <2>1, <2>4 DEF IInv, GoodStep
<1>2. CASE UNCHANGED vars
  BY <1>2 DEF IInv, ProcessInv, vars
<1> QED
  BY <1>1, <1>2

\* The inductive invariant holds in every reachable state.
THEOREM InvariantHolds == Spec => []IInv
  BY InitIInv, NextIInv, PTL DEF Spec

\* Type correctness: whatever is received, merged, forwarded or timed out, every
\* variable keeps the type of the C object it stands for; in particular no
\* member is ever recorded without an address.
THEOREM TypeCorrect == Spec => []TypeOK
<1>1. IInv => TypeOK
  BY DEF IInv, ProcessInv, GoodView, GoodEvent, TypeOK
<1> QED
  BY <1>1, InvariantHolds, PTL

\* No view, header or gossip record is ahead of the process it is about: only a
\* process itself raises its incarnation (swim_process_gossip).
THEOREM IncarnationSafe == Spec => []IncarnationNeverAhead
<1>1. IInv => IncarnationNeverAhead
  BY DEF IInv, ProcessInv, GoodView, GoodEntry, GoodEvent, GoodGossip,
         GoodInfo, IncarnationNeverAhead
<1> QED
  BY <1>1, InvariantHolds, PTL

\* Whoever is recorded as dead was last seen DeadAfter seconds ago or earlier,
\* in every view and in all gossip (swim_cluster_heartbeat, swim_state_merge).
THEOREM DeathSafe == Spec => []DeadIsSilent
<1>1. IInv => DeadIsSilent
  BY DEF IInv, ProcessInv, GoodView, GoodEntry, GoodEvent, GoodGossip,
         GoodInfo, DeadIsSilent
<1> QED
  BY <1>1, InvariantHolds, PTL

\* No process ever is in its own view, so the first assertion of swim_state_add
\* never fails.
THEOREM SelfExcluded == Spec => []NeverInOwnView
<1>1. IInv => NeverInOwnView
  BY DEF IInv, ProcessInv, NeverInOwnView
<1> QED
  BY <1>1, InvariantHolds, PTL

\* A running process takes no incarnation back that it has recorded for a
\* member, in any step of any process.
THEOREM ViewsAdvance == Spec => ViewAdvances
<1> DEFINE A == \A n \in Node : pc'[n] \in Running =>
                  \A u \in DOMAIN view[n] \cap DOMAIN view'[n] :
                    view'[n][u].incarnation >= view[n][u].incarnation
<1>1. IInv /\ [Next]_vars => [A]_vars
  BY NextStep DEF GoodStep, Grows
<1> QED
  BY <1>1, InvariantHolds, PTL DEF Spec, ViewAdvances

\* A process that hears it is suspected and goes on ends above the incarnation
\* it was suspected in, since no record is ahead of it and every copy of the
\* suspicion counts (swim_process_gossip).
THEOREM RefutationWins == Spec => RefutationOutranks
<1> DEFINE Hears(n, m) ==
             /\ swim_process_ping(n, m) \/ (swim_process_ack(n, m) /\ m.arg # n)
             /\ pc'[n] \in Running
             /\ n \in DOMAIN m.gossip /\ m.gossip[n].status = SUSPECT
           A == \A n \in Node : \A m \in net :
                  Hears(n, m) => incarnation'[n] > m.gossip[n].incarnation
<1>1. ASSUME IInv, NEW n \in Node, NEW m \in net, Hears(n, m)
      PROVE  incarnation'[n] > m.gossip[n].incarnation
  <2>1. PICK v : swim_process_gossip(n, v, m.gossip)
    BY <1>1, Zenon DEF swim_process_ping, swim_process_ack
  <2>2. pc[n] \in Running /\ pc \in [Node -> {"new"} \cup Running \cup Ended]
    BY <1>1, Zenon DEF IInv, ProcessInv, swim_process_ping, swim_process_ack,
                       Arrives, Running
  <2>3. \A how \in Ended : ~Terminate(n, how)
    BY <1>1, <2>2, Zenon DEF Terminate, Running, Ended
  <2>4. incarnation' = [incarnation EXCEPT
                          ![n] = incarnation[n] + SelfSuspicions(n, m.gossip)]
    BY <2>1, <2>3 DEF swim_process_gossip, Ended
  <2>5. /\ m.gossip[n].count \in Nat \ {0} /\ m.gossip[n].incarnation \in Nat
        /\ m.gossip[n].incarnation <= incarnation[n]
    BY <1>1, DatagramType DEF GoodGossip, GoodInfo, Info
  <2>6. incarnation \in [Node -> 0..MaxIncarnation]
    BY <1>1 DEF IInv, ProcessInv
  <2>7. SelfSuspicions(n, m.gossip) = m.gossip[n].count
    BY <1>1 DEF SelfSuspicions
  <2> QED
    BY <2>4, <2>5, <2>6, <2>7, BoundAssumption
<1>2. IInv => [A]_vars
  BY <1>1
<1> QED
  BY <1>2, InvariantHolds, PTL DEF RefutationOutranks

==============================================================================
