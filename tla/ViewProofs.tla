------------------------------ MODULE ViewProofs ------------------------------
(***************************************************************************)
(* The array of module ViewArray is sorted and implements the map of       *)
(* module ViewMap, for every set of UUIDs and every size of the first      *)
(* array.                                                                  *)
(***************************************************************************)
EXTENDS ViewArray, FiniteSetTheorems, SequenceTheorems, TLAPS

\* An array whose first n slots are in use and in order, and whose other slots
\* are still cleared as far as swim_state_init has cleared them
Shape(a, n) ==
  /\ a \in Seq(Slot) /\ n \in Nat /\ n <= Len(a) /\ Cleared <= Len(a)
  /\ Ascending(a, n)
  /\ \A i \in Nat : n < i /\ i <= Cleared => a[i].entry.witness = NoAddr

\* Every witness of map m has asked
AllAsked(m, who) ==
  \A x \in DOMAIN m : m[x].witness # NoAddr => <<x, m[x].witness>> \in who

ArrayInv ==
  /\ Shape(view, view_size)
  /\ DOMAIN Members \subseteq Node \ {Self}
  /\ crashed \in BOOLEAN
  /\ asked \subseteq Node \X Addr
  /\ view_size <= Cleared => AllAsked(Members, asked)

------------------------------------------------------------------------------
\* The map holds the entry of every slot in use
LEMMA MapOfFacts ==
  ASSUME NEW a \in Seq(Slot), NEW n \in Nat, n <= Len(a), Ascending(a, n)
  PROVE  /\ DOMAIN MapOf(a, n) = {a[i].uuid : i \in 1..n}
         /\ \A i \in 1..n : MapOf(a, n)[a[i].uuid] = a[i].entry
         /\ \A i, j \in 1..n : a[i].uuid = a[j].uuid => i = j
         /\ \A i \in 1..n : a[i] \in Slot
         /\ MapOf(a, n) \in [{a[i].uuid : i \in 1..n} -> Map!Entry]
<1>1. \A i \in 1..n : a[i] \in Slot /\ a[i].uuid \in Nat
  <2>1. \A i \in 1..n : a[i] \in Slot
    BY ElementOfSeq
  <2>2. \A s \in Slot : s.uuid \in Nat
    BY DEF Slot
  <2>3. QED BY <2>1, <2>2
<1>2. \A i, j \in 1..n : a[i].uuid = a[j].uuid => i = j
  BY <1>1 DEF Ascending
<1>3. ASSUME NEW i \in 1..n
      PROVE  MapOf(a, n)[a[i].uuid] = a[i].entry
  <2>1. (CHOOSE k \in 1..n : a[k].uuid = a[i].uuid) = i
    BY <1>2, <1>3
  <2>2. QED BY <1>3, <2>1 DEF MapOf
<1>4. DOMAIN MapOf(a, n) = {a[i].uuid : i \in 1..n}
  BY DEF MapOf
<1>5. MapOf(a, n) \in [{a[i].uuid : i \in 1..n} -> Map!Entry]
  <2>1. MapOf(a, n) = [u \in {a[i].uuid : i \in 1..n} |-> MapOf(a, n)[u]]
    BY DEF MapOf
  <2>2. \A i \in 1..n : a[i].entry \in Map!Entry
    BY <1>1 DEF Slot
  <2>3. \A u \in {a[i].uuid : i \in 1..n} : MapOf(a, n)[u] \in Map!Entry
    BY <1>3, <2>2
  <2>4. QED BY <2>1, <2>3
<1>6. QED BY <1>1, <1>2, <1>3, <1>4, <1>5

\* and it is the only map that does
LEMMA MapOfUnique ==
  ASSUME NEW a \in Seq(Slot), NEW n \in Nat, n <= Len(a), Ascending(a, n),
         NEW D, NEW m \in [D -> Map!Entry],
         D = {a[i].uuid : i \in 1..n},
         \A i \in 1..n : m[a[i].uuid] = a[i].entry
  PROVE  MapOf(a, n) = m
<1>1. ASSUME NEW u \in D
      PROVE  MapOf(a, n)[u] = m[u]
  <2>1. PICK i \in 1..n : a[i].uuid = u
    BY <1>1
  <2>2. QED BY <2>1, MapOfFacts
<1>2. MapOf(a, n) = [u \in D |-> MapOf(a, n)[u]]
  BY DEF MapOf
<1>3. m = [u \in D |-> m[u]]
  OBVIOUS
<1>4. QED BY <1>1, <1>2, <1>3

\* There are as many members as slots in use
LEMMA MapOfSize ==
  ASSUME NEW a \in Seq(Slot), NEW n \in Nat, n <= Len(a), Ascending(a, n)
  PROVE  /\ IsFiniteSet(DOMAIN MapOf(a, n))
         /\ Cardinality(DOMAIN MapOf(a, n)) = n
<1> DEFINE S == {a[i].uuid : i \in 1..n}
           f == [i \in 1..n |-> a[i].uuid]
<1>1. f \in Bijection(1..n, S)
  <2>1. \A i, j \in 1..n : a[i].uuid = a[j].uuid => i = j
    BY MapOfFacts
  <2>2. f \in [1..n -> S] /\ \A u \in S : \E i \in 1..n : f[i] = u
    OBVIOUS
  <2>3. IsInjective(f)
    BY <2>1 DEF IsInjective
  <2>4. QED BY <2>2, <2>3 DEF Bijection, Injection, Surjection
<1>2. IsFiniteSet(1..n) /\ Cardinality(1..n) = n
  BY FS_Interval
<1>3. IsFiniteSet(S) /\ Cardinality(S) = Cardinality(1..n)
  <2>1. ExistsBijection(1..n, S)
    BY <1>1 DEF ExistsBijection
  <2>2. QED BY <1>2, <2>1, FS_Bijection
<1>4. DOMAIN MapOf(a, n) = S
  BY DEF MapOf
<1>5. QED BY <1>2, <1>3, <1>4

------------------------------------------------------------------------------
\* Changing the entry of a slot changes that of its UUID and nothing else
LEMMA SetEntryFacts ==
  ASSUME NEW a, NEW n, Shape(a, n), NEW i \in 1..n, NEW e \in Map!Entry
  PROVE  /\ Shape(SetEntry(a, i, e), n)
         /\ MapOf(SetEntry(a, i, e), n) = [MapOf(a, n) EXCEPT ![a[i].uuid] = e]
<1> DEFINE b == SetEntry(a, i, e)
           S == {a[j].uuid : j \in 1..n}
           m == [MapOf(a, n) EXCEPT ![a[i].uuid] = e]
<1>0. /\ a \in Seq(Slot) /\ n \in Nat /\ n <= Len(a) /\ Cleared <= Len(a)
      /\ Ascending(a, n) /\ Len(a) \in Nat /\ DOMAIN a = 1..Len(a)
  BY DEF Shape
<1>1. \A j \in 1..Len(a) : a[j] \in Slot
  BY <1>0, ElementOfSeq
<1>2. b = [j \in 1..Len(a) |-> IF j = i THEN [a[i] EXCEPT !.entry = e] ELSE a[j]]
  BY <1>0 DEF SetEntry
<1>3. /\ [a[i] EXCEPT !.entry = e] \in Slot
      /\ [a[i] EXCEPT !.entry = e].uuid = a[i].uuid
      /\ [a[i] EXCEPT !.entry = e].entry = e
  BY <1>0, <1>1 DEF Slot
<1>4. b \in Seq(Slot) /\ Len(b) = Len(a)
  <2>1. b \in [1..Len(a) -> Slot]
    BY <1>1, <1>2, <1>3
  <2>2. QED BY <1>0, <2>1
<1>5. \A j \in 1..n : /\ b[j].uuid = a[j].uuid
                      /\ b[j].entry = IF j = i THEN e ELSE a[j].entry
  BY <1>0, <1>2, <1>3
<1>6. \A j \in 1..Len(a) : j > n => b[j] = a[j]
  BY <1>0, <1>2
<1> HIDE DEF b
<1>7. Ascending(b, n)
  BY <1>0, <1>5 DEF Ascending
<1>8. Shape(b, n)
  <2>1. \A j \in Nat : n < j /\ j <= Cleared => b[j].entry.witness = NoAddr
    <3> SUFFICES ASSUME NEW j \in Nat, n < j, j <= Cleared
                 PROVE  b[j].entry.witness = NoAddr
      OBVIOUS
    <3>1. j \in 1..Len(a) /\ b[j] = a[j]
      BY <1>0, <1>6, ArrayAssumption
    <3>2. QED BY <3>1 DEF Shape
  <2>2. QED BY <1>0, <1>4, <1>7, <2>1 DEF Shape
<1>9. {b[j].uuid : j \in 1..n} = S
  BY <1>5
<1>10. /\ MapOf(a, n) \in [S -> Map!Entry]
       /\ \A j \in 1..n : MapOf(a, n)[a[j].uuid] = a[j].entry
       /\ \A j, k \in 1..n : a[j].uuid = a[k].uuid => j = k
  BY <1>0, MapOfFacts
<1>11. m \in [S -> Map!Entry] /\ \A j \in 1..n : m[b[j].uuid] = b[j].entry
  <2>1. m \in [S -> Map!Entry]
    BY <1>10
  <2>2. \A u \in S : m[u] = IF u = a[i].uuid THEN e ELSE MapOf(a, n)[u]
    BY <1>10
  <2>3. ASSUME NEW j \in 1..n PROVE m[b[j].uuid] = b[j].entry
    BY <1>5, <1>10, <2>2
  <2>4. QED BY <2>1, <2>3
<1> HIDE DEF m, S
<1>12. MapOf(b, n) = m
  <2>1. n <= Len(b)
    BY <1>0, <1>4
  <2>2. QED BY <1>0, <1>4, <1>7, <1>9, <1>11, <2>1, MapOfUnique
<1>13. QED BY <1>8, <1>12 DEF b, m

------------------------------------------------------------------------------
\* Sorting rearranges the first n slots and leaves the others alone
LEMMA SortFacts ==
  ASSUME NEW a \in Seq(Slot), NEW n \in Nat, n <= Len(a), NEW b \in qsort(a, n)
  PROVE  /\ b \in Seq(Slot) /\ Len(b) = Len(a) /\ Ascending(b, n)
         /\ \A i \in 1..n : \E j \in 1..n : b[i] = a[j]
         /\ \A j \in 1..n : \E i \in 1..n : b[i] = a[j]
         /\ \A i \in 1..Len(a) : i > n => b[i] = a[i]
<1>1. PICK p \in Bijection(1..n, 1..n) :
        b = [i \in DOMAIN a |-> IF i \in 1..n THEN a[p[i]] ELSE a[i]]
  BY DEF qsort
<1>2. /\ p \in [1..n -> 1..n]
      /\ \A j \in 1..n : \E i \in 1..n : p[i] = j
  BY DEF Bijection, Injection, Surjection
<1>3. DOMAIN a = 1..Len(a) /\ Len(a) \in Nat /\ \A i \in 1..Len(a) : a[i] \in Slot
  BY ElementOfSeq
<1>4. \A i \in 1..n : b[i] = a[p[i]] /\ p[i] \in 1..n /\ p[i] \in 1..Len(a)
  BY <1>1, <1>2, <1>3
<1>5. \A i \in 1..Len(a) : i > n => b[i] = a[i]
  BY <1>1, <1>3
<1>6. b \in Seq(Slot) /\ Len(b) = Len(a)
  <2>1. \A i \in 1..Len(a) : b[i] \in Slot
    <3> SUFFICES ASSUME NEW i \in 1..Len(a) PROVE b[i] \in Slot
      OBVIOUS
    <3>1. CASE i \in 1..n
      BY <1>3, <1>4, <3>1
    <3>2. CASE i \notin 1..n
      BY <1>1, <1>3, <3>2
    <3>3. QED BY <3>1, <3>2
  <2>2. b = [i \in 1..Len(a) |-> b[i]]
    BY <1>1, <1>3
  <2>3. b \in [1..Len(a) -> Slot]
    BY <2>1, <2>2
  <2>4. QED BY <1>3, <2>3
<1>7. Ascending(b, n)
  BY DEF qsort
<1>8. ASSUME NEW i \in 1..n PROVE \E j \in 1..n : b[i] = a[j]
  <2>1. p[i] \in 1..n /\ b[i] = a[p[i]]
    BY <1>4
  <2>2. QED BY <2>1
<1>9. ASSUME NEW j \in 1..n PROVE \E i \in 1..n : b[i] = a[j]
  <2>1. PICK i \in 1..n : p[i] = j
    BY <1>2
  <2>2. b[i] = a[j]
    BY <1>4, <2>1
  <2>3. QED BY <2>2
<1>10. QED BY <1>5, <1>6, <1>7, <1>8, <1>9

\* The slots of an array that is made longer stay where they are
LEMMA Appended ==
  ASSUME NEW s \in Seq(Slot), NEW t \in Seq(Slot)
  PROVE  /\ s \o t \in Seq(Slot) /\ Len(s \o t) = Len(s) + Len(t)
         /\ \A i \in 1..Len(s) : (s \o t)[i] = s[i]
<1>1. /\ s \o t \in Seq(Slot) /\ Len(s \o t) = Len(s) + Len(t)
  BY ConcatProperties
<1>2. QED BY <1>1

\* Growing keeps the slots and makes room
LEMMA GrownFacts ==
  ASSUME ArrayInv, NEW a \in Grown
  PROVE  /\ Shape(a, view_size) /\ view_size < Len(a)
         /\ \A i \in 1..view_size : a[i] = view[i]
<1>0. /\ view \in Seq(Slot) /\ view_size \in Nat /\ view_size <= Len(view)
      /\ Cleared <= Len(view) /\ Ascending(view, view_size)
      /\ Len(view) \in Nat /\ Cleared \in Nat /\ Cleared > 0
      /\ \A i \in Nat : view_size < i /\ i <= Cleared
                        => view[i].entry.witness = NoAddr
  BY ArrayAssumption DEF ArrayInv, Shape
<1>1. CASE ~Full
  BY <1>0, <1>1 DEF Grown, Full, capacity, Shape
<1>2. CASE Full
  <2>1. PICK more \in [1..Len(view) -> {Blank(x, w) :
                          x \in Addr, w \in Addr \cup {NoAddr}}] :
          a = view \o more
    BY <1>2 DEF Grown, capacity
  <2>2. ASSUME NEW x \in Addr, NEW w \in Addr \cup {NoAddr}
        PROVE  Blank(x, w) \in Slot
    <3>1. Map!UNKNOWN \in Map!Status /\ 0 \in Map!Age
      BY ArrayAssumption DEF Map!Status, Map!UNKNOWN, Map!Age
    <3>2. [status |-> Map!UNKNOWN, incarnation |-> 0, age |-> 0, addr |-> x,
           witness |-> w] \in Map!Entry
      BY <2>2, <3>1 DEF Map!Entry
    <3>3. QED BY <3>2 DEF Blank, Slot
  <2>3. more \in Seq(Slot) /\ Len(more) = Len(view)
    <3>1. more \in [1..Len(view) -> Slot]
      <4>1. {Blank(x, w) : x \in Addr, w \in Addr \cup {NoAddr}} \subseteq Slot
        BY <2>2
      <4>2. QED BY <4>1
    <3>2. QED BY <1>0, <3>1
  <2>4. /\ a \in Seq(Slot) /\ Len(a) = Len(view) + Len(view)
        /\ \A i \in 1..Len(view) : a[i] = view[i]
    <3>0. view \in Seq(Slot) /\ more \in Seq(Slot)
      BY <1>0, <2>3
    <3>1. /\ view \o more \in Seq(Slot)
          /\ Len(view \o more) = Len(view) + Len(more)
          /\ \A i \in 1..Len(view) : (view \o more)[i] = view[i]
      BY <3>0, Appended
    <3>2. QED BY <1>0, <2>1, <2>3, <3>1
  <2>5. view_size < Len(a) /\ \A i \in 1..view_size : a[i] = view[i]
    BY <1>0, <2>4
  <2>6. Ascending(a, view_size)
    BY <1>0, <2>5 DEF Ascending
  <2>7. \A i \in Nat : view_size < i /\ i <= Cleared
                        => a[i].entry.witness = NoAddr
    <3> SUFFICES ASSUME NEW i \in Nat, view_size < i, i <= Cleared
                 PROVE  a[i].entry.witness = NoAddr
      OBVIOUS
    <3>1. i \in 1..Len(view) /\ a[i] = view[i]
      BY <1>0, <2>4
    <3>2. QED BY <1>0, <3>1
  <2>8. QED BY <1>0, <2>4, <2>5, <2>6, <2>7 DEF Shape
<1>3. QED BY <1>1, <1>2

\* The slot after the last one takes the info and keeps its witness
LEMMA FilledFacts ==
  ASSUME NEW a, NEW n, Shape(a, n), n < Len(a), NEW u \in Node, NEW info \in Infos
  PROVE  /\ Filled(a, n + 1, u, info) \in Seq(Slot)
         /\ Len(Filled(a, n + 1, u, info)) = Len(a)
         /\ \A i \in 1..Len(a) : i # n + 1 => Filled(a, n + 1, u, info)[i] = a[i]
         /\ Filled(a, n + 1, u, info)[n + 1] =
              [uuid |-> u, entry |-> [info EXCEPT !.witness = a[n + 1].entry.witness]]
         /\ [info EXCEPT !.witness = a[n + 1].entry.witness] \in Map!Entry
         /\ a[n + 1].entry.witness \in Addr \cup {NoAddr}
         /\ n < Cleared => a[n + 1].entry.witness = NoAddr
<1>0. /\ a \in Seq(Slot) /\ n \in Nat /\ Len(a) \in Nat /\ n + 1 \in 1..Len(a)
      /\ DOMAIN a = 1..Len(a) /\ Cleared \in Nat
  BY ArrayAssumption DEF Shape
<1>1. \A i \in 1..Len(a) : a[i] \in Slot
  BY <1>0, ElementOfSeq
<1> DEFINE w == a[n + 1].entry.witness
           e == [info EXCEPT !.witness = w]
           b == Filled(a, n + 1, u, info)
<1>2. w \in Addr \cup {NoAddr}
  BY <1>0, <1>1 DEF Slot, Map!Entry
<1>3. e \in Map!Entry
  BY <1>2, ArrayAssumption DEF Map!Entry
<1>4. n < Cleared => w = NoAddr
  BY <1>0 DEF Shape
<1>5. b = [i \in 1..Len(a) |-> IF i = n + 1 THEN [uuid |-> u, entry |-> e] ELSE a[i]]
  BY <1>0 DEF Filled
<1> HIDE DEF e, w
<1>6. [uuid |-> u, entry |-> e] \in Slot
  BY <1>3, ArrayAssumption DEF Slot
<1>7. b \in [1..Len(a) -> Slot]
  BY <1>1, <1>5, <1>6
<1>8. b \in Seq(Slot) /\ Len(b) = Len(a)
  BY <1>0, <1>5, <1>7
<1>9. QED BY <1>0, <1>2, <1>3, <1>4, <1>5, <1>8 DEF e, w

\* An entry as swim_state_add makes it: the info, and a witness
WithWitness(info, w) == [info EXCEPT !.witness = w]

\* The map with u added
AddedMap(u, info, w) ==
  [x \in DOMAIN Members \cup {u} |->
     IF x = u THEN WithWitness(info, w) ELSE Members[x]]

\* What swim_state_add does: nothing, or the map has one more entry, whose
\* witness is that of a cleared slot as long as there are any
LEMMA AddFacts ==
  ASSUME ArrayInv, NEW u \in Node, u \notin DOMAIN Members, NEW info \in Infos,
         NEW r \in swim_state_add(u, info)
  PROVE  \/ r.node = NULL /\ r.view = view /\ r.size = view_size
         \/ /\ r.node = view_size + 1 /\ r.size = view_size + 1
            /\ Shape(r.view, view_size + 1)
            /\ \E w \in Addr \cup {NoAddr} :
                 /\ WithWitness(info, w) \in Map!Entry
                 /\ view_size < Cleared => w = NoAddr
                 /\ MapOf(r.view, view_size + 1) = AddedMap(u, info, w)
<1>1. CASE r \in {q \in {[view |-> view, size |-> view_size, node |-> NULL]} : Full}
  BY <1>1
<1>2. CASE r \in {[view |-> b, size |-> view_size + 1, node |-> view_size + 1] :
                  b \in UNION {qsort(Filled(a, view_size + 1, u, info),
                                     view_size + 1) : a \in Grown}}
  <2> DEFINE n == view_size
  <2>0. PICK a \in Grown : \E b \in qsort(Filled(a, n + 1, u, info), n + 1) :
          r = [view |-> b, size |-> n + 1, node |-> n + 1]
    BY <1>2
  <2>1. PICK b \in qsort(Filled(a, n + 1, u, info), n + 1) :
          r = [view |-> b, size |-> n + 1, node |-> n + 1]
    BY <2>0
  <2>2. /\ Shape(a, n) /\ n < Len(a)
        /\ \A i \in 1..n : a[i] = view[i]
    BY GrownFacts
  <2>3. /\ n \in Nat /\ a \in Seq(Slot) /\ Len(a) \in Nat /\ Cleared <= Len(a)
        /\ n + 1 \in Nat /\ n + 1 <= Len(a) /\ Cleared \in Nat
        /\ view \in Seq(Slot) /\ n <= Len(view) /\ Ascending(view, n)
        /\ \A i \in Nat : n < i /\ i <= Cleared => a[i].entry.witness = NoAddr
    BY <2>2, ArrayAssumption DEF Shape, ArrayInv
  <2> DEFINE c == Filled(a, n + 1, u, info)
             w == a[n + 1].entry.witness
             D == DOMAIN Members \cup {u}
             m == AddedMap(u, info, w)
  <2>4. /\ c \in Seq(Slot) /\ Len(c) = Len(a)
        /\ \A i \in 1..Len(a) : i # n + 1 => c[i] = a[i]
        /\ c[n + 1] = [uuid |-> u, entry |-> WithWitness(info, w)]
        /\ WithWitness(info, w) \in Map!Entry
        /\ w \in Addr \cup {NoAddr} /\ (n < Cleared => w = NoAddr)
    BY <2>2, FilledFacts DEF WithWitness
  <2>5. c[n + 1].uuid = u /\ c[n + 1].entry = WithWitness(info, w)
    BY <2>4
  <2>6. \A i \in 1..n : c[i] = view[i]
    BY <2>2, <2>3, <2>4
  <2> HIDE DEF c, w
  <2>7. /\ b \in Seq(Slot) /\ Len(b) = Len(a) /\ Ascending(b, n + 1)
        /\ \A i \in 1..n+1 : \E j \in 1..n+1 : b[i] = c[j]
        /\ \A j \in 1..n+1 : \E i \in 1..n+1 : b[i] = c[j]
        /\ \A i \in 1..Len(a) : i > n + 1 => b[i] = c[i]
    <3>1. b \in qsort(c, n + 1)
      BY <2>1 DEF c
    <3>2. c \in Seq(Slot) /\ n + 1 \in Nat /\ n + 1 <= Len(c) /\ Len(c) = Len(a)
      BY <2>3, <2>4
    <3> HIDE DEF n
    <3>3. PICK k \in Nat : k = n + 1
      BY <3>2
    <3>4. b \in qsort(c, k) /\ k <= Len(c)
      BY <3>1, <3>2, <3>3
    <3>5. /\ b \in Seq(Slot) /\ Len(b) = Len(c) /\ Ascending(b, k)
          /\ \A i \in 1..k : \E j \in 1..k : b[i] = c[j]
          /\ \A j \in 1..k : \E i \in 1..k : b[i] = c[j]
          /\ \A i \in 1..Len(c) : i > k => b[i] = c[i]
      BY <3>2, <3>4, SortFacts
    <3>6. QED BY <3>2, <3>3, <3>5
  <2>8. Shape(b, n + 1)
    <3>1. \A i \in Nat : n + 1 < i /\ i <= Cleared
                           => b[i].entry.witness = NoAddr
      <4> SUFFICES ASSUME NEW i \in Nat, n + 1 < i, i <= Cleared
                   PROVE  b[i].entry.witness = NoAddr
        OBVIOUS
      <4>1. i \in 1..Len(a) /\ i > n + 1 /\ i # n + 1 /\ n < i
        BY <2>3
      <4>2. b[i] = a[i]
        BY <2>4, <2>7, <4>1
      <4>3. QED BY <2>3, <4>1, <4>2
    <3>2. QED BY <2>3, <2>7, <3>1 DEF Shape
  <2>9. /\ Members \in [{view[i].uuid : i \in 1..n} -> Map!Entry]
        /\ DOMAIN Members = {view[i].uuid : i \in 1..n}
        /\ \A i \in 1..n : Members[view[i].uuid] = view[i].entry
    BY <2>3, MapOfFacts DEF Members
  <2>10. m \in [D -> Map!Entry]
    BY <2>4, <2>9 DEF AddedMap
  <2>11. \A j \in 1..n+1 : c[j].uuid \in D /\ m[c[j].uuid] = c[j].entry
    <3> SUFFICES ASSUME NEW j \in 1..n+1
                 PROVE  c[j].uuid \in D /\ m[c[j].uuid] = c[j].entry
      OBVIOUS
    <3>1. CASE j = n + 1
      BY <2>5, <3>1 DEF AddedMap
    <3>2. CASE j # n + 1
      <4>1. j \in 1..n /\ c[j] = view[j]
        BY <2>3, <2>6, <3>2, SMTT(30)
      <4>2. c[j].uuid \in DOMAIN Members /\ c[j].uuid # u
        BY <2>9, <4>1
      <4>3. m[c[j].uuid] = Members[view[j].uuid]
        BY <4>1, <4>2 DEF AddedMap
      <4>4. QED BY <2>9, <4>1, <4>2, <4>3
    <3>3. QED BY <3>1, <3>2
  <2>12. \A x \in D : \E j \in 1..n+1 : c[j].uuid = x
    <3> SUFFICES ASSUME NEW x \in D PROVE \E j \in 1..n+1 : c[j].uuid = x
      OBVIOUS
    <3>1. CASE x = u
      <4>1. n + 1 \in 1..n+1
        BY <2>3
      <4>2. QED BY <2>5, <3>1, <4>1
    <3>2. CASE x # u
      <4>1. PICK j \in 1..n : view[j].uuid = x
        BY <2>9, <3>2
      <4>2. j \in 1..n+1
        BY <2>3
      <4>3. QED BY <2>6, <4>1, <4>2
    <3>3. QED BY <3>1, <3>2
  <2> HIDE DEF D, m
  <2>13. \A i \in 1..n+1 : b[i].uuid \in D /\ m[b[i].uuid] = b[i].entry
    <3> SUFFICES ASSUME NEW i \in 1..n+1
                 PROVE  b[i].uuid \in D /\ m[b[i].uuid] = b[i].entry
      OBVIOUS
    <3>1. PICK j \in 1..n+1 : b[i] = c[j]
      BY <2>7
    <3>2. QED BY <2>11, <3>1
  <2>14. D = {b[i].uuid : i \in 1..n+1}
    <3>1. \A x \in D : \E i \in 1..n+1 : b[i].uuid = x
      <4> SUFFICES ASSUME NEW x \in D PROVE \E i \in 1..n+1 : b[i].uuid = x
        OBVIOUS
      <4>1. PICK j \in 1..n+1 : c[j].uuid = x
        BY <2>12
      <4>2. PICK i \in 1..n+1 : b[i] = c[j]
        BY <2>7
      <4>3. QED BY <4>1, <4>2
    <3>2. QED BY <2>13, <3>1
  <2>15. MapOf(b, n + 1) = m
    <3>1. n + 1 <= Len(b) /\ n + 1 \in Nat /\ b \in Seq(Slot) /\ Ascending(b, n + 1)
      BY <2>3, <2>7
    <3>2. \A i \in 1..n+1 : m[b[i].uuid] = b[i].entry
      BY <2>13
    <3>3. QED BY <2>10, <2>14, <3>1, <3>2, MapOfUnique
  <2>16. r.view = b /\ r.size = n + 1 /\ r.node = n + 1
    BY <2>1
  <2>17. QED BY <2>4, <2>8, <2>15, <2>16 DEF m
<1>3. QED BY <1>1, <1>2 DEF swim_state_add

------------------------------------------------------------------------------
\* A search finds the slot of a UUID exactly when the map has the UUID
LEMMA SearchFacts ==
  ASSUME ArrayInv, NEW u \in Node, NEW i \in swim_state_get_node(u)
  PROVE  /\ i # NULL => /\ i \in 1..view_size /\ view[i].uuid = u
                        /\ u \in DOMAIN Members /\ Members[u] = view[i].entry
                        /\ Members[u] \in Map!Entry
         /\ i = NULL => u \notin DOMAIN Members
<1>1. /\ view \in Seq(Slot) /\ view_size \in Nat /\ view_size <= Len(view)
      /\ Ascending(view, view_size)
  BY DEF ArrayInv, Shape
<1>2. /\ DOMAIN Members = {view[j].uuid : j \in 1..view_size}
      /\ \A j \in 1..view_size : Members[view[j].uuid] = view[j].entry
      /\ \A j \in 1..view_size : view[j] \in Slot
  BY <1>1, MapOfFacts DEF Members
<1>3. \A j \in 1..view_size : j # NULL
  BY DEF NULL
<1>4. CASE i # NULL
  <2>1. i \in 1..view_size /\ view[i].uuid = u
    BY <1>1, <1>4 DEF swim_state_get_node, bsearch
  <2>2. QED BY <1>2, <1>4, <2>1 DEF Slot
<1>5. CASE i = NULL
  <2>1. {j \in 1..view_size : view[j].uuid = u} = {}
    BY <1>1, <1>3, <1>5 DEF swim_state_get_node, bsearch
  <2>2. QED BY <1>2, <1>5, <2>1
<1>6. QED BY <1>4, <1>5

\* A slot that is changed keeps the invariant, and the map changes with it
LEMMA ChangeFacts ==
  ASSUME ArrayInv, NEW u \in Node, NEW i \in 1..view_size, view[i].uuid = u,
         NEW e \in Map!Entry, view' = SetEntry(view, i, e),
         view_size' = view_size, crashed' \in BOOLEAN,
         asked \subseteq asked', asked' \subseteq Node \X Addr,
         \/ e.witness \in {NoAddr, view[i].entry.witness}
         \/ <<u, e.witness>> \in asked'
  PROVE  ArrayInv' /\ Members' = [Members EXCEPT ![u] = e]
<1>1. /\ Shape(view, view_size) /\ view \in Seq(Slot) /\ view_size \in Nat
      /\ view_size <= Len(view) /\ Ascending(view, view_size)
  BY DEF ArrayInv, Shape
<1>2. /\ Shape(view', view_size')
      /\ MapOf(view', view_size') = [Members EXCEPT ![u] = e]
  BY <1>1, SetEntryFacts DEF Members
<1>3. Members' = [Members EXCEPT ![u] = e]
  BY <1>2 DEF Members
<1>4. /\ DOMAIN Members = {view[j].uuid : j \in 1..view_size}
      /\ Members[u] = view[i].entry
  BY <1>1, MapOfFacts DEF Members
<1>5. DOMAIN Members' = DOMAIN Members
  BY <1>3
<1>6. /\ \A x \in DOMAIN Members : x # u => Members'[x] = Members[x]
      /\ Members'[u] = e
  BY <1>3, <1>4
<1>7. view_size' <= Cleared => AllAsked(Members', asked')
  <2> SUFFICES ASSUME view_size <= Cleared, NEW x \in DOMAIN Members,
                      Members'[x].witness # NoAddr
               PROVE  <<x, Members'[x].witness>> \in asked'
    BY <1>5 DEF AllAsked
  <2>1. Members[x].witness # NoAddr => <<x, Members[x].witness>> \in asked'
    BY DEF ArrayInv, AllAsked
  <2>2. CASE x # u
    BY <1>6, <2>1, <2>2
  <2>3. CASE x = u
    BY <1>4, <1>6, <2>1, <2>3
  <2>4. QED BY <2>2, <2>3
<1>8. Shape(view, view_size)'
  BY <1>2 DEF Shape, Ascending
<1>9. QED BY <1>3, <1>5, <1>7, <1>8 DEF ArrayInv, AllAsked

\* The changes of an entry make an entry of it, and none invents a witness
LEMMA EntryFacts ==
  ASSUME NEW e \in Map!Entry, NEW info \in Infos
  PROVE  /\ Map!NoticeEntry(e, info.age, info.incarnation) \in Map!Entry
         /\ Map!NoticeEntry(e, info.age, info.incarnation).witness = e.witness
         /\ Map!MergeEntry(e, info) \in Map!Entry
         /\ Map!MergeEntry(e, info).witness \in {NoAddr, e.witness}
<1>1. /\ info.status \in Map!Status /\ info.incarnation \in Nat
      /\ info.age \in Map!Age /\ e.incarnation \in Nat
      /\ e.status \in Map!Status /\ e.age \in Map!Age
  BY ArrayAssumption DEF Map!Entry
<1>2. Map!ALIVE \in Map!Status
  BY DEF Map!ALIVE, Map!Status
<1>3. /\ Map!NoticeEntry(e, info.age, info.incarnation) \in Map!Entry
      /\ Map!NoticeEntry(e, info.age, info.incarnation).witness = e.witness
  BY <1>1, <1>2 DEF Map!NoticeEntry, Map!Entry
<1>4. Map!Adopt(e, info) \in Map!Entry /\ Map!Adopt(e, info).witness = NoAddr
  BY <1>1 DEF Map!Adopt, Map!Entry
<1>5. /\ [e EXCEPT !.witness = NoAddr] \in Map!Entry
      /\ [e EXCEPT !.witness = NoAddr].witness = NoAddr
      /\ [e EXCEPT !.age = info.age] \in Map!Entry
      /\ [e EXCEPT !.age = info.age].witness = e.witness
  BY <1>1 DEF Map!Entry
<1>6. Map!MergeEntry(e, info) \in {Map!Adopt(e, info), e,
         [e EXCEPT !.witness = NoAddr], [e EXCEPT !.age = info.age]}
  BY <1>1 DEF Map!MergeEntry
<1>7. QED BY <1>3, <1>4, <1>5, <1>6

\* The functions that change the entry they find act as on the map
LEMMA UpdateSteps ==
  ASSUME ArrayInv, NEW u \in Node,
         \/ \E info \in Infos : swim_state_notice(u, info) \/ swim_state_merge(u, info)
         \/ \E addr \in Addr : swim_state_suspect(u, addr)
         \/ swim_state_del(u)
  PROVE  ArrayInv' /\ Map!Next
<1>0. crashed \in BOOLEAN /\ asked \subseteq Node \X Addr
  BY DEF ArrayInv
<1>1. ASSUME NEW info \in Infos, swim_state_notice(u, info)
      PROVE  ArrayInv' /\ Map!Next
  <2>1. PICK i \in swim_state_get_node(u) \ {NULL} :
          /\ view' = SetEntry(view, i,
                Map!NoticeEntry(view[i].entry, info.age, info.incarnation))
          /\ UNCHANGED <<view_size, crashed, asked>>
    BY <1>1 DEF swim_state_notice, Update, Found
  <2> DEFINE e == Map!NoticeEntry(Members[u], info.age, info.incarnation)
  <2>2. /\ i \in 1..view_size /\ view[i].uuid = u /\ u \in DOMAIN Members
        /\ Members[u] = view[i].entry /\ Members[u] \in Map!Entry
    BY SearchFacts
  <2>3. e \in Map!Entry /\ e.witness = view[i].entry.witness
    BY <2>2, EntryFacts
  <2>4. view' = SetEntry(view, i, e)
    BY <2>1, <2>2
  <2>5. Map!swim_state_notice(Members, u, info.age, info.incarnation)
          = [Members EXCEPT ![u] = e]
    BY <2>2 DEF Map!swim_state_notice
  <2> HIDE DEF e
  <2>6. ArrayInv' /\ Members' = [Members EXCEPT ![u] = e]
    BY <1>0, <2>1, <2>2, <2>3, <2>4, ChangeFacts
  <2>7. Map!Change(u)
    BY <2>2, <2>5, <2>6 DEF Map!Change
  <2>8. QED BY <2>6, <2>7 DEF Map!Next
<1>2. ASSUME NEW info \in Infos, swim_state_merge(u, info)
      PROVE  ArrayInv' /\ Map!Next
  <2>1. PICK i \in swim_state_get_node(u) \ {NULL} :
          /\ view' = SetEntry(view, i, Map!MergeEntry(view[i].entry, info))
          /\ UNCHANGED <<view_size, crashed, asked>>
    BY <1>2 DEF swim_state_merge, Update, Found
  <2> DEFINE e == Map!MergeEntry(Members[u], info)
  <2>2. /\ i \in 1..view_size /\ view[i].uuid = u /\ u \in DOMAIN Members
        /\ Members[u] = view[i].entry /\ Members[u] \in Map!Entry
    BY SearchFacts
  <2>3. e \in Map!Entry /\ e.witness \in {NoAddr, view[i].entry.witness}
    BY <2>2, EntryFacts
  <2>4. view' = SetEntry(view, i, e)
    BY <2>1, <2>2
  <2> HIDE DEF e
  <2>6. ArrayInv' /\ Members' = [Members EXCEPT ![u] = e]
    BY <1>0, <2>1, <2>2, <2>3, <2>4, ChangeFacts
  <2>7. Map!Change(u)
    BY <2>2, <2>6 DEF Map!Change, e
  <2>8. QED BY <2>6, <2>7 DEF Map!Next
<1>3. ASSUME NEW addr \in Addr, swim_state_suspect(u, addr)
      PROVE  ArrayInv' /\ Map!Next
  <2>1. PICK i \in swim_state_get_node(u) \ {NULL} :
          /\ view' = SetEntry(view, i,
                [view[i].entry EXCEPT !.status = Map!SUSPECT, !.witness = addr])
          /\ UNCHANGED <<view_size, crashed>>
          /\ asked' = asked \cup {<<u, addr>>}
    BY <1>3 DEF swim_state_suspect, Update, Found
  <2> DEFINE e == [Members[u] EXCEPT !.status = Map!SUSPECT, !.witness = addr]
  <2>2. /\ i \in 1..view_size /\ view[i].uuid = u /\ u \in DOMAIN Members
        /\ Members[u] = view[i].entry /\ Members[u] \in Map!Entry
    BY SearchFacts
  <2>3. e \in Map!Entry /\ e.witness = addr
    BY <2>2 DEF Map!Entry, Map!SUSPECT, Map!Status
  <2>4. view' = SetEntry(view, i, e)
    BY <2>1, <2>2
  <2>5. Map!swim_state_suspect(Members, u, addr) = [Members EXCEPT ![u] = e]
    BY <2>2 DEF Map!swim_state_suspect
  <2> HIDE DEF e
  <2>6. ArrayInv' /\ Members' = [Members EXCEPT ![u] = e]
    <3>1. asked \subseteq asked' /\ asked' \subseteq Node \X Addr
          /\ <<u, e.witness>> \in asked'
      BY <1>0, <2>1, <2>3
    <3>2. QED BY <1>0, <2>1, <2>2, <2>3, <2>4, <3>1, ChangeFacts
  <2>7. Map!Change(u)
    BY <2>2, <2>5, <2>6 DEF Map!Change
  <2>8. QED BY <2>6, <2>7 DEF Map!Next
<1>4. ASSUME swim_state_del(u)
      PROVE  ArrayInv' /\ Map!Next
  <2>1. PICK i \in swim_state_get_node(u) \ {NULL} :
          /\ view' = SetEntry(view, i, [view[i].entry EXCEPT !.status = Map!DEAD])
          /\ UNCHANGED <<view_size, crashed, asked>>
    BY <1>4 DEF swim_state_del, Update, Found
  <2> DEFINE e == [Members[u] EXCEPT !.status = Map!DEAD]
  <2>2. /\ i \in 1..view_size /\ view[i].uuid = u /\ u \in DOMAIN Members
        /\ Members[u] = view[i].entry /\ Members[u] \in Map!Entry
    BY SearchFacts
  <2>3. e \in Map!Entry /\ e.witness = view[i].entry.witness
    BY <2>2 DEF Map!Entry, Map!DEAD, Map!Status
  <2>4. view' = SetEntry(view, i, e)
    BY <2>1, <2>2
  <2>5. [Members EXCEPT ![u].status = Map!DEAD] = [Members EXCEPT ![u] = e]
    BY <2>2
  <2> HIDE DEF e
  <2>6. ArrayInv' /\ Members' = [Members EXCEPT ![u] = e]
    BY <1>0, <2>1, <2>2, <2>3, <2>4, ChangeFacts
  <2>7. Map!Change(u)
    BY <2>2, <2>5, <2>6 DEF Map!Change
  <2>8. QED BY <2>6, <2>7 DEF Map!Next
<1>5. QED BY <1>1, <1>2, <1>3, <1>4

------------------------------------------------------------------------------
\* The map with u added is one of those that ViewMap allows
LEMMA AddedIsAllowed ==
  ASSUME ArrayInv, NEW u \in Node, NEW info \in Infos,
         NEW w \in Addr \cup {NoAddr}, view_size < Cleared => w = NoAddr
  PROVE  AddedMap(u, info, w) \in Map!AddedTo(u, info)
<1>1. Cardinality(DOMAIN Members) = view_size
  BY MapOfSize DEF ArrayInv, Shape, Members
<1>2. /\ info \in [status : Map!Status, incarnation : Nat, age : Map!Age,
                   addr : Addr, witness : {NoAddr}]
  BY ArrayAssumption
<1> DEFINE v == Map!swim_state_add(Members, u, info)
<1>3. [Map!NewEntry(info) EXCEPT !.witness = w] = WithWitness(info, w)
  BY <1>2 DEF Map!NewEntry, WithWitness
<1>4. [v EXCEPT ![u].witness = w] = AddedMap(u, info, w)
  <2>1. v[u] = Map!NewEntry(info)
    BY DEF Map!swim_state_add
  <2>2. [v EXCEPT ![u].witness = w] = [v EXCEPT ![u] = WithWitness(info, w)]
    BY <1>3, <2>1
  <2>3. [v EXCEPT ![u] = WithWitness(info, w)] = AddedMap(u, info, w)
    BY DEF Map!swim_state_add, AddedMap
  <2>4. QED BY <2>2, <2>3
<1> HIDE DEF v
<1>5. AddedMap(u, info, w) \in {[v EXCEPT ![u].witness = x] :
        x \in IF Cardinality(DOMAIN Members) < Cleared
              THEN {NoAddr} ELSE Addr \cup {NoAddr}}
  BY <1>1, <1>4
<1>6. Map!AddedTo(u, info) = {[v EXCEPT ![u].witness = x] :
        x \in IF Cardinality(DOMAIN Members) < Cleared
              THEN {NoAddr} ELSE Addr \cup {NoAddr}}
  BY Zenon DEF Map!AddedTo, v, Map!Cardinality, Cardinality
<1>7. QED BY <1>5, <1>6

\* An entry is new: everyone who asked still has, and u has no witness yet as
\* long as the first array has room
LEMMA AddedAsked ==
  ASSUME ArrayInv, NEW u \in Node, NEW info \in Infos, NEW w,
         view_size < Cleared => w = NoAddr, view_size + 1 <= Cleared,
         WithWitness(info, w) \in Map!Entry
  PROVE  AllAsked(AddedMap(u, info, w), asked)
<1>1. w = NoAddr /\ view_size <= Cleared
  BY ArrayAssumption DEF ArrayInv, Shape
<1>2. WithWitness(info, w).witness = NoAddr
  BY <1>1, ArrayAssumption DEF WithWitness
<1>3. AllAsked(Members, asked)
  BY <1>1 DEF ArrayInv
<1>4. QED BY <1>2, <1>3 DEF AllAsked, AddedMap

\* The last slot in use holds the largest UUID
LEMMA LastIsAdded ==
  ASSUME NEW b \in Seq(Slot), NEW n \in Nat, n > 0, n <= Len(b), Ascending(b, n)
  PROVE  Map!Added(MapOf(b, n)) = b[n].uuid
<1> DEFINE D == DOMAIN MapOf(b, n)
<1>1. D = {b[i].uuid : i \in 1..n} /\ \A i \in 1..n : b[i] \in Slot
  BY MapOfFacts
<1>2. \A i \in 1..n : b[i].uuid \in Nat /\ b[i].uuid <= b[n].uuid
  <2> SUFFICES ASSUME NEW i \in 1..n
               PROVE  b[i].uuid \in Nat /\ b[i].uuid <= b[n].uuid
    OBVIOUS
  <2>1. n \in 1..n /\ b[i].uuid \in Nat /\ b[n].uuid \in Nat
    BY <1>1 DEF Slot
  <2>2. CASE i = n
    BY <2>1, <2>2
  <2>3. CASE i # n
    BY <2>1, <2>3 DEF Ascending
  <2>4. QED BY <2>2, <2>3
<1>3. n \in 1..n
  OBVIOUS
<1>4. b[n].uuid \in D /\ D \subseteq Nat /\ \A x \in D : x <= b[n].uuid
  BY <1>1, <1>2, <1>3
<1> HIDE DEF D
<1>5. ASSUME NEW x \in D, \A y \in D : y <= x
      PROVE  x = b[n].uuid
  <2>1. x \in Nat /\ b[n].uuid \in Nat
    BY <1>4
  <2>2. x <= b[n].uuid /\ b[n].uuid <= x
    BY <1>4, <1>5
  <2>3. QED BY <2>1, <2>2
<1>6. (CHOOSE x \in D : \A y \in D : y <= x) = b[n].uuid
  BY <1>4, <1>5
<1>7. QED BY <1>6 DEF Map!Added, D

\* The status switch of swim_process_ack does to the map what ViewMap says
LEMMA RefuteFacts ==
  ASSUME NEW a, NEW n, Shape(a, n), NEW i \in 1..n
  PROVE  /\ Shape(Refute(a, i), n)
         /\ MapOf(Refute(a, i), n) = Map!Refuted(MapOf(a, n), a[i].uuid)
         /\ DOMAIN MapOf(Refute(a, i), n) = DOMAIN MapOf(a, n)
         /\ \A who : AllAsked(MapOf(a, n), who) =>
                       AllAsked(MapOf(Refute(a, i), n), who)
<1> DEFINE m == MapOf(a, n)
           u == a[i].uuid
           e == [a[i].entry EXCEPT !.status = Map!ALIVE, !.witness = NoAddr]
<1>1. /\ DOMAIN m = {a[j].uuid : j \in 1..n} /\ u \in DOMAIN m
      /\ m[u] = a[i].entry /\ a[i] \in Slot
  <2>1. a \in Seq(Slot) /\ n \in Nat /\ n <= Len(a) /\ Ascending(a, n)
    BY DEF Shape
  <2>2. /\ DOMAIN m = {a[j].uuid : j \in 1..n}
        /\ \A j \in 1..n : m[a[j].uuid] = a[j].entry
        /\ \A j \in 1..n : a[j] \in Slot
    BY <2>1, MapOfFacts
  <2>3. QED BY <2>2
<1>2. CASE a[i].entry.status \notin {Map!SUSPECT, Map!UNKNOWN}
  BY <1>1, <1>2 DEF Refute, Map!Refuted
<1>3. CASE a[i].entry.status \in {Map!SUSPECT, Map!UNKNOWN}
  <2>1. e \in Map!Entry /\ e.witness = NoAddr
    BY <1>1 DEF Slot, Map!Entry, Map!ALIVE, Map!Status
  <2>2. Refute(a, i) = SetEntry(a, i, e)
    BY <1>3 DEF Refute
  <2>3. Map!Refuted(m, u) = [m EXCEPT ![u] = e]
    BY <1>1, <1>3 DEF Map!Refuted, Map!swim_cluster_refuted_dead
  <2> HIDE DEF e
  <2>4. Shape(SetEntry(a, i, e), n) /\ MapOf(SetEntry(a, i, e), n) = [m EXCEPT ![u] = e]
    BY <2>1, SetEntryFacts
  <2>5. \A who : AllAsked(m, who) => AllAsked([m EXCEPT ![u] = e], who)
    BY <2>1 DEF AllAsked
  <2>6. QED BY <2>2, <2>3, <2>4, <2>5
<1>4. QED BY <1>2, <1>3

------------------------------------------------------------------------------
\* A node that is added, or that there is no memory for
LEMMA AddStep ==
  ASSUME ArrayInv, NEW u \in Node, NEW info \in Infos, AddNode(u, info)
  PROVE  ArrayInv' /\ [Map!Next]_Members
<1>1. u \notin DOMAIN Members /\ u # Self
  BY SearchFacts DEF AddNode
<1>2. PICK r \in swim_state_add(u, info) : view' = r.view /\ view_size' = r.size
  BY DEF AddNode
<1>3. crashed' = crashed /\ asked' = asked
  BY DEF AddNode
<1>4. CASE r.node = NULL /\ r.view = view /\ r.size = view_size
  <2>1. view' = view /\ view_size' = view_size
    BY <1>2, <1>4
  <2>2. Members' = Members
    BY <2>1 DEF Members
  <2>3. QED BY <1>3, <2>1, <2>2 DEF ArrayInv, Shape, Ascending, AllAsked
<1>5. CASE /\ r.node = view_size + 1 /\ r.size = view_size + 1
           /\ Shape(r.view, view_size + 1)
           /\ \E w \in Addr \cup {NoAddr} :
                /\ WithWitness(info, w) \in Map!Entry
                /\ view_size < Cleared => w = NoAddr
                /\ MapOf(r.view, view_size + 1) = AddedMap(u, info, w)
  <2>1. PICK w \in Addr \cup {NoAddr} :
          /\ WithWitness(info, w) \in Map!Entry
          /\ view_size < Cleared => w = NoAddr
          /\ MapOf(r.view, view_size + 1) = AddedMap(u, info, w)
    BY <1>5
  <2>2. view_size' = view_size + 1 /\ Shape(view', view_size')
    BY <1>2, <1>5
  <2>3. Members' = AddedMap(u, info, w)
    BY <1>2, <1>5, <2>1 DEF Members
  <2>4. DOMAIN Members' \subseteq Node \ {Self}
    BY <1>1, <2>3 DEF AddedMap, ArrayInv
  <2>5. view_size' <= Cleared => AllAsked(Members', asked')
    BY <1>3, <2>1, <2>2, <2>3, AddedAsked
  <2>6. ArrayInv'
    <3>1. Shape(view, view_size)'
      BY <2>2 DEF Shape, Ascending
    <3>2. crashed' \in BOOLEAN /\ asked' \subseteq Node \X Addr
      BY <1>3 DEF ArrayInv
    <3>3. QED BY <2>4, <2>5, <3>1, <3>2 DEF ArrayInv, AllAsked
  <2>7. Members' \in Map!AddedTo(u, info)
    BY <2>1, <2>3, AddedIsAllowed
  <2>8. QED BY <1>1, <2>6, <2>7 DEF Map!Next, Map!Add
<1>6. QED BY <1>1, <1>4, <1>5, AddFacts

\* An ACK, for a node that is known, new, or that there is no memory for
LEMMA AckStep ==
  ASSUME ArrayInv, NEW u \in Node, NEW info \in Infos, AckNode(u, info)
  PROVE  ArrayInv' /\ [Map!Next]_Members
<1>0. /\ Shape(view, view_size) /\ asked' = asked /\ u # Self
      /\ crashed' \in BOOLEAN /\ asked' \subseteq Node \X Addr
  <2>1. asked' = asked /\ asked \subseteq Node \X Addr /\ Shape(view, view_size)
        /\ u # Self
    BY DEF ArrayInv, AckNode
  <2>2. crashed' = crashed \/ crashed' = TRUE
    BY DEF AckNode
  <2>3. crashed' \in BOOLEAN
    BY <2>2, Zenon DEF ArrayInv
  <2>4. QED BY <2>1, <2>3
<1>1. PICK i \in swim_state_get_node(u) :
        IF i # NULL
        THEN view' = Refute(view, i) /\ UNCHANGED <<view_size, crashed>>
        ELSE \E r \in swim_state_add(u, info) :
               IF r.node = NULL
               THEN crashed' = TRUE /\ UNCHANGED <<view, view_size>>
               ELSE /\ view' = Refute(r.view, r.node)
                    /\ view_size' = r.size
                    /\ UNCHANGED crashed
  BY DEF AckNode
<1>2. CASE i # NULL
  <2>1. /\ i \in 1..view_size /\ view[i].uuid = u /\ u \in DOMAIN Members
    BY <1>2, SearchFacts
  <2>2. view' = Refute(view, i) /\ view_size' = view_size
    BY <1>1, <1>2
  <2>3. /\ Shape(Refute(view, i), view_size)
        /\ MapOf(Refute(view, i), view_size) = Map!Refuted(Members, u)
        /\ DOMAIN MapOf(Refute(view, i), view_size) = DOMAIN Members
        /\ AllAsked(Members, asked)
             => AllAsked(MapOf(Refute(view, i), view_size), asked)
    BY <1>0, <2>1, RefuteFacts DEF Members
  <2>4. /\ Members' = Map!Refuted(Members, u) /\ DOMAIN Members' = DOMAIN Members
        /\ AllAsked(Members, asked) => AllAsked(Members', asked')
    BY <1>0, <2>2, <2>3 DEF Members
  <2>5. ArrayInv'
    <3>1. Shape(view, view_size)'
      BY <2>2, <2>3 DEF Shape, Ascending
    <3>2. QED BY <1>0, <2>2, <2>4, <3>1 DEF ArrayInv, AllAsked
  <2>6. QED BY <2>1, <2>4, <2>5 DEF Map!Next, Map!Ack
<1>3. CASE i = NULL
  <2>1. u \notin DOMAIN Members
    BY <1>3, SearchFacts
  <2>2. PICK r \in swim_state_add(u, info) :
               IF r.node = NULL
               THEN crashed' = TRUE /\ UNCHANGED <<view, view_size>>
               ELSE /\ view' = Refute(r.view, r.node)
                    /\ view_size' = r.size
    BY <1>1, <1>3
  <2>3. CASE r.node = NULL
    <3>1. view' = view /\ view_size' = view_size
      BY <2>2, <2>3
    <3>2. Members' = Members
      BY <3>1 DEF Members
    <3>3. QED BY <1>0, <3>1, <3>2 DEF ArrayInv, Shape, Ascending, AllAsked
  <2>4. CASE r.node # NULL
    <3> DEFINE n == view_size + 1
    <3>1. /\ r.node = n /\ r.size = n /\ Shape(r.view, n)
          /\ \E w \in Addr \cup {NoAddr} :
               /\ WithWitness(info, w) \in Map!Entry
               /\ view_size < Cleared => w = NoAddr
               /\ MapOf(r.view, n) = AddedMap(u, info, w)
      BY <2>1, <2>4, AddFacts
    <3>2. PICK w \in Addr \cup {NoAddr} :
               /\ WithWitness(info, w) \in Map!Entry
               /\ view_size < Cleared => w = NoAddr
               /\ MapOf(r.view, n) = AddedMap(u, info, w)
      BY <3>1
    <3> DEFINE v == AddedMap(u, info, w)
    <3>3. view' = Refute(r.view, n) /\ view_size' = n
      BY <2>2, <2>4, <3>1
    <3>4. /\ view_size \in Nat /\ n \in Nat /\ n > 0 /\ n \in 1..n
          /\ r.view \in Seq(Slot) /\ n <= Len(r.view) /\ Ascending(r.view, n)
      BY <3>1, <1>0, SMTT(30) DEF Shape
    <3>5. Map!Added(MapOf(r.view, n)) = r.view[n].uuid
      BY <3>4, LastIsAdded
    <3>6. /\ Shape(Refute(r.view, n), n)
          /\ MapOf(Refute(r.view, n), n)
               = Map!Refuted(MapOf(r.view, n), r.view[n].uuid)
          /\ DOMAIN MapOf(Refute(r.view, n), n) = DOMAIN MapOf(r.view, n)
          /\ AllAsked(MapOf(r.view, n), asked)
               => AllAsked(MapOf(Refute(r.view, n), n), asked)
      BY <3>1, <3>4, RefuteFacts
    <3>7. Members' = MapOf(Refute(r.view, n), n)
      BY <3>3 DEF Members
    <3>8. /\ Members' = Map!Refuted(v, Map!Added(v))
          /\ DOMAIN Members' = DOMAIN v
          /\ AllAsked(v, asked) => AllAsked(Members', asked')
      BY <1>0, <3>2, <3>5, <3>6, <3>7
    <3>9. DOMAIN Members' \subseteq Node \ {Self}
      BY <1>0, <3>8 DEF AddedMap, ArrayInv
    <3>10. view_size' <= Cleared => AllAsked(Members', asked')
      BY <3>2, <3>3, <3>8, AddedAsked
    <3>11. Shape(view, view_size)'
      BY <3>3, <3>6 DEF Shape, Ascending
    <3>12. ArrayInv'
      BY <1>0, <3>9, <3>10, <3>11 DEF ArrayInv, AllAsked
    <3>13. v \in Map!AddedTo(u, info)
      BY <3>2, AddedIsAllowed
    <3> HIDE DEF v
    <3>14. Map!Ack(u, info)
      BY <2>1, <3>8, <3>13 DEF Map!Ack
    <3>15. QED BY <3>12, <3>14 DEF Map!Next
  <2>5. QED BY <2>3, <2>4
<1>4. QED BY <1>2, <1>3

------------------------------------------------------------------------------
\* swim_state_init leaves an empty array, which stands for the empty map
LEMMA InitMaps ==
  ASSUME Init
  PROVE  ArrayInv /\ Map!Init
<1>1. PICK addr \in Addr : view = [i \in 1..Cleared |-> Blank(addr, NoAddr)]
  BY DEF Init
<1>2. view_size = 0 /\ asked = {} /\ Cleared \in Nat /\ crashed \in BOOLEAN
  <2>1. crashed \in BOOLEAN
    BY Zenon DEF Init
  <2>2. QED BY <2>1, ArrayAssumption DEF Init
<1>3. Blank(addr, NoAddr) \in Slot /\ Blank(addr, NoAddr).entry.witness = NoAddr
  <2>1. Map!UNKNOWN \in Map!Status /\ 0 \in Map!Age
    BY ArrayAssumption DEF Map!Status, Map!UNKNOWN, Map!Age
  <2>2. [status |-> Map!UNKNOWN, incarnation |-> 0, age |-> 0, addr |-> addr,
         witness |-> NoAddr] \in Map!Entry
    BY <2>1 DEF Map!Entry
  <2>3. QED BY <2>2 DEF Blank, Slot
<1>4. view \in Seq(Slot) /\ Len(view) = Cleared
  <2>1. view \in [1..Cleared -> Slot]
    BY <1>1, <1>3
  <2>2. QED BY <1>2, <2>1
<1>5. Shape(view, view_size)
  <2>1. Ascending(view, 0)
    BY DEF Ascending
  <2>2. \A i \in Nat : 0 < i /\ i <= Cleared => view[i].entry.witness = NoAddr
    BY <1>1, <1>2, <1>3
  <2>3. QED BY <1>2, <1>4, <2>1, <2>2 DEF Shape
<1>6. DOMAIN Members = {} /\ Members = Map!Nothing
  <2>1. {view[i].uuid : i \in 1..view_size} = {}
    BY <1>2
  <2>2. QED BY <2>1 DEF Members, MapOf, Map!Nothing
<1>7. QED BY <1>2, <1>5, <1>6 DEF ArrayInv, AllAsked, Map!Init

\* Every step keeps the invariant and is a step of the map or none
LEMMA StepMaps ==
  ASSUME ArrayInv, [Next]_vars
  PROVE  ArrayInv' /\ [Map!Next]_Members
<1>1. CASE Next
  <2>1. PICK u \in Node :
          \/ \E info \in Infos :
               \/ AckNode(u, info) \/ AddNode(u, info)
               \/ swim_state_notice(u, info) \/ swim_state_merge(u, info)
          \/ \E addr \in Addr : swim_state_suspect(u, addr)
          \/ swim_state_del(u)
    BY <1>1 DEF Next
  <2>2. CASE \E info \in Infos : AckNode(u, info)
    BY <2>2, AckStep
  <2>3. CASE \E info \in Infos : AddNode(u, info)
    BY <2>3, AddStep
  <2>4. CASE \/ \E info \in Infos :
                  swim_state_notice(u, info) \/ swim_state_merge(u, info)
             \/ \E addr \in Addr : swim_state_suspect(u, addr)
             \/ swim_state_del(u)
    BY <2>4, UpdateSteps
  <2>5. QED BY <2>1, <2>2, <2>3, <2>4
<1>2. CASE UNCHANGED vars
  <2>1. UNCHANGED <<view, view_size, crashed, asked>>
    BY <1>2 DEF vars
  <2>2. Members' = Members
    BY <2>1 DEF Members
  <2>3. QED BY <2>1, <2>2 DEF ArrayInv, Shape, Ascending, AllAsked
<1>3. QED BY <1>1, <1>2

LEMMA ArrayInvHolds == Spec => []ArrayInv
<1>1. Init => ArrayInv
  BY InitMaps
<1>2. ArrayInv /\ [Next]_vars => ArrayInv'
  BY StepMaps
<1>3. QED BY <1>1, <1>2, PTL DEF Spec

\* The array never has more slots in use than it has slots, whatever is added
\* and however often realloc fails (swim_state_add).
THEOREM ArrayType == Spec => []TypeOK
<1>1. ArrayInv => TypeOK
  <2> SUFFICES ASSUME ArrayInv PROVE TypeOK
    OBVIOUS
  <2>1. view \in Seq(Slot) /\ view_size \in 0..Len(view)
    BY DEF ArrayInv, Shape
  <2>2. crashed \in BOOLEAN /\ asked \subseteq Node \X Addr
    BY Zenon DEF ArrayInv
  <2>3. QED BY <2>1, <2>2, Zenon DEF TypeOK
<1>2. QED BY <1>1, ArrayInvHolds, PTL

\* The slots in use are sorted, without duplicates and without the process
\* itself, after every sequence of additions and changes.
THEOREM ViewSortedHolds == Spec => []ViewSorted
<1>1. ArrayInv => ViewSorted
  <2> SUFFICES ASSUME ArrayInv PROVE ViewSorted
    OBVIOUS
  <2>1. DOMAIN Members = {view[i].uuid : i \in 1..view_size}
    BY DEF Members, MapOf
  <2>2. \A i \in Used : view[i].uuid # Self
    BY <2>1 DEF ArrayInv, Used
  <2>3. QED BY <2>2 DEF ArrayInv, Shape, ViewSorted
<1>2. QED BY <1>1, ArrayInvHolds, PTL

\* While the members fit the array that swim_state_init has cleared, every
\* witness has sent a PING_REQ for the node whose entry it is in.
THEOREM WitnessWasAskedHolds == Spec => []WitnessWasAsked
<1>1. ArrayInv => WitnessWasAsked
  <2> SUFFICES ASSUME ArrayInv, view_size <= Cleared, NEW i \in Used,
                      view[i].entry.witness # NoAddr
               PROVE  <<view[i].uuid, view[i].entry.witness>> \in asked
    BY DEF WitnessWasAsked
  <2>1. /\ DOMAIN Members = {view[j].uuid : j \in 1..view_size}
        /\ \A j \in 1..view_size : Members[view[j].uuid] = view[j].entry
    BY MapOfFacts DEF ArrayInv, Shape, Members
  <2>2. view[i].uuid \in DOMAIN Members /\ Members[view[i].uuid] = view[i].entry
    BY <2>1 DEF Used
  <2>3. AllAsked(Members, asked)
    BY DEF ArrayInv
  <2>4. QED BY <2>2, <2>3 DEF AllAsked
<1>2. QED BY <1>1, ArrayInvHolds, PTL

\* The sorted array implements the map of module ViewMap: every function of
\* swim/state.c, through whatever pointer it reaches the array, does to the
\* array what the map operation does to the map.
THEOREM MapImplemented == Spec => MapOK
<1>1. Init => Map!Init
  BY InitMaps
<1>2. ArrayInv /\ [Next]_vars => [Map!Next]_Members
  BY StepMaps
<1>3. QED BY <1>1, <1>2, ArrayInvHolds, PTL DEF Spec, MapOK, Map!Spec
==============================================================================
