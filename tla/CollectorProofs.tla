-------------------------- MODULE CollectorProofs --------------------------
(***************************************************************************)
(* Proofs about the collector and the archive: what becomes of the rows on *)
(* their way there, what the history page then reads of them, the queries  *)
(* of an invocation, and the cycles of invocations that overlap, fail and  *)
(* are killed.  Each part is about one module, for all values of its       *)
(* constants.                                                              *)
(***************************************************************************)
EXTENDS CollectorCycle, CollectorQueries, HistoryPage, FoldTheorems, SequenceTheorems, TLAPS

-----------------------------------------------------------------------------
(* The members of sequences.                                               *)

LEMMA ToSetConcat ==
    ASSUME NEW S, NEW s \in Seq(S), NEW t \in Seq(S)
    PROVE  s \o t \in Seq(S) /\ ToSet(s \o t) = ToSet(s) \cup ToSet(t)
  <1>1. /\ s \o t \in Seq(S) /\ DOMAIN (s \o t) = 1 .. Len(s) + Len(t)
        /\ DOMAIN s = 1 .. Len(s) /\ DOMAIN t = 1 .. Len(t)
        /\ Len(s) \in Nat /\ Len(t) \in Nat
        /\ \A i \in 1 .. Len(s) + Len(t) :
             (s \o t)[i] = IF i <= Len(s) THEN s[i] ELSE t[i - Len(s)]
    BY ConcatProperties, LenProperties
  <1> DEFINE c == s \o t
  <1> HIDE DEF c
  <1>2. ASSUME NEW i \in DOMAIN c PROVE c[i] \in ToSet(s) \cup ToSet(t)
    <2>1. CASE i <= Len(s)
      BY <1>1, <2>1 DEF ToSet, c
    <2>2. CASE ~ (i <= Len(s))
      <3>1. i - Len(s) \in DOMAIN t /\ c[i] = t[i - Len(s)]
        BY <1>1, <2>2 DEF c
      <3> QED
        BY <3>1 DEF ToSet
    <2> QED
      BY <2>1, <2>2
  <1>3. ASSUME NEW i \in DOMAIN s PROVE i \in DOMAIN c /\ c[i] = s[i]
    BY <1>1 DEF c
  <1>4. ASSUME NEW i \in DOMAIN t PROVE i + Len(s) \in DOMAIN c /\ c[i + Len(s)] = t[i]
    <2>1. i + Len(s) \in 1 .. Len(s) + Len(t) /\ ~ (i + Len(s) <= Len(s)) /\ (i + Len(s)) - Len(s) = i
      BY <1>1
    <2> QED
      BY <1>1, <2>1 DEF c
  <1>5. ToSet(c) = ToSet(s) \cup ToSet(t)
    BY <1>2, <1>3, <1>4 DEF ToSet
  <1> QED
    BY <1>1, <1>5 DEF c

\* Two halves of a sequence have its members between them.
LEMMA ToSetHalves ==
    ASSUME NEW S, NEW s \in Seq(S), NEW n \in 0 .. Len(s)
    PROVE  /\ SubSeq(s, 1, n) \in Seq(S) /\ SubSeq(s, n + 1, Len(s)) \in Seq(S)
           /\ ToSet(SubSeq(s, 1, n)) \cup ToSet(SubSeq(s, n + 1, Len(s))) = ToSet(s)
  <1>1. Len(s) \in Nat /\ n \in Int /\ n + 1 \in Int /\ \A i \in 1 .. Len(s) : s[i] \in S
    BY LenProperties, ElementOfSeq
  <1>2. SubSeq(s, 1, n) \in Seq(S) /\ SubSeq(s, n + 1, Len(s)) \in Seq(S)
    <2>1. (\A i \in 1 .. n : s[i] \in S) /\ \A i \in n + 1 .. Len(s) : s[i] \in S
      BY <1>1
    <2> QED
      BY <1>1, <2>1, SubSeqProperties
  <1>3. SubSeq(s, 1, n) \o SubSeq(s, n + 1, Len(s)) = s
    <2>1. n \in 1 - 1 .. Len(s) /\ Len(s) \in n .. Len(s) /\ 1 \in 1 .. Len(s) + 1
      BY <1>1
    <2> QED
      BY <2>1, ConcatAdjacentSubSeq, SubSeqFull
  <1> QED
    BY <1>2, <1>3, ToSetConcat

LEMMA ToSetHead ==
    ASSUME NEW S, NEW s \in Seq(S), s # <<>>
    PROVE  /\ Head(s) \in S /\ Tail(s) \in Seq(S)
           /\ ToSet(s) = {Head(s)} \cup ToSet(Tail(s))
  <1>1. Head(s) \in S /\ Tail(s) \in Seq(S) /\ Len(s) \in Nat \ {0}
    BY HeadTailProperties, EmptySeq
  <1>2. Head(s) = s[1] /\ Tail(s) = SubSeq(s, 2, Len(s))
    BY TailIsSubSeq
  <1>3. /\ ToSet(SubSeq(s, 1, 1)) \cup ToSet(SubSeq(s, 2, Len(s))) = ToSet(s)
        /\ SubSeq(s, 1, 1) \in Seq(S)
    <2>1. 1 \in 0 .. Len(s) /\ 1 + 1 = 2
      BY <1>1
    <2> QED
      BY <2>1, ToSetHalves
  <1>4. Len(SubSeq(s, 1, 1)) = 1 /\ SubSeq(s, 1, 1)[1] = s[1]
    <2>1. \A i \in 1 .. 1 : s[i] \in S
      BY <1>1, <1>2
    <2>2. 1 <= 1 /\ 1 - 1 + 1 = 1 /\ 1 + 1 - 1 = 1 /\ 1 \in Int /\ 1 \in 1 .. 1
      OBVIOUS
    <2> QED
      BY <2>1, <2>2, SubSeqProperties
  <1>5. ToSet(SubSeq(s, 1, 1)) = {s[1]}
    <2>1. DOMAIN SubSeq(s, 1, 1) = {1}
      BY <1>3, <1>4, LenProperties
    <2> QED
      BY <1>4, <2>1 DEF ToSet
  <1> QED
    BY <1>1, <1>2, <1>3, <1>5

-----------------------------------------------------------------------------
(* Selecting members by their positions.                                   *)

\* The selection has the members at the positions, and no others.
LEMMA SubsequenceIs ==
    ASSUME NEW S, NEW s \in Seq(S), NEW chosen \in SUBSET DOMAIN s
    PROVE  /\ Subsequence(s, chosen) \in Seq(S)
           /\ ToSet(Subsequence(s, chosen)) = {s[i] : i \in chosen}
  <1>1. DOMAIN s = 1 .. Len(s) /\ Len(s) \in Nat /\ \A i \in DOMAIN s : s[i] \in S
    BY LenProperties, ElementOfSeq
  <1>2. chosen \in SUBSET Nat /\ IsFiniteSet(chosen) /\ Cardinality(chosen) \in Nat
    <2>1. IsFiniteSet(1 .. Len(s)) /\ chosen \in SUBSET (1 .. Len(s)) /\ 1 .. Len(s) \subseteq Nat
      BY <1>1, FS_Interval
    <2>2. IsFiniteSet(chosen)
      BY <2>1, FS_Subset
    <2> QED
      BY <2>1, <2>2, FS_CardinalityType
  <1> DEFINE of(n) == CHOOSE j \in chosen : Rank(chosen, j) = n
             N == 1 .. Cardinality(chosen)
  <1>3. \A n \in N : of(n) \in chosen /\ Rank(chosen, of(n)) = n
    BY <1>2, RanksNumber
  <1>4. \A j \in chosen : Rank(chosen, j) \in N /\ of(Rank(chosen, j)) = j
    BY <1>2, <1>3, RanksNumber
  <1>5. Subsequence(s, chosen) = [n \in N |-> s[of(n)]]
    BY DEF Subsequence, Rank
  <1> HIDE DEF of
  <1>6. \A n \in N : s[of(n)] \in S
    BY <1>1, <1>3
  <1>7. Subsequence(s, chosen) \in Seq(S)
    BY <1>2, <1>5, <1>6
  <1>8. DOMAIN Subsequence(s, chosen) = N /\ \A n \in N : Subsequence(s, chosen)[n] = s[of(n)]
    BY <1>5
  <1>9. ToSet(Subsequence(s, chosen)) = {s[i] : i \in chosen}
    BY <1>3, <1>4, <1>8 DEF ToSet
  <1> QED
    BY <1>7, <1>9

\* A finite set as a sequence.
LEMMA SetToSeqIs ==
    ASSUME NEW S, IsFiniteSet(S)
    PROVE  SetToSeq(S) \in Seq(S) /\ ToSet(SetToSeq(S)) = S
  <1> DEFINE N == 1 .. Cardinality(S)
             s == SetToSeq(S)
  <1>1. Cardinality(S) \in Nat /\ IsFiniteSet(N) /\ Cardinality(N) = Cardinality(S)
    BY FS_CardinalityType, FS_Interval
  <1>2. \E f \in [N -> S] : IsInjective(f)
    BY FS_CardinalityType DEF ExistsBijection, Bijection, Injection
  <1>3. s \in [N -> S] /\ IsInjective(s)
    BY <1>2 DEF SetToSeq
  <1> HIDE DEF s
  <1>4. s \in Injection(N, S)
    BY <1>3 DEF Injection
  <1>5. s \in Surjection(N, S)
    <2> HIDE DEF N
    <2> QED
      BY <1>1, <1>4, FS_Injection
  <1>6. s \in Seq(S)
    BY <1>1, <1>3
  <1>7. ToSet(s) = S
    BY <1>3, <1>5 DEF ToSet, Surjection
  <1> QED
    BY <1>6, <1>7 DEF s
-----------------------------------------------------------------------------
(* The rows of a cycle.                                                    *)

\* The rows that observations can become.
RowsSeen == {NormalizeRow(o) : o \in UNION Cycles}

IsEndpoint(e) == {e.pod, e.instance, e.ip} \subseteq Nat

LEMMA KeysAreOrdered ==
    ASSUME NEW e, IsEndpoint(e), NEW f, IsEndpoint(f)
    PROVE  /\ NotAfter(EndpointKey(e), EndpointKey(f)) \/ NotAfter(EndpointKey(f), EndpointKey(e))
           /\ NotAfter(EndpointKey(e), EndpointKey(f)) /\ NotAfter(EndpointKey(f), EndpointKey(e))
                => EndpointKey(e) = EndpointKey(f)
  <1>1. /\ EndpointKey(e)[1] \in 1 .. 3 /\ EndpointKey(e)[2] \in Nat
        /\ EndpointKey(e) = <<EndpointKey(e)[1], EndpointKey(e)[2]>>
    BY DEF EndpointKey, IsEndpoint
  <1>2. /\ EndpointKey(f)[1] \in 1 .. 3 /\ EndpointKey(f)[2] \in Nat
        /\ EndpointKey(f) = <<EndpointKey(f)[1], EndpointKey(f)[2]>>
    BY DEF EndpointKey, IsEndpoint
  <1>3. ASSUME NotAfter(EndpointKey(e), EndpointKey(f)), NotAfter(EndpointKey(f), EndpointKey(e))
        PROVE  EndpointKey(e) = EndpointKey(f)
    <2>1. EndpointKey(e)[1] = EndpointKey(f)[1] /\ EndpointKey(e)[2] = EndpointKey(f)[2]
      BY <1>1, <1>2, <1>3 DEF NotAfter
    <2> QED
      BY <1>1, <1>2, <2>1
  <1>4. NotAfter(EndpointKey(e), EndpointKey(f)) \/ NotAfter(EndpointKey(f), EndpointKey(e))
    BY <1>1, <1>2 DEF NotAfter
  <1> QED
    BY <1>3, <1>4

\* What a row has of the observation it is made of: numbers, and its ends in order.
LEMMA RowsAreOrdered ==
    ASSUME NEW r \in RowsSeen
    PROVE  /\ r.value \in Nat
           /\ IsEndpoint(r.a) /\ IsEndpoint(r.b)
           /\ NotAfter(EndpointKey(r.a), EndpointKey(r.b))
           /\ r.hash[1] = {EndpointKey(r.a), EndpointKey(r.b)}
  <1>1. PICK o \in UNION Cycles : r = NormalizeRow(o)
    BY DEF RowsSeen
  <1>2. IsEndpoint(o.local) /\ IsEndpoint(o.remote) /\ o.value \in Nat
    BY <1>1, ObservationAssumption DEF IsEndpoint
  <1>3. /\ r.value = o.value /\ r.a = Ends(o)[1] /\ r.b = Ends(o)[2]
        /\ r.hash[1] = {EndpointKey(o.local), EndpointKey(o.remote)}
    BY <1>1 DEF NormalizeRow, EdgeHash
  <1>4. CASE NotAfter(EndpointKey(o.local), EndpointKey(o.remote))
    BY <1>2, <1>3, <1>4 DEF Ends
  <1>5. CASE ~ NotAfter(EndpointKey(o.local), EndpointKey(o.remote))
    <2>1. r.a = o.remote /\ r.b = o.local
      BY <1>3, <1>5 DEF Ends
    <2>2. NotAfter(EndpointKey(o.remote), EndpointKey(o.local))
      BY <1>2, <1>5, KeysAreOrdered
    <2>3. {EndpointKey(o.local), EndpointKey(o.remote)} = {EndpointKey(r.a), EndpointKey(r.b)}
      BY <2>1
    <2> QED
      BY <1>2, <1>3, <2>1, <2>2, <2>3
  <1> QED
    BY <1>4, <1>5

LEMMA PairsAgree ==
    ASSUME NEW a, NEW b, NEW c, NEW d, {a, b} = {c, d}
    PROVE  (a = c \/ a = d) /\ (c = a \/ c = b)
  <1>1. a \in {a, b} /\ c \in {c, d}
    OBVIOUS
  <1>2. a \in {c, d} /\ c \in {a, b}
    BY <1>1, Zenon
  <1> QED
    BY <1>2, Zenon

\* The two views of a connection have their ends in one order.
LEMMA ViewsAreOneRow ==
    ASSUME NEW r \in RowsSeen, NEW s \in RowsSeen, r.hash = s.hash
    PROVE  EndpointKey(r.a) = EndpointKey(s.a)
  <1>1. {EndpointKey(r.a), EndpointKey(r.b)} = {EndpointKey(s.a), EndpointKey(s.b)}
    BY RowsAreOrdered
  <1>2. /\ NotAfter(EndpointKey(r.a), EndpointKey(r.b)) /\ NotAfter(EndpointKey(s.a), EndpointKey(s.b))
        /\ IsEndpoint(r.a) /\ IsEndpoint(r.b) /\ IsEndpoint(s.a) /\ IsEndpoint(s.b)
    BY RowsAreOrdered
  <1>3. CASE EndpointKey(r.a) = EndpointKey(s.a)
    BY <1>3
  <1>4. CASE EndpointKey(r.a) = EndpointKey(s.b) /\ EndpointKey(r.b) = EndpointKey(s.a)
    <2>1. NotAfter(EndpointKey(s.b), EndpointKey(s.a))
      BY <1>2, <1>4
    <2> QED
      BY <1>2, <1>4, <2>1, KeysAreOrdered
  <1>5. \/ EndpointKey(r.a) = EndpointKey(s.a)
        \/ EndpointKey(r.a) = EndpointKey(s.b) /\ EndpointKey(r.b) = EndpointKey(s.a)
    <2>1. /\ EndpointKey(r.a) = EndpointKey(s.a) \/ EndpointKey(r.a) = EndpointKey(s.b)
          /\ EndpointKey(s.a) = EndpointKey(r.a) \/ EndpointKey(s.a) = EndpointKey(r.b)
      BY <1>1, PairsAgree, Zenon
    <2> QED
      BY <2>1
  <1> QED
    BY <1>3, <1>4, <1>5

\* Of each edge the deduplication keeps one row, with the largest value.
LEMMA DedupeKeepsLargest ==
    ASSUME NEW rows, IsFiniteSet(rows), \A r \in rows : r.value \in Nat
    PROVE  /\ DedupeEdges(rows) \subseteq rows
           /\ \A r \in rows : \E q \in DedupeEdges(rows) :
                RowKey(q) = RowKey(r) /\ r.value <= q.value
  <1> DEFINE Own(key) == {q \in rows : RowKey(q) = key}
             Keys == {RowKey(r) : r \in rows}
             Best(r, key) == \A q \in rows : RowKey(q) = key => q.value <= r.value
             Largest(key) == CHOOSE r \in Own(key) : Best(r, key)
  <1>1. DedupeEdges(rows) = {Largest(key) : key \in Keys}
    BY DEF DedupeEdges
  <1>2. ASSUME NEW key \in Keys PROVE \E r \in Own(key) : Best(r, key)
    <2> DEFINE f == [r \in Own(key) |-> r.value]
               A == {f[r] : r \in Own(key)}
    <2>1. IsFiniteSet(Own(key)) /\ Own(key) # {}
      BY FS_Subset
    <2>2. IsFiniteSet(A)
      <3> HIDE DEF Own, f
      <3> QED
        BY <2>1, ImageIsFinite
    <2>3. A \subseteq Nat /\ A # {}
      BY <2>1
    <2>4. Max(A) \in A /\ \A a \in A : a <= Max(A)
      <3> HIDE DEF A
      <3> QED
        BY <2>2, <2>3, MaxOf
    <2>5. PICK r \in Own(key) : f[r] = Max(A)
      BY <2>4
    <2>6. \A q \in Own(key) : q.value <= r.value
      BY <2>4, <2>5
    <2> QED
      BY <2>6
  <1>3. \A key \in Keys : Largest(key) \in Own(key) /\ Best(Largest(key), key)
    BY <1>2
  <1> HIDE DEF Largest
  <1> QED
    BY <1>1, <1>3

\* The rows of a cycle: finitely many, and for every observation one at least as large.
LEMMA CycleRowsAre ==
    ASSUME NEW observed \in Cycles
    PROVE  /\ CycleRows(observed) \subseteq RowsSeen /\ IsFiniteSet(CycleRows(observed))
           /\ \A o \in observed : \E r \in CycleRows(observed) :
                RowKey(r) = RowKey(NormalizeRow(o)) /\ r.value >= o.value
  <1> DEFINE f == [o \in observed |-> NormalizeRow(o)]
             rows == {f[o] : o \in observed}
  <1>1. IsFiniteSet(rows)
    <2> HIDE DEF f
    <2> QED
      BY ObservationAssumption, ImageIsFinite
  <1>2. rows = {NormalizeRow(o) : o \in observed} /\ CycleRows(observed) = DedupeEdges(rows)
    BY DEF CycleRows
  <1>3. rows \subseteq RowsSeen
    BY <1>2 DEF RowsSeen
  <1>4. \A r \in rows : r.value \in Nat
    BY <1>3, RowsAreOrdered
  <1> DEFINE kept == DedupeEdges(rows)
  <1>5. kept \subseteq rows /\ \A r \in rows : \E q \in kept : RowKey(q) = RowKey(r) /\ r.value <= q.value
    <2> HIDE DEF rows
    <2> QED
      BY <1>1, <1>4, DedupeKeepsLargest
  <1>6. IsFiniteSet(kept)
    BY <1>1, <1>5, FS_Subset
  <1>7. ASSUME NEW o \in observed
        PROVE  \E r \in kept : RowKey(r) = RowKey(NormalizeRow(o)) /\ r.value >= o.value
    <2>1. NormalizeRow(o) \in rows /\ NormalizeRow(o).value = o.value
      BY <1>2 DEF NormalizeRow
    <2>2. PICK q \in kept : RowKey(q) = RowKey(NormalizeRow(o)) /\ NormalizeRow(o).value <= q.value
      BY <1>5, <2>1
    <2>3. q.value \in Nat /\ o.value \in Nat
      BY <1>3, <1>5, RowsAreOrdered, ObservationAssumption
    <2> QED
      BY <2>1, <2>2, <2>3
  <1> QED
    BY <1>2, <1>3, <1>5, <1>6, <1>7

-----------------------------------------------------------------------------
(* The snapshot of a cycle.                                                *)

\* No member of a sum of natural numbers is larger than the sum.
LEMMA SumAtLeast ==
    ASSUME NEW S, NEW f, NEW g, IsFold(g, f, S), \A x \in S : f[x] \in Nat
    PROVE  g[S] \in Nat /\ \A x \in S : f[x] <= g[S]
  <1>0. IsFiniteSet(S) /\ g[{}] = 0
    BY FoldEmpty DEF IsFold
  <1>1. ASSUME NEW s \in SUBSET S, NEW x \in s PROVE g[s] = f[x] + g[s \ {x}]
    BY FoldStep
  <1> DEFINE Bad == {s \in SUBSET S : g[s] \notin Nat}
  <1>2. Bad = {}
    <2> SUFFICES ASSUME Bad # {} PROVE FALSE
      OBVIOUS
    <2>1. PICK s \in Bad : \A v \in Bad : v \subseteq s => v = s
      <3>1. Bad \in SUBSET (SUBSET S)
        OBVIOUS
      <3> HIDE DEF Bad
      <3> QED
        BY <1>0, <3>1, FiniteMinimal
    <2>2. s # {}
      <3>1. g[s] \notin Nat
        BY <2>1
      <3>2. s = {} => g[s] = 0
        BY <1>0
      <3> QED
        BY <3>1, <3>2
    <2>3. PICK x : x \in s
      BY <2>2
    <2>4. s \ {x} \notin Bad /\ s \ {x} \in SUBSET S
      BY <2>1, <2>3
    <2>5. g[s] = f[x] + g[s \ {x}]
      BY <1>1, <2>1, <2>3
    <2>6. f[x] \in Nat /\ g[s \ {x}] \in Nat
      BY <2>1, <2>3, <2>4
    <2> QED
      BY <2>1, <2>5, <2>6
  <1>3. ASSUME NEW x \in S PROVE f[x] <= g[S]
    <2>1. g[S] = f[x] + g[S \ {x}] /\ g[S \ {x}] \in Nat
      BY <1>1, <1>2
    <2>2. f[x] \in Nat
      OBVIOUS
    <2> QED
      BY <2>1, <2>2
  <1> QED
    BY <1>2, <1>3

\* The total of some rows.
Total(mine) == MapThenSumSet(LAMBDA r : r.value, mine)

LEMMA TotalIter ==
    ASSUME NEW mine
    PROVE  \E it : /\ it = CHOOSE g : g = [s \in SUBSET mine |-> IF s = {} THEN 0 ELSE Pick(s).value + g[s \ {Pick(s)}]]
                   /\ Total(mine) = it[mine]
  BY DEF Total, MapThenSumSet, MapThenFoldSet, Pick

LEMMA TotalAtLeast ==
    ASSUME NEW mine, IsFiniteSet(mine), \A r \in mine : r.value \in Nat
    PROVE  Total(mine) \in Nat /\ \A r \in mine : r.value <= Total(mine)
  <1> DEFINE f == [r \in mine |-> r.value]
  <1>1. PICK h : Folds(h, f, mine)
    BY FoldExists
  <1>2. PICK it : /\ it = CHOOSE g : g = [s \in SUBSET mine |-> IF s = {} THEN 0 ELSE Pick(s).value + g[s \ {Pick(s)}]]
                  /\ Total(mine) = it[mine]
    BY TotalIter
  <1>3. ASSUME NEW g
        PROVE  Folds(g, f, mine)
                 <=> g = [s \in SUBSET mine |-> IF s = {} THEN 0 ELSE Pick(s).value + g[s \ {Pick(s)}]]
    <2>1. \A s \in SUBSET mine : s # {} => f[Pick(s)] = Pick(s).value
      BY DEF Pick
    <2> QED
      BY <2>1 DEF Folds
  <1>4. Folds(it, f, mine)
    BY <1>1, <1>2, <1>3
  <1>5. IsFold(it, f, mine) /\ \A r \in mine : f[r] = r.value
    BY <1>4 DEF IsFold
  <1>6. it[mine] \in Nat /\ \A r \in mine : f[r] <= it[mine]
    <2>1. \A r \in mine : f[r] \in Nat
      BY <1>5
    <2> HIDE DEF f
    <2> QED
      BY <1>5, <2>1, SumAtLeast
  <1> QED
    BY <1>2, <1>5, <1>6

\* The edge of a snapshot made of some rows, by what it carries.
Own(rows, hash) == {r \in rows : r.hash = hash}

LEMMA EdgeIs ==
    ASSUME NEW rows \in SUBSET RowsSeen, IsFiniteSet(rows), NEW q \in rows
    PROVE  LET edge == TopologyEdge(rows, q.hash) IN
           /\ edge.id = q.hash
           /\ \E r \in rows : edge.source = EndpointKey(r.a) /\ edge.target = EndpointKey(r.b)
           /\ Bytes(edge) \in Nat
           /\ q.metric = "DATA_TRANSFERRED" => q.value <= Bytes(edge)
           /\ q.metric = "ROUND_TRIP_TIME" =>
                 \E r \in rows : r.hash = q.hash /\ r.value = edge.metrics["ROUND_TRIP_TIME"]
  <1> DEFINE hash == q.hash
             mine == Own(rows, hash)
             edge == TopologyEdge(rows, hash)
             one == CHOOSE r \in mine : TRUE
             of(m) == {r \in mine : r.metric = m}
  <1>0. q \in mine /\ mine \subseteq rows /\ IsFiniteSet(mine)
    BY FS_Subset DEF Own
  <1>1. edge = [id |-> hash, source |-> EndpointKey(one.a), target |-> EndpointKey(one.b),
                metrics |-> [m \in {r.metric : r \in mine} |-> MergedMetric(mine, m)]]
    BY DEF TopologyEdge, Own
  <1>2. one \in mine
    BY <1>0
  <1> HIDE DEF one, mine
  <1>3. \A r \in rows : r.value \in Nat
    BY RowsAreOrdered
  <1>4. \A m : IsFiniteSet(of(m)) /\ of(m) \subseteq mine
    BY <1>0, FS_Subset
  <1>5. /\ edge.id = hash /\ edge.source = EndpointKey(one.a) /\ edge.target = EndpointKey(one.b)
        /\ DOMAIN edge.metrics = {r.metric : r \in mine}
        /\ \A r \in mine : edge.metrics[r.metric] = MergedMetric(mine, r.metric)
    BY <1>1
  <1> HIDE DEF edge
  <1>6. MergedMetric(mine, "DATA_TRANSFERRED") = Total(of("DATA_TRANSFERRED"))
    BY DEF MergedMetric, Total
  <1>7. /\ Total(of("DATA_TRANSFERRED")) \in Nat
        /\ \A r \in of("DATA_TRANSFERRED") : r.value <= Total(of("DATA_TRANSFERRED"))
    <2>1. \A r \in of("DATA_TRANSFERRED") : r.value \in Nat
      BY <1>0, <1>3, <1>4
    <2> HIDE DEF of
    <2> QED
      BY <1>4, <2>1, TotalAtLeast
  <1>8. Bytes(edge) \in Nat /\ (q.metric = "DATA_TRANSFERRED" => q.value <= Bytes(edge))
    <2>1. CASE "DATA_TRANSFERRED" \in DOMAIN edge.metrics
      <3>1. edge.metrics["DATA_TRANSFERRED"] = MergedMetric(mine, "DATA_TRANSFERRED")
        BY <1>5, <2>1
      <3>2. Bytes(edge) = Total(of("DATA_TRANSFERRED"))
        BY <1>6, <2>1, <3>1 DEF Bytes
      <3>3. q.metric = "DATA_TRANSFERRED" => q \in of("DATA_TRANSFERRED")
        BY <1>0
      <3> HIDE DEF of
      <3> QED
        BY <1>7, <3>2, <3>3
    <2>2. CASE "DATA_TRANSFERRED" \notin DOMAIN edge.metrics
      <3>1. Bytes(edge) = 0
        BY <2>2 DEF Bytes
      <3>2. q.metric # "DATA_TRANSFERRED"
        BY <1>0, <1>5, <2>2
      <3> QED
        BY <3>1, <3>2
    <2> QED
      BY <2>1, <2>2
  <1>9. ASSUME q.metric = "ROUND_TRIP_TIME"
        PROVE  \E r \in mine : r.value = edge.metrics["ROUND_TRIP_TIME"]
    <2> DEFINE T == of("ROUND_TRIP_TIME")
               f == [r \in T |-> r.value]
               V == {f[r] : r \in T}
               A == V \cup {0}
    <2>0. q \in T /\ T \subseteq mine
      BY <1>0, <1>9
    <2>1. edge.metrics["ROUND_TRIP_TIME"] = Max(A)
      <3>1. edge.metrics["ROUND_TRIP_TIME"] = MergedMetric(mine, "ROUND_TRIP_TIME")
        BY <1>0, <1>5, <1>9
      <3>2. V = {r.value : r \in T}
        OBVIOUS
      <3> HIDE DEF V
      <3> QED
        BY <3>1, <3>2 DEF MergedMetric
    <2>2. IsFiniteSet(V)
      <3> HIDE DEF T, f
      <3> QED
        BY <1>4, ImageIsFinite DEF T
    <2>3. \A r \in T : f[r] = r.value /\ r.value \in Nat
      BY <1>0, <1>3, <2>0
    <2>4. V \subseteq Nat
      <3> HIDE DEF T, f
      <3> QED
        BY <2>3
    <2> HIDE DEF f, T
    <2>5. Max(A) \in A /\ \A a \in A : a <= Max(A)
      <3>1. IsFiniteSet(A)
        BY <2>2, FS_AddElement
      <3>2. A \subseteq Nat /\ A # {}
        BY <2>4
      <3> HIDE DEF A
      <3> QED
        BY <3>1, <3>2, MaxOf
    <2>6. CASE Max(A) \in V
      <3>1. PICK r \in T : f[r] = Max(A)
        BY <2>6
      <3> QED
        BY <2>0, <2>1, <2>3, <3>1
    <2>7. CASE Max(A) = 0
      <3>1. q.value \in A /\ q.value \in Nat
        BY <2>0, <2>3
      <3>2. q.value <= 0
        BY <2>5, <2>7, <3>1
      <3> QED
        BY <1>0, <2>1, <2>7, <3>1, <3>2
    <2> QED
      BY <2>5, <2>6, <2>7
  <1>10. \A r \in mine : r \in rows /\ r.hash = hash
    BY DEF mine, Own
  <1> QED
    BY <1>2, <1>5, <1>8, <1>9, <1>10 DEF edge

\* There is a heaviest selection of every size.
LEMMA HeaviestIs ==
    ASSUME NEW whole, IsFiniteSet(whole), \A e \in whole : Bytes(e) \in Nat
    PROVE  /\ Heaviest(whole) \subseteq whole
           /\ \A e \in Heaviest(whole), f \in whole \ Heaviest(whole) : Bytes(e) >= Bytes(f)
  <1> DEFINE Top(kept) == \A e \in kept, f \in whole \ kept : Bytes(e) >= Bytes(f)
             Has(n) == \E kept \in SUBSET whole : Cardinality(kept) = n /\ Top(kept)
             Bad == {n \in Nat : n <= Cardinality(whole) /\ ~ Has(n)}
  <1>0. /\ Cardinality(whole) \in Nat
        /\ \A s \in SUBSET whole : IsFiniteSet(s) /\ Cardinality(s) \in Nat
    BY FS_Subset, FS_CardinalityType
  <1>1. Has(0)
    BY FS_EmptySet
  <1>2. ASSUME NEW n \in Nat, n + 1 <= Cardinality(whole), Has(n) PROVE Has(n + 1)
    <2>1. PICK kept \in SUBSET whole : Cardinality(kept) = n /\ Top(kept)
      BY <1>2
    <2> DEFINE left == whole \ kept
               g == [e \in left |-> Bytes(e)]
               A == {g[e] : e \in left}
    <2>2. left # {}
      <3>1. kept # whole
        BY <1>0, <1>2, <2>1
      <3> QED
        BY <3>1
    <2>3. IsFiniteSet(A)
      <3>1. IsFiniteSet(left)
        BY FS_Subset
      <3> HIDE DEF left, g
      <3> QED
        BY <3>1, ImageIsFinite
    <2>4. A \subseteq Nat /\ A # {}
      BY <2>2
    <2>5. Max(A) \in A /\ \A a \in A : a <= Max(A)
      <3> HIDE DEF A
      <3> QED
        BY <2>3, <2>4, MaxOf
    <2>6. PICK x \in left : g[x] = Max(A)
      BY <2>5
    <2>7. \A e \in left : Bytes(e) <= Bytes(x)
      BY <2>5, <2>6
    <2>8. Top(kept \cup {x})
      <3>1. \A e \in kept, f \in left : Bytes(e) >= Bytes(f)
        BY <2>1
      <3>2. ASSUME NEW e \in kept \cup {x}, NEW f \in whole \ (kept \cup {x}) PROVE Bytes(e) >= Bytes(f)
        <4>1. f \in left /\ Bytes(f) \in Nat /\ Bytes(x) \in Nat
          BY <2>6
        <4>2. CASE e \in kept
          BY <3>1, <4>1, <4>2
        <4>3. CASE e = x
          BY <2>7, <4>1, <4>3
        <4> QED
          BY <4>2, <4>3
      <3> QED
        BY <3>2
    <2>9. Cardinality(kept \cup {x}) = n + 1 /\ kept \cup {x} \in SUBSET whole
      BY <1>0, <2>1, <2>6, FS_AddElement
    <2> QED
      BY <2>8, <2>9
  <1> HIDE DEF Has
  <1>3. ASSUME NEW n \in Nat, n <= Cardinality(whole) PROVE Has(n)
    <2> SUFFICES ASSUME Bad # {} PROVE FALSE
      BY <1>3
    <2>1. PICK b \in Bad : \A k \in Bad : b <= k
      <3>1. Bad \in SUBSET Nat
        OBVIOUS
      <3> HIDE DEF Bad
      <3> QED
        BY <3>1, LeastNatural
    <2>2. b # 0
      BY <1>1, <2>1
    <2>3. b - 1 \in Nat /\ (b - 1) + 1 = b /\ ~ (b <= b - 1) /\ b - 1 <= Cardinality(whole)
      BY <1>0, <2>1, <2>2
    <2>4. Has(b - 1)
      BY <2>1, <2>3
    <2> QED
      BY <1>2, <2>1, <2>3, <2>4
  <1> DEFINE size == Min({MaxEdges, Cardinality(whole)})
  <1>4. size \in Nat /\ size <= Cardinality(whole)
    <2>1. MaxEdges \in Nat
      BY ArchiveAssumption
    <2>2. \E m \in {MaxEdges, Cardinality(whole)} : \A k \in {MaxEdges, Cardinality(whole)} : m =< k
      BY <1>0, <2>1
    <2>3. size \in {MaxEdges, Cardinality(whole)} /\ \A k \in {MaxEdges, Cardinality(whole)} : size =< k
      BY <2>2 DEF Min
    <2> QED
      BY <1>0, <2>1, <2>3
  <1> HIDE DEF size
  <1>5. \E kept \in SUBSET whole : Cardinality(kept) = size /\ Top(kept)
    BY <1>3, <1>4 DEF Has
  <1>6. Heaviest(whole) = CHOOSE kept \in SUBSET whole : Cardinality(kept) = size /\ Top(kept)
    BY DEF Heaviest, size
  <1> QED
    BY <1>5, <1>6

\* The snapshot of every cycle shows what the cycle saw.
LEMMA SnapshotsAreTrue == SnapshotsHold
  <1> SUFFICES ASSUME NEW observed \in Cycles
               PROVE  LET rows == CycleRows(observed)
                          snapshot == BuildTopology(rows)
                      IN /\ \A e \in snapshot.edges :
                              /\ {e.source, e.target} \subseteq {n.id : n \in snapshot.nodes}
                              /\ \A r \in rows : r.hash = e.id /\ r.metric = "ROUND_TRIP_TIME" =>
                                   \E q \in rows : q.hash = e.id /\ q.value = e.metrics["ROUND_TRIP_TIME"]
                         /\ \A r \in rows, e \in snapshot.edges :
                              r.metric = "DATA_TRANSFERRED" /\ r.value > Bytes(e)
                              => \E f \in snapshot.edges : f.id = r.hash
                         /\ \A n, k \in snapshot.nodes : n.id = k.id => n = k
    BY DEF SnapshotsHold
  <1> DEFINE rows == CycleRows(observed)
             snapshot == BuildTopology(rows)
             hashes == {r.hash : r \in rows}
             g == [h \in hashes |-> TopologyEdge(rows, h)]
             whole == {g[h] : h \in hashes}
             nodes == {NodeOf(e) : e \in UNION {{r.a, r.b} : r \in rows}}
  <1>1. rows \in SUBSET RowsSeen /\ IsFiniteSet(rows)
    BY CycleRowsAre
  <1>2. /\ whole = {TopologyEdge(rows, h) : h \in {r.hash : r \in rows}}
        /\ snapshot.edges = Heaviest(whole)
        /\ snapshot.nodes = {n \in nodes : \E e \in Heaviest(whole) : n.id \in {e.source, e.target}}
    <2>1. whole = {TopologyEdge(rows, h) : h \in {r.hash : r \in rows}}
      BY DEF hashes
    <2> DEFINE some == {TopologyEdge(rows, h) : h \in {r.hash : r \in rows}}
    <2>2. snapshot = [nodes |-> {n \in nodes : \E e \in Heaviest(some) : n.id \in {e.source, e.target}},
                      edges |-> Heaviest(some)]
      BY DEF BuildTopology
    <2> HIDE DEF some, snapshot, nodes
    <2>3. snapshot.edges = Heaviest(some)
      BY <2>2
    <2>4. snapshot.nodes = {n \in nodes : \E e \in Heaviest(some) : n.id \in {e.source, e.target}}
      BY <2>2
    <2>5. whole = some
      BY <2>1 DEF some
    <2> QED
      BY <2>1, <2>3, <2>4, <2>5
  <1> HIDE DEF rows, snapshot
  <1>3. ASSUME NEW e \in whole PROVE \E q \in rows : e = TopologyEdge(rows, q.hash)
    BY <1>2
  <1>4. IsFiniteSet(whole)
    <2> DEFINE k == [r \in rows |-> r.hash]
    <2>1. IsFiniteSet({k[r] : r \in rows})
      <3> HIDE DEF k
      <3> QED
        BY <1>1, ImageIsFinite
    <2>2. {k[r] : r \in rows} = hashes
      OBVIOUS
    <2> HIDE DEF k, hashes, g
    <2> QED
      BY <2>1, <2>2, ImageIsFinite
  <1> HIDE DEF whole
  <1>5. ASSUME NEW e \in whole PROVE Bytes(e) \in Nat
    BY <1>1, <1>3, EdgeIs
  <1>6. /\ snapshot.edges \subseteq whole
        /\ \A e \in snapshot.edges, f \in whole \ snapshot.edges : Bytes(e) >= Bytes(f)
    <2>1. \A e \in whole : Bytes(e) \in Nat
      BY <1>5
    <2>2. /\ Heaviest(whole) \subseteq whole
          /\ \A e \in Heaviest(whole), f \in whole \ Heaviest(whole) : Bytes(e) >= Bytes(f)
      BY <1>4, <2>1, HeaviestIs
    <2> QED
      BY <1>2, <2>2
  <1>7. ASSUME NEW e \in snapshot.edges
        PROVE  {e.source, e.target} \subseteq {n.id : n \in snapshot.nodes}
    <2>1. PICK r \in rows : e.source = EndpointKey(r.a) /\ e.target = EndpointKey(r.b)
      <3>1. PICK q \in rows : e = TopologyEdge(rows, q.hash)
        BY <1>3, <1>6
      <3> QED
        BY <1>1, <3>1, EdgeIs
    <2>2. NodeOf(r.a) \in nodes /\ NodeOf(r.b) \in nodes
      <3>1. {r.a, r.b} \in {{s.a, s.b} : s \in rows}
        OBVIOUS
      <3>2. r.a \in UNION {{s.a, s.b} : s \in rows} /\ r.b \in UNION {{s.a, s.b} : s \in rows}
        BY <3>1
      <3> QED
        BY <3>2
    <2>3. NodeOf(r.a).id = e.source /\ NodeOf(r.b).id = e.target
      BY <2>1 DEF NodeOf
    <2> HIDE DEF nodes
    <2>4. NodeOf(r.a) \in snapshot.nodes /\ NodeOf(r.b) \in snapshot.nodes
      BY <1>2, <2>2, <2>3
    <2> QED
      BY <2>3, <2>4
  <1>8. ASSUME NEW e \in snapshot.edges, NEW r \in rows, r.hash = e.id, r.metric = "ROUND_TRIP_TIME"
        PROVE  \E q \in rows : q.hash = e.id /\ q.value = e.metrics["ROUND_TRIP_TIME"]
    <2>1. PICK q \in rows : e = TopologyEdge(rows, q.hash)
      BY <1>3, <1>6
    <2>2. q.hash = r.hash
      BY <1>1, <1>8, <2>1, EdgeIs
    <2>3. e = TopologyEdge(rows, r.hash)
      BY <2>1, <2>2
    <2> QED
      BY <1>1, <1>8, <2>3, EdgeIs
  <1>9. ASSUME NEW r \in rows, NEW e \in snapshot.edges,
               r.metric = "DATA_TRANSFERRED", r.value > Bytes(e)
        PROVE  \E f \in snapshot.edges : f.id = r.hash
    <2> DEFINE t == TopologyEdge(rows, r.hash)
    <2>1. t \in whole
      BY <1>2
    <2>2. t.id = r.hash /\ r.value <= Bytes(t) /\ Bytes(t) \in Nat
      BY <1>1, <1>9, EdgeIs
    <2>3. r.value \in Nat /\ Bytes(e) \in Nat
      BY <1>1, <1>5, <1>6, RowsAreOrdered
    <2>4. ~ (Bytes(e) >= Bytes(t))
      BY <1>9, <2>2, <2>3
    <2>5. t \in snapshot.edges
      BY <1>6, <2>1, <2>4
    <2> QED
      BY <2>2, <2>5
  <1>10. ASSUME NEW n \in snapshot.nodes, NEW k \in snapshot.nodes, n.id = k.id
         PROVE  n = k
    <2>1. PICK e : n = NodeOf(e)
      BY <1>2
    <2>2. PICK f : k = NodeOf(f)
      BY <1>2
    <2>3. EndpointKey(e) = EndpointKey(f)
      BY <1>10, <2>1, <2>2 DEF NodeOf
    <2>4. \A x : NodeKind(x) = IF EndpointKey(x)[1] = 3 THEN "pod"
                              ELSE IF EndpointKey(x)[1] = 1 THEN "node" ELSE "external"
      BY DEF NodeKind, EndpointKey
    <2> QED
      BY <2>1, <2>2, <2>3, <2>4 DEF NodeOf
  <1> QED
    BY <1>7, <1>8, <1>9, <1>10 DEF rows, snapshot

\* The columns of the two formats are the same, so Firehose can deliver.
LEMMA RowsConvert == Convertible
  <1> DEFINE Converted == {<<c[1], c[2], JsonType(c[3])>> : c \in GlueColumns}
  <1>1. ASSUME NEW c \in GlueColumns PROVE <<c[1], c[2], JsonType(c[3])>> \in FlatColumns
    BY DEF GlueColumns, FlatColumns, EndpointFields, JsonType
  <1>2. ASSUME NEW c \in FlatColumns PROVE c \in Converted
    BY DEF GlueColumns, FlatColumns, EndpointFields, JsonType
  <1> QED
    BY <1>1, <1>2 DEF Convertible
-----------------------------------------------------------------------------
(* The rows on their way.                                                  *)

ChangesOf == [event : {"INSERT", "MODIFY", "REMOVE"}, kind : {"FLOW", "HFLOW"}, row : RowsSeen]
Batches == [changes : Seq(ChangesOf), tries : Nat]
Entries == {[dt |-> Day(r.bucket), row |-> r] : r \in RowsSeen}

\* The flow rows that some changes carry, and the changes that some batches hold.
FlowsOf(changes) == {c.row : c \in {d \in changes : IsFlow(d) /\ HasImage(d)}}
InBatches(batches) == UNION {ToSet(batches[i].changes) : i \in DOMAIN batches}

PathTypes ==
    /\ put \subseteq RowsSeen /\ table \subseteq put
    /\ stream \in Seq(ChangesOf) /\ work \in Seq(Batches)
    /\ buffer \in Seq(RowsSeen) /\ archive \in Seq(Entries)

\* Every observation was stored or dropped, in a row at least as large.
ObservationsKept ==
    \A o \in seen : \E r \in put \cup dropped :
        RowKey(r) = RowKey(NormalizeRow(o)) /\ r.value >= o.value

\* The inductive invariant: what moves was stored, and what was stored moves,
\* has arrived or was given up.
ArchiveInv ==
    /\ PathTypes /\ ObservationsKept
    /\ OnTheWay \cup Archived \subseteq put
    /\ put \subseteq OnTheWay \cup Archived \cup logged \cup spent

LEMMA OnTheWayIs ==
    /\ OnTheWay = FlowsOf(ToSet(stream)) \cup FlowsOf(InBatches(work)) \cup ToSet(buffer)
    /\ OnTheWay' = FlowsOf(ToSet(stream')) \cup FlowsOf(InBatches(work')) \cup ToSet(buffer')
  <1>1. Changes = ToSet(stream) \cup InBatches(work) /\ Changes' = ToSet(stream') \cup InBatches(work')
    BY DEF Changes, InBatches
  <1>2. OnTheWay = FlowsOf(Changes) \cup ToSet(buffer) /\ OnTheWay' = FlowsOf(Changes') \cup ToSet(buffer')
    BY DEF OnTheWay, FlowsOf
  <1>3. \A c, d : FlowsOf(c \cup d) = FlowsOf(c) \cup FlowsOf(d)
    BY DEF FlowsOf
  <1> QED
    BY <1>1, <1>2, <1>3

LEMMA FlowsOfBoth == ASSUME NEW c, NEW d PROVE FlowsOf(c \cup d) = FlowsOf(c) \cup FlowsOf(d)
  BY DEF FlowsOf

LEMMA InBatchesIs ==
    /\ InBatches(<<>>) = {}
    /\ \A w \in Seq(Batches) : w # <<>> =>
          /\ Head(w) \in Batches /\ Tail(w) \in Seq(Batches)
          /\ InBatches(w) = ToSet(Head(w).changes) \cup InBatches(Tail(w))
    /\ \A v, w \in Seq(Batches) : v \o w \in Seq(Batches) /\ InBatches(v \o w) = InBatches(v) \cup InBatches(w)
  <1>1. ASSUME NEW w PROVE InBatches(w) = UNION {ToSet(b.changes) : b \in ToSet(w)}
    BY DEF InBatches, ToSet
  <1>2. InBatches(<<>>) = {}
    BY DEF InBatches
  <1>3. ASSUME NEW w \in Seq(Batches), w # <<>>
        PROVE  /\ Head(w) \in Batches /\ Tail(w) \in Seq(Batches)
               /\ InBatches(w) = ToSet(Head(w).changes) \cup InBatches(Tail(w))
    <2>1. Head(w) \in Batches /\ Tail(w) \in Seq(Batches) /\ ToSet(w) = {Head(w)} \cup ToSet(Tail(w))
      BY <1>3, ToSetHead
    <2> QED
      BY <1>1, <2>1
  <1>4. ASSUME NEW v \in Seq(Batches), NEW w \in Seq(Batches)
        PROVE  v \o w \in Seq(Batches) /\ InBatches(v \o w) = InBatches(v) \cup InBatches(w)
    <2>1. v \o w \in Seq(Batches) /\ ToSet(v \o w) = ToSet(v) \cup ToSet(w)
      BY ToSetConcat
    <2> QED
      BY <1>1, <2>1
  <1> QED
    BY <1>2, <1>3, <1>4

\* What the handler sends for a batch is the flow rows its changes carry.
LEMMA FlattenedIs ==
    ASSUME NEW batch \in Batches
    PROVE  Flattened(batch) \in Seq(RowsSeen) /\ ToSet(Flattened(batch)) = FlowsOf(ToSet(batch.changes))
  <1> DEFINE changes == batch.changes
             chosen == {i \in DOMAIN changes : HasImage(changes[i]) /\ IsFlow(changes[i])}
             kept == Subsequence(changes, chosen)
  <1>1. changes \in Seq(ChangesOf)
    BY DEF Batches
  <1>2. kept \in Seq(ChangesOf) /\ ToSet(kept) = {changes[i] : i \in chosen}
    <2>1. chosen \in SUBSET DOMAIN changes
      OBVIOUS
    <2> HIDE DEF chosen, changes
    <2> QED
      BY <1>1, <2>1, SubsequenceIs
  <1>3. Flattened(batch) = [i \in DOMAIN kept |-> kept[i].row]
    BY DEF Flattened
  <1>4. {changes[i] : i \in chosen} = {d \in ToSet(changes) : IsFlow(d) /\ HasImage(d)}
    BY DEF ToSet
  <1> HIDE DEF kept, changes, chosen
  <1>5. DOMAIN kept = 1 .. Len(kept) /\ Len(kept) \in Nat /\ \A i \in DOMAIN kept : kept[i].row \in RowsSeen
    <2>1. DOMAIN kept = 1 .. Len(kept) /\ Len(kept) \in Nat /\ \A i \in DOMAIN kept : kept[i] \in ChangesOf
      BY <1>2, LenProperties, ElementOfSeq
    <2> QED
      BY <2>1 DEF ChangesOf
  <1>6. Flattened(batch) \in Seq(RowsSeen)
    BY <1>3, <1>5
  <1>7. ToSet(Flattened(batch)) = {c.row : c \in ToSet(kept)}
    BY <1>3 DEF ToSet
  <1>8. ToSet(Flattened(batch)) = FlowsOf(ToSet(changes))
    BY <1>2, <1>4, <1>7 DEF FlowsOf
  <1> QED
    BY <1>6, <1>8 DEF changes

LEMMA ArchivedIs ==
    Archived = {e.row : e \in ToSet(archive)} /\ Archived' = {e.row : e \in ToSet(archive')}
  BY DEF Archived, ToSet

\* A table without rows, and nothing on its way.
LEMMA InitArchive == ArchiveInit => ArchiveInv
  <1> SUFFICES ASSUME ArchiveInit PROVE ArchiveInv
    OBVIOUS
  <1>1. ToSet(<<>>) = {}
    BY DEF ToSet
  <1>2. PathTypes /\ ObservationsKept
    BY DEF ArchiveInit, PathTypes, ObservationsKept
  <1>3. FlowsOf(ToSet(stream)) = {} /\ FlowsOf(InBatches(work)) = {} /\ ToSet(buffer) = {} /\ ToSet(archive) = {}
    BY <1>1, InBatchesIs DEF ArchiveInit, FlowsOf
  <1>4. OnTheWay = {} /\ Archived = {}
    BY <1>3, OnTheWayIs, ArchivedIs
  <1> QED
    BY <1>2, <1>4 DEF ArchiveInv, ArchiveInit

\* A write stores or drops a row for every observation, and the stream has the stored.
LEMMA WriteKeeps ==
    ASSUME ArchiveInv, NEW observed \in Cycles, NEW left \in SUBSET CycleRows(observed),
           WriteCycle(observed, left)
    PROVE  ArchiveInv'
  <1> DEFINE rows == CycleRows(observed) \ left
             f == [r \in rows |-> PutChange(r)]
             P == {f[r] : r \in rows}
  <1>1. rows \subseteq RowsSeen /\ IsFiniteSet(rows)
    BY CycleRowsAre, FS_Subset
  <1>2. IsFiniteSet(P)
    <2> HIDE DEF rows, f
    <2> QED
      BY <1>1, ImageIsFinite
  <1>3. P = {PutChange(r) : r \in rows}
    OBVIOUS
  <1> HIDE DEF P
  <1>4. /\ seen' = seen \cup observed /\ put' = put \cup rows /\ dropped' = dropped \cup left
        /\ table' \subseteq table \cup rows /\ stream' = stream \o SetToSeq(P)
        /\ UNCHANGED <<work, buffer, archive, logged, spent>>
    BY <1>3 DEF WriteCycle
  <1>5. P \subseteq ChangesOf /\ FlowsOf(P) = rows
    <2>1. \A r \in rows : /\ PutChange(r) \in ChangesOf /\ PutChange(r).row = r
                         /\ IsFlow(PutChange(r)) /\ HasImage(PutChange(r))
      BY <1>1 DEF PutChange, Change, ChangesOf, IsFlow, HasImage
    <2> HIDE DEF rows
    <2> QED
      BY <1>3, <2>1 DEF FlowsOf
  <1> HIDE DEF rows
  <1>6. SetToSeq(P) \in Seq(ChangesOf) /\ ToSet(SetToSeq(P)) = P
    <2>1. SetToSeq(P) \in Seq(P) /\ ToSet(SetToSeq(P)) = P
      BY <1>2, SetToSeqIs
    <2> QED
      BY <1>5, <2>1, SeqMonotonic
  <1>7. stream' \in Seq(ChangesOf) /\ ToSet(stream') = ToSet(stream) \cup P
    BY <1>4, <1>6, ToSetConcat DEF ArchiveInv, PathTypes
  <1>8. PathTypes'
    BY <1>1, <1>4, <1>7 DEF ArchiveInv, PathTypes
  <1>9. ObservationsKept'
    <2> SUFFICES ASSUME NEW o \in seen'
                 PROVE  \E r \in put' \cup dropped' : RowKey(r) = RowKey(NormalizeRow(o)) /\ r.value >= o.value
      BY DEF ObservationsKept
    <2>1. CASE o \in seen
      BY <1>4, <2>1 DEF ArchiveInv, ObservationsKept
    <2>2. CASE o \in observed
      <3>1. PICK r \in CycleRows(observed) : RowKey(r) = RowKey(NormalizeRow(o)) /\ r.value >= o.value
        BY <2>2, CycleRowsAre
      <3>2. r \in put' \cup dropped'
        BY <1>4 DEF rows
      <3> QED
        BY <3>1, <3>2
    <2> QED
      BY <1>4, <2>1, <2>2
  <1>10. OnTheWay' = OnTheWay \cup rows
    <2>1. OnTheWay' = FlowsOf(ToSet(stream')) \cup FlowsOf(InBatches(work')) \cup ToSet(buffer')
      BY OnTheWayIs
    <2>2. FlowsOf(ToSet(stream')) = FlowsOf(ToSet(stream)) \cup rows
      BY <1>5, <1>7, FlowsOfBoth
    <2> QED
      BY <1>4, <2>1, <2>2, OnTheWayIs
  <1>11. Archived' = Archived
    BY <1>4 DEF Archived
  <1> QED
    BY <1>4, <1>8, <1>9, <1>10, <1>11 DEF ArchiveInv

\* Expired and hourly rows pass by.
LEMMA OtherKeeps == ASSUME ArchiveInv, OtherChange PROVE ArchiveInv'
  <1>1. PICK r \in table : \E c :
           /\ c \in {Change("REMOVE", "FLOW", r), Change("INSERT", "HFLOW", r)}
           /\ stream' = Append(stream, c) /\ table' \subseteq table
           /\ UNCHANGED <<seen, put, dropped, work, buffer, archive, logged, spent>>
    BY DEF OtherChange
  <1>a. PICK c :
           /\ c \in {Change("REMOVE", "FLOW", r), Change("INSERT", "HFLOW", r)}
           /\ stream' = Append(stream, c) /\ table' \subseteq table
           /\ UNCHANGED <<seen, put, dropped, work, buffer, archive, logged, spent>>
    BY <1>1
  <1>2. c \in ChangesOf /\ FlowsOf({c}) = {}
    <2>1. r \in RowsSeen
      BY DEF ArchiveInv, PathTypes
    <2>2. CASE c = Change("REMOVE", "FLOW", r)
      BY <2>1, <2>2 DEF Change, ChangesOf, FlowsOf, HasImage
    <2>3. CASE c = Change("INSERT", "HFLOW", r)
      BY <2>1, <2>3 DEF Change, ChangesOf, FlowsOf, IsFlow
    <2> QED
      BY <1>a, <2>2, <2>3
  <1>3. stream' \in Seq(ChangesOf) /\ ToSet(stream') = ToSet(stream) \cup {c}
    <2>1. stream \in Seq(ChangesOf)
      BY DEF ArchiveInv, PathTypes
    <2>2. Append(stream, c) = stream \o <<c>>
      BY <1>2, <2>1, AppendIsConcat
    <2>3. <<c>> \in Seq(ChangesOf) /\ ToSet(<<c>>) = {c}
      BY <1>2 DEF ToSet
    <2>4. stream \o <<c>> \in Seq(ChangesOf) /\ ToSet(stream \o <<c>>) = ToSet(stream) \cup ToSet(<<c>>)
      BY <2>1, <2>3, ToSetConcat
    <2> QED
      BY <1>a, <2>2, <2>3, <2>4
  <1>4. OnTheWay' = OnTheWay
    <2>1. OnTheWay' = FlowsOf(ToSet(stream')) \cup FlowsOf(InBatches(work')) \cup ToSet(buffer')
      BY OnTheWayIs
    <2>2. FlowsOf(ToSet(stream')) = FlowsOf(ToSet(stream)) \cup FlowsOf({c})
      <3> DEFINE old == ToSet(stream)
                 new == {c}
      <3>1. FlowsOf(old \cup new) = FlowsOf(old) \cup FlowsOf(new)
        <4> HIDE DEF old, new
        <4> QED
          BY FlowsOfBoth
      <3>2. ToSet(stream') = old \cup new
        BY <1>3
      <3> HIDE DEF old, new
      <3>3. FlowsOf(ToSet(stream')) = FlowsOf(old) \cup FlowsOf(new)
        BY <3>1, <3>2
      <3> QED
        BY <3>3 DEF old, new
    <2> QED
      BY <1>2, <1>a, <2>1, <2>2, OnTheWayIs
  <1>5. PathTypes' /\ ObservationsKept'
    BY <1>a, <1>3 DEF ArchiveInv, PathTypes, ObservationsKept
  <1>6. Archived' = Archived
    BY <1>a DEF Archived
  <1> QED
    BY <1>a, <1>4, <1>5, <1>6 DEF ArchiveInv

\* The steps of the Lambda and of Firehose store, see and drop nothing.
MovesOn == UNCHANGED <<seen, put, dropped, table>>

LEMMA MovingKeeps ==
    ASSUME ArchiveInv, MovesOn,
           stream' \in Seq(ChangesOf), work' \in Seq(Batches), buffer' \in Seq(RowsSeen), archive' \in Seq(Entries),
           OnTheWay' \cup Archived' \subseteq OnTheWay \cup Archived,
           OnTheWay \cup Archived \cup logged \cup spent \subseteq OnTheWay' \cup Archived' \cup logged' \cup spent'
    PROVE  ArchiveInv'
  <1>1. PathTypes' /\ ObservationsKept'
    BY DEF MovesOn, ArchiveInv, PathTypes, ObservationsKept
  <1> QED
    BY <1>1 DEF MovesOn, ArchiveInv

LEMMA TakeKeeps == ASSUME ArchiveInv, TakeBatch PROVE ArchiveInv'
  <1>0. stream \in Seq(ChangesOf) /\ Len(stream) \in Nat
    BY LenProperties DEF ArchiveInv, PathTypes
  <1>1. PICK n \in 1 .. BatchSize :
           /\ n <= Len(stream)
           /\ work' = <<[changes |-> SubSeq(stream, 1, n), tries |-> 0]>>
           /\ stream' = SubSeq(stream, n + 1, Len(stream))
    BY DEF TakeBatch
  <1>2. n \in 0 .. Len(stream)
    BY <1>0, <1>1, ArchiveAssumption
  <1> DEFINE head == SubSeq(stream, 1, n)
             batch == [changes |-> head, tries |-> 0]
  <1>3. /\ head \in Seq(ChangesOf) /\ stream' \in Seq(ChangesOf)
        /\ ToSet(head) \cup ToSet(stream') = ToSet(stream)
    BY <1>0, <1>1, <1>2, ToSetHalves
  <1> HIDE DEF head
  <1>4. batch \in Batches /\ batch.changes = head
    BY <1>3 DEF Batches
  <1>5. work' \in Seq(Batches) /\ InBatches(work') = ToSet(head)
    <2> HIDE DEF batch
    <2>1. work' = <<batch>>
      BY <1>1 DEF batch, head
    <2> QED
      BY <1>4, <2>1 DEF InBatches
  <1>6. OnTheWay' = OnTheWay
    <2>1. OnTheWay' = FlowsOf(ToSet(stream')) \cup FlowsOf(InBatches(work')) \cup ToSet(buffer')
      BY OnTheWayIs
    <2>2. FlowsOf(ToSet(stream)) = FlowsOf(ToSet(stream')) \cup FlowsOf(InBatches(work'))
      BY <1>3, <1>5, FlowsOfBoth
    <2>3. FlowsOf(InBatches(work)) = {} /\ buffer' = buffer
      BY InBatchesIs DEF TakeBatch, FlowsOf
    <2> QED
      BY <2>1, <2>2, <2>3, OnTheWayIs
  <1>7. Archived' = Archived /\ MovesOn /\ UNCHANGED <<buffer, archive, logged, spent>>
    BY DEF TakeBatch, Archived, MovesOn
  <1> QED
    BY <1>3, <1>5, <1>6, <1>7, MovingKeeps DEF ArchiveInv, PathTypes

LEMMA SendKeeps == ASSUME ArchiveInv, Send PROVE ArchiveInv'
  <1>0. /\ work \in Seq(Batches) /\ work # <<>> /\ buffer \in Seq(RowsSeen)
        /\ work' = Tail(work) /\ MovesOn /\ UNCHANGED <<stream, archive, spent>>
    BY DEF ArchiveInv, PathTypes, Send, MovesOn
  <1> DEFINE rows == Flattened(Head(work))
  <1>1. PICK refused \in SUBSET DOMAIN rows :
           /\ buffer' = buffer \o Subsequence(rows, DOMAIN rows \ refused)
           /\ logged' = logged \cup {rows[i] : i \in refused}
    BY DEF Send
  <1>2. /\ Head(work) \in Batches /\ work' \in Seq(Batches)
        /\ InBatches(work) = ToSet(Head(work).changes) \cup InBatches(work')
    BY <1>0, InBatchesIs
  <1>3. rows \in Seq(RowsSeen) /\ ToSet(rows) = FlowsOf(ToSet(Head(work).changes))
    BY <1>2, FlattenedIs
  <1> HIDE DEF rows
  <1> DEFINE sent == Subsequence(rows, DOMAIN rows \ refused)
  <1>4. sent \in Seq(RowsSeen) /\ ToSet(sent) = {rows[i] : i \in DOMAIN rows \ refused}
    BY <1>3, SubsequenceIs
  <1>5. ToSet(rows) = ToSet(sent) \cup {rows[i] : i \in refused}
    BY <1>4 DEF ToSet
  <1>6. buffer' \in Seq(RowsSeen) /\ ToSet(buffer') = ToSet(buffer) \cup ToSet(sent)
    <2>1. buffer' = buffer \o sent
      BY <1>1
    <2>2. buffer \in Seq(RowsSeen) /\ sent \in Seq(RowsSeen)
      BY <1>0, <1>4
    <2> HIDE DEF sent
    <2> QED
      BY <2>1, <2>2, ToSetConcat
  <1> HIDE DEF sent
  <1>7. OnTheWay' \subseteq OnTheWay /\ OnTheWay \subseteq OnTheWay' \cup logged'
    <2>1. OnTheWay' = FlowsOf(ToSet(stream')) \cup FlowsOf(InBatches(work')) \cup ToSet(buffer')
      BY OnTheWayIs
    <2>2. FlowsOf(InBatches(work)) = ToSet(rows) \cup FlowsOf(InBatches(work'))
      BY <1>2, <1>3, FlowsOfBoth
    <2>3. OnTheWay = FlowsOf(ToSet(stream)) \cup FlowsOf(InBatches(work)) \cup ToSet(buffer)
      BY OnTheWayIs
    <2> HIDE DEF FlowsOf
    <2> QED
      BY <1>0, <1>1, <1>5, <1>6, <2>1, <2>2, <2>3
  <1>8. Archived' = Archived /\ logged \subseteq logged' /\ spent' = spent
    BY <1>0, <1>1 DEF Archived
  <1>9. stream' \in Seq(ChangesOf) /\ archive' \in Seq(Entries)
    BY <1>0 DEF ArchiveInv, PathTypes
  <1>10. /\ OnTheWay' \cup Archived' \subseteq OnTheWay \cup Archived
         /\ OnTheWay \cup Archived \cup logged \cup spent \subseteq OnTheWay' \cup Archived' \cup logged' \cup spent'
    BY <1>7, <1>8
  <1> QED
    BY <1>0, <1>2, <1>6, <1>9, <1>10, MovingKeeps

\* A failed batch is split, tried again or given up.
LEMMA AgainIs ==
    ASSUME NEW batch \in Batches, Flattened(batch) # <<>>
    PROVE  /\ Again(batch) \in Seq(Batches)
           /\ Again(batch) # <<>> => InBatches(Again(batch)) = ToSet(batch.changes)
  <1> DEFINE s == batch.changes
             n == Len(s)
  <1>1. s \in Seq(ChangesOf) /\ n \in Nat /\ batch = [changes |-> s, tries |-> batch.tries] /\ batch.tries \in Nat
    BY LenProperties DEF Batches
  <1>2. CASE n > 1
    <2> DEFINE b == [batch EXCEPT !.changes = SubSeq(s, 1, n \div 2)]
               c == [batch EXCEPT !.changes = SubSeq(s, n \div 2 + 1, n)]
    <2>1. n \div 2 \in 0 .. n
      BY <1>1
    <2>2. /\ SubSeq(s, 1, n \div 2) \in Seq(ChangesOf) /\ SubSeq(s, n \div 2 + 1, n) \in Seq(ChangesOf)
          /\ ToSet(SubSeq(s, 1, n \div 2)) \cup ToSet(SubSeq(s, n \div 2 + 1, n)) = ToSet(s)
      <3> HIDE DEF s
      <3> QED
        BY <1>1, <2>1, ToSetHalves DEF n
    <2>3. b \in Batches /\ c \in Batches /\ b.changes = SubSeq(s, 1, n \div 2) /\ c.changes = SubSeq(s, n \div 2 + 1, n)
      BY <1>1, <2>2 DEF Batches
    <2>4. Again(batch) = <<b, c>>
      BY <1>2 DEF Again
    <2> HIDE DEF b, c, s, n
    <2>5. Again(batch) \in Seq(Batches) /\ DOMAIN Again(batch) = {1, 2} /\ Again(batch)[1] = b /\ Again(batch)[2] = c
      BY <2>3, <2>4
    <2>6. InBatches(Again(batch)) = ToSet(b.changes) \cup ToSet(c.changes)
      BY <2>5 DEF InBatches
    <2> QED
      BY <2>2, <2>3, <2>5, <2>6 DEF s
  <1>3. CASE ~ (n > 1) /\ batch.tries < RetryAttempts
    <2> DEFINE b == [batch EXCEPT !.tries = @ + 1]
    <2>1. b \in Batches /\ b.changes = s
      BY <1>1 DEF Batches
    <2>2. Again(batch) = <<b>>
      BY <1>3 DEF Again
    <2> HIDE DEF b
    <2> QED
      BY <2>1, <2>2 DEF InBatches
  <1>4. CASE ~ (n > 1) /\ ~ (batch.tries < RetryAttempts)
    BY <1>4 DEF Again
  <1> QED
    BY <1>2, <1>3, <1>4

LEMMA FailKeeps == ASSUME ArchiveInv, SendFails PROVE ArchiveInv'
  <1>0. /\ work \in Seq(Batches) /\ work # <<>> /\ buffer \in Seq(RowsSeen)
        /\ MovesOn /\ UNCHANGED <<stream, archive, logged>>
    BY DEF ArchiveInv, PathTypes, SendFails, MovesOn
  <1> DEFINE rows == Flattened(Head(work))
             again == Again(Head(work))
  <1>1. /\ rows # <<>> /\ buffer' \in {buffer, buffer \o rows} /\ work' = again \o Tail(work)
        /\ spent' = IF again = <<>> THEN spent \cup ToSet(rows) ELSE spent
    BY DEF SendFails
  <1>2. /\ Head(work) \in Batches /\ Tail(work) \in Seq(Batches)
        /\ InBatches(work) = ToSet(Head(work).changes) \cup InBatches(Tail(work))
    BY <1>0, InBatchesIs
  <1>3. rows \in Seq(RowsSeen) /\ ToSet(rows) = FlowsOf(ToSet(Head(work).changes))
    BY <1>2, FlattenedIs
  <1>4. again \in Seq(Batches) /\ (again # <<>> => InBatches(again) = ToSet(Head(work).changes))
    BY <1>1, <1>2, AgainIs
  <1> HIDE DEF rows, again
  <1>5. work' \in Seq(Batches) /\ InBatches(work') = InBatches(again) \cup InBatches(Tail(work))
    BY <1>1, <1>2, <1>4, InBatchesIs
  <1>6. buffer' \in Seq(RowsSeen) /\ ToSet(buffer) \subseteq ToSet(buffer') /\ ToSet(buffer') \subseteq ToSet(buffer) \cup ToSet(rows)
    <2>1. buffer \o rows \in Seq(RowsSeen) /\ ToSet(buffer \o rows) = ToSet(buffer) \cup ToSet(rows)
      BY <1>0, <1>3, ToSetConcat
    <2> QED
      BY <1>0, <1>1, <2>1
  <1>7. OnTheWay' \subseteq OnTheWay /\ OnTheWay \subseteq OnTheWay' \cup spent'
    <2>1. OnTheWay' = FlowsOf(ToSet(stream')) \cup FlowsOf(InBatches(work')) \cup ToSet(buffer')
      BY OnTheWayIs
    <2>2. FlowsOf(InBatches(work)) = ToSet(rows) \cup FlowsOf(InBatches(Tail(work)))
      BY <1>2, <1>3, FlowsOfBoth
    <2>3. OnTheWay = FlowsOf(ToSet(stream)) \cup FlowsOf(InBatches(work)) \cup ToSet(buffer)
      BY OnTheWayIs
    <2>4. FlowsOf(InBatches(work')) = FlowsOf(InBatches(again)) \cup FlowsOf(InBatches(Tail(work)))
      BY <1>5, FlowsOfBoth
    <2>5. CASE again = <<>>
      <3>1. FlowsOf(InBatches(again)) = {}
        BY <2>5, InBatchesIs DEF FlowsOf
      <3> QED
        BY <1>0, <1>1, <1>6, <2>1, <2>2, <2>3, <2>4, <2>5, <3>1
    <2>6. CASE again # <<>>
      <3>1. FlowsOf(InBatches(again)) = ToSet(rows)
        BY <1>3, <1>4, <2>6
      <3> QED
        BY <1>0, <1>6, <2>1, <2>2, <2>3, <2>4, <3>1
    <2> QED
      BY <2>5, <2>6
  <1>8. Archived' = Archived /\ logged' = logged /\ spent \subseteq spent'
    BY <1>0, <1>1 DEF Archived
  <1>9. stream' \in Seq(ChangesOf) /\ archive' \in Seq(Entries)
    BY <1>0 DEF ArchiveInv, PathTypes
  <1>10. /\ OnTheWay' \cup Archived' \subseteq OnTheWay \cup Archived
         /\ OnTheWay \cup Archived \cup logged \cup spent \subseteq OnTheWay' \cup Archived' \cup logged' \cup spent'
    BY <1>7, <1>8
  <1> QED
    BY <1>0, <1>5, <1>6, <1>9, <1>10, MovingKeeps

\* What is delivered moves from the buffer to the archive.
LEMMA DeliverKeeps == ASSUME ArchiveInv, Deliver PROVE ArchiveInv'
  <1> DEFINE arriving == [i \in DOMAIN buffer |-> [dt |-> Day(buffer[i].bucket), row |-> buffer[i]]]
  <1>0. /\ buffer \in Seq(RowsSeen) /\ archive \in Seq(Entries)
        /\ archive' = archive \o arriving /\ buffer' = <<>>
        /\ MovesOn /\ UNCHANGED <<stream, work, logged, spent>>
    BY DEF ArchiveInv, PathTypes, Deliver, MovesOn
  <1>1. DOMAIN buffer = 1 .. Len(buffer) /\ Len(buffer) \in Nat /\ \A i \in DOMAIN buffer : buffer[i] \in RowsSeen
    BY <1>0, LenProperties, ElementOfSeq
  <1>2. arriving \in Seq(Entries)
    <2>1. \A i \in DOMAIN buffer : arriving[i] \in Entries
      BY <1>1 DEF Entries
    <2> QED
      BY <1>1, <2>1
  <1>3. {e.row : e \in ToSet(arriving)} = ToSet(buffer)
    <2>1. DOMAIN arriving = DOMAIN buffer /\ \A i \in DOMAIN buffer : arriving[i].row = buffer[i]
      OBVIOUS
    <2> HIDE DEF arriving
    <2> QED
      BY <2>1 DEF ToSet
  <1> HIDE DEF arriving
  <1>4. archive' \in Seq(Entries) /\ ToSet(archive') = ToSet(archive) \cup ToSet(arriving)
    BY <1>0, <1>2, ToSetConcat
  <1>5. Archived' = Archived \cup ToSet(buffer)
    <2>1. Archived' = {e.row : e \in ToSet(archive')}
      BY ArchivedIs
    <2> QED
      BY <1>3, <1>4, <2>1, ArchivedIs
  <1>6. OnTheWay = OnTheWay' \cup ToSet(buffer)
    <2>1. OnTheWay' = FlowsOf(ToSet(stream')) \cup FlowsOf(InBatches(work')) \cup ToSet(buffer')
      BY OnTheWayIs
    <2>2. ToSet(buffer') = {}
      BY <1>0 DEF ToSet
    <2> QED
      BY <1>0, <2>1, <2>2, OnTheWayIs
  <1>7. stream' \in Seq(ChangesOf) /\ work' \in Seq(Batches) /\ buffer' \in Seq(RowsSeen)
    BY <1>0 DEF ArchiveInv, PathTypes
  <1>8. /\ OnTheWay' \cup Archived' \subseteq OnTheWay \cup Archived
        /\ OnTheWay \cup Archived \cup logged \cup spent \subseteq OnTheWay' \cup Archived' \cup logged' \cup spent'
    BY <1>0, <1>5, <1>6
  <1> QED
    BY <1>0, <1>4, <1>7, <1>8, MovingKeeps

LEMMA NextArchive == ArchiveInv /\ [ArchiveStep]_archiveVars => ArchiveInv'
  <1> SUFFICES ASSUME ArchiveInv, [ArchiveStep]_archiveVars PROVE ArchiveInv'
    OBVIOUS
  <1>1. CASE UNCHANGED archiveVars
    BY <1>1 DEF archiveVars, ArchiveInv, PathTypes, ObservationsKept, OnTheWay, Changes, Archived
  <1>2. CASE ArchiveStep
    BY <1>2, WriteKeeps, OtherKeeps, TakeKeeps, SendKeeps, FailKeeps, DeliverKeeps DEF ArchiveStep
  <1> QED
    BY <1>1, <1>2

(***************************************************************************)
(* No observation vanishes without a trace, whatever the cycles come back  *)
(* with, however batches are cut, refused, split and tried again.          *)
(***************************************************************************)
THEOREM NoObservationVanishes == ArchiveSpec => []NothingVanishes
  <1>1. ArchiveInv => NothingVanishes
    <2> SUFFICES ASSUME ArchiveInv PROVE NothingVanishes
      OBVIOUS
    <2>1. ASSUME NEW r \in put, NEW s \in put, r.hash = s.hash
          PROVE  EndpointKey(r.a) = EndpointKey(s.a)
      BY <2>1, ViewsAreOneRow DEF ArchiveInv, PathTypes
    <2>2. ASSUME NEW i \in DOMAIN archive PROVE archive[i].dt = Day(archive[i].row.bucket)
      <3>1. archive[i] \in Entries
        BY LenProperties, ElementOfSeq DEF ArchiveInv, PathTypes
      <3> QED
        BY <3>1 DEF Entries
    <2> QED
      BY <2>1, <2>2, RowsConvert, SnapshotsAreTrue DEF ArchiveInv, ObservationsKept, NothingVanishes
  <1> QED
    BY <1>1, InitArchive, NextArchive, PTL DEF ArchiveSpec

-----------------------------------------------------------------------------
(* The history page: what a query finds in the archive.                    *)

IsRow(r) == r.bucket \in Nat /\ r.value \in Nat /\ r.a.pod \in Nat

LEMMA RowsAre == \A r \in RowsSeen : IsRow(r)
  <1> SUFFICES ASSUME NEW observed \in Cycles, NEW o \in observed PROVE IsRow(NormalizeRow(o))
    BY DEF RowsSeen
  <1>1. {o.local.pod, o.remote.pod, o.bucket, o.value} \subseteq Nat
    BY ObservationAssumption
  <1>2. Ends(o)[1] \in {o.local, o.remote}
    BY DEF Ends
  <1> QED
    BY <1>1, <1>2 DEF NormalizeRow, IsRow

LEMMA EntriesAre ==
    \A e \in Entries : e.row \in RowsSeen /\ e.dt = Day(e.row.bucket) /\ e = [dt |-> e.dt, row |-> e.row]
  BY DEF Entries

\* A result answers a request over a stretch of the archive: its rows are of as many
\* entries that match, newest first, and any other that matches and was there at the
\* click is behind a full result.
IsAnswer(arch, rows, m, o) ==
    /\ \A i \in DOMAIN rows : m[i] \in DOMAIN arch /\ rows[i] = arch[m[i]].row /\ Matches(arch[m[i]], o)
    /\ \A i, j \in DOMAIN rows : m[i] = m[j] => i = j
    /\ \A k \in 1 .. o.upto : Matches(arch[k], o) /\ (\A i \in DOMAIN rows : m[i] # k)
         => Len(rows) = Limit /\ \A j \in DOMAIN rows : rows[j].bucket >= arch[k].row.bucket

Answers(arch, rows, o) ==
    /\ rows \in Seq(RowsSeen) /\ o.upto \in 0 .. Len(arch)
    /\ \A i, j \in DOMAIN rows : i < j => rows[i].bucket >= rows[j].bucket
    /\ \E m : IsAnswer(arch, rows, m, o)

\* An answer stays one while the archive grows.
LEMMA AnswersStand ==
    ASSUME NEW arch \in Seq(Entries), NEW more \in Seq(Entries), NEW rows, NEW o, Answers(arch, rows, o)
    PROVE  Answers(arch \o more, rows, o)
  <1> DEFINE grown == arch \o more
  <1>1. /\ DOMAIN arch = 1 .. Len(arch) /\ DOMAIN grown = 1 .. Len(grown)
        /\ Len(arch) \in Nat /\ Len(grown) \in Nat /\ Len(arch) <= Len(grown)
        /\ \A i \in 1 .. Len(arch) : grown[i] = arch[i]
    <2>1. /\ Len(arch) \in Nat /\ Len(more) \in Nat /\ DOMAIN arch = 1 .. Len(arch)
          /\ grown \in Seq(Entries) /\ Len(grown) = Len(arch) + Len(more)
          /\ \A i \in 1 .. Len(arch) + Len(more) : grown[i] = IF i <= Len(arch) THEN arch[i] ELSE more[i - Len(arch)]
      BY LenProperties, ConcatProperties
    <2>2. DOMAIN grown = 1 .. Len(grown)
      BY <2>1, LenProperties
    <2> HIDE DEF grown
    <2> QED
      BY <2>1, <2>2
  <1> HIDE DEF grown
  <1>2. PICK m : IsAnswer(arch, rows, m, o)
    BY DEF Answers
  <1>3. o.upto \in 0 .. Len(arch)
    BY DEF Answers
  <1>4. IsAnswer(grown, rows, m, o)
    BY <1>1, <1>2, <1>3 DEF IsAnswer
  <1>5. o.upto \in 0 .. Len(grown)
    BY <1>1, <1>3
  <1> QED
    BY <1>4, <1>5 DEF Answers, grown

\* The sort by recency.
LEMMA NewestAre ==
    ASSUME NEW s \in Seq(Entries)
    PROVE  \E p : /\ StableSort(s, Newer) = [i \in DOMAIN s |-> s[p[i]]]
                  /\ Permutes(p, DOMAIN s)
                  /\ \A m, l \in DOMAIN s : l < m => s[p[l]].row.bucket >= s[p[m]].row.bucket
  <1> DEFINE n == Len(s)
             S == 1 .. n
             W == {q \in S \X S : s[q[1]].row.bucket > s[q[2]].row.bucket}
             p == SortedIndices(s, Newer)
             X(i) == {j \in S : Newer(s[j], s[i]) \/ (~Newer(s[i], s[j]) /\ j <= i)}
  <1>1. DOMAIN s = S /\ n \in Nat /\ \A i \in S : s[i].row.bucket \in Nat
    BY LenProperties, ElementOfSeq, EntriesAre, RowsAre DEF IsRow
  <1>2. StableSort(s, Newer) = [i \in DOMAIN s |-> s[p[i]]]
    BY DEF StableSort
  <1>3. \A m \in S : p[m] = CHOOSE i \in S : Cardinality(X(i)) = m
    BY <1>1 DEF SortedIndices
  <1>4. \A i, j \in S : <<i, j>> \in W <=> s[i].row.bucket > s[j].row.bucket
    OBVIOUS
  <1>5. \A i \in S : X(i) = {j \in S : <<j, i>> \in Stable(W, n)}
    BY <1>4 DEF Stable, Newer
  <1>6. IsComparison(W, S)
    <2> DEFINE b(i) == s[i].row.bucket
    <2>1. /\ \A i \in S : b(i) \in Nat
          /\ \A i, j \in S : <<i, j>> \in W <=> b(i) > b(j)
      BY <1>1, <1>4
    <2> HIDE DEF W, S, b
    <2>2. \A i, j \in S : <<i, j>> \in W => <<j, i>> \notin W
      BY <2>1
    <2>3. ASSUME NEW i \in S, NEW j \in S, NEW k \in S, <<i, k>> \in W
          PROVE  <<i, j>> \in W \/ <<j, k>> \in W
      <3>1. b(i) \in Nat /\ b(j) \in Nat /\ b(k) \in Nat /\ b(i) > b(k)
        BY <2>1, <2>3
      <3>2. b(i) > b(j) \/ b(j) > b(k)
        BY <3>1
      <3> QED
        BY <2>1, <3>2
    <2> QED
      BY <2>2, <2>3 DEF IsComparison
  <1>7. ASSUME NEW m \in S, \E i \in S : PlaceIn(S, Stable(W, n), i) = m
        PROVE  p[m] \in S /\ PlaceIn(S, Stable(W, n), p[m]) = m
    <2>1. \A i \in S : PlaceIn(S, Stable(W, n), i) = Cardinality(X(i))
      BY <1>5 DEF PlaceIn
    <2> HIDE DEF X, p, W, S
    <2> QED
      BY <1>3, <1>7, <2>1
  <1> HIDE DEF p, W, X
  <1>8. /\ Permutes(p, S)
        /\ \A m, l \in S : l < m => <<p[m], p[l]>> \notin W
    <2> HIDE DEF n
    <2> QED
      BY <1>1, <1>6, <1>7, SortedAre
  <1>9. \A m, l \in S : l < m => s[p[l]].row.bucket >= s[p[m]].row.bucket
    <2> SUFFICES ASSUME NEW m \in S, NEW l \in S, l < m PROVE s[p[l]].row.bucket >= s[p[m]].row.bucket
      OBVIOUS
    <2>1. p[m] \in S /\ p[l] \in S /\ <<p[m], p[l]>> \notin W
      BY <1>8 DEF Permutes
    <2> HIDE DEF S
    <2>2. s[p[m]].row.bucket \in Nat /\ s[p[l]].row.bucket \in Nat /\ ~(s[p[m]].row.bucket > s[p[l]].row.bucket)
      BY <1>1, <1>4, <2>1
    <2> QED
      BY <2>2
  <1> QED
    BY <1>1, <1>2, <1>8, <1>9

\* The entries that match, in their order in the archive.
LEMMA ChosenAre ==
    ASSUME NEW s \in Seq(Entries), NEW chosen \in SUBSET DOMAIN s
    PROVE  \E of : /\ Subsequence(s, chosen) \in Seq(Entries)
                   /\ \A n \in DOMAIN Subsequence(s, chosen) :
                         of[n] \in chosen /\ Subsequence(s, chosen)[n] = s[of[n]]
                   /\ \A n, k \in DOMAIN Subsequence(s, chosen) : of[n] = of[k] => n = k
                   /\ \A j \in chosen : \E n \in DOMAIN Subsequence(s, chosen) : of[n] = j
  <1> DEFINE N == 1 .. Cardinality(chosen)
             pick(n) == CHOOSE j \in chosen : Rank(chosen, j) = n
             of == [n \in N |-> pick(n)]
  <1>1. DOMAIN s = 1 .. Len(s) /\ Len(s) \in Nat /\ \A i \in DOMAIN s : s[i] \in Entries
    BY LenProperties, ElementOfSeq
  <1>2. chosen \in SUBSET Nat /\ IsFiniteSet(chosen) /\ Cardinality(chosen) \in Nat
    <2>1. IsFiniteSet(1 .. Len(s)) /\ chosen \in SUBSET (1 .. Len(s)) /\ 1 .. Len(s) \subseteq Nat
      BY <1>1, FS_Interval
    <2>2. IsFiniteSet(chosen)
      BY <2>1, FS_Subset
    <2> QED
      BY <2>1, <2>2, FS_CardinalityType
  <1>3. \A n \in N : pick(n) \in chosen /\ Rank(chosen, pick(n)) = n
    BY <1>2, RanksNumber
  <1>4. \A j \in chosen : Rank(chosen, j) \in N /\ pick(Rank(chosen, j)) = j
    BY <1>2, <1>3, RanksNumber
  <1>5. Subsequence(s, chosen) = [n \in N |-> s[pick(n)]]
    BY DEF Subsequence, Rank
  <1> HIDE DEF pick
  <1>6. \A n \in N : of[n] = pick(n) /\ s[pick(n)] \in Entries
    BY <1>1, <1>3
  <1>7. Subsequence(s, chosen) \in Seq(Entries)
    BY <1>2, <1>5, <1>6
  <1>8. DOMAIN Subsequence(s, chosen) = N
    BY <1>5
  <1>9. \A n, k \in N : of[n] = of[k] => n = k
    BY <1>3, <1>6
  <1>10. \A j \in chosen : \E n \in N : of[n] = j
    BY <1>4, <1>6
  <1>11. \A n \in N : of[n] \in chosen /\ Subsequence(s, chosen)[n] = s[of[n]]
    BY <1>3, <1>5, <1>6
  <1> HIDE DEF of
  <1> QED
    BY <1>7, <1>8, <1>9, <1>10, <1>11

LEMMA FoundAnswers ==
    ASSUME Limit \in Nat, archive \in Seq(Entries), NEW o, o.upto \in 0 .. Len(archive)
    PROVE  Answers(archive, Found(o), o)
  <1> DEFINE chosen == {i \in DOMAIN archive : Matches(archive[i], o)}
             s == Subsequence(archive, chosen)
             newest == StableSort(s, Newer)
             rows == [i \in {j \in DOMAIN newest : j <= Limit} |-> newest[i].row]
  <1>1. Found(o) = rows
    BY DEF Found
  <1>2. DOMAIN archive = 1 .. Len(archive) /\ Len(archive) \in Nat
    BY LenProperties
  <1>3. PICK of : /\ s \in Seq(Entries)
                  /\ \A n \in DOMAIN s : of[n] \in chosen /\ s[n] = archive[of[n]]
                  /\ \A n, k \in DOMAIN s : of[n] = of[k] => n = k
                  /\ \A j \in chosen : \E n \in DOMAIN s : of[n] = j
    <2>1. chosen \in SUBSET DOMAIN archive
      OBVIOUS
    <2> HIDE DEF chosen
    <2> QED
      BY <2>1, ChosenAre
  <1> HIDE DEF s
  <1>4. PICK p : /\ newest = [i \in DOMAIN s |-> s[p[i]]]
                 /\ \A m \in DOMAIN s : p[m] \in DOMAIN s
                 /\ \A m, l \in DOMAIN s : p[m] = p[l] => m = l
                 /\ \A i \in DOMAIN s : \E m \in DOMAIN s : p[m] = i
                 /\ \A m, l \in DOMAIN s : l < m => s[p[l]].row.bucket >= s[p[m]].row.bucket
    <2>1. PICK p : /\ newest = [i \in DOMAIN s |-> s[p[i]]]
                   /\ Permutes(p, DOMAIN s)
                   /\ \A m, l \in DOMAIN s : l < m => s[p[l]].row.bucket >= s[p[m]].row.bucket
      BY <1>3, NewestAre
    <2> QED
      BY <2>1 DEF Permutes
  <1> DEFINE n == Len(s)
             M == IF n <= Limit THEN n ELSE Limit
             m == [i \in 1 .. M |-> of[p[i]]]
  <1>5. /\ DOMAIN s = 1 .. n /\ n \in Nat /\ M \in Nat /\ M <= n /\ M <= Limit
        /\ \A i \in 1 .. n : s[i].row \in RowsSeen /\ s[i].row.bucket \in Nat
    BY <1>3, LenProperties, ElementOfSeq, EntriesAre, RowsAre DEF IsRow
  <1>6. {j \in DOMAIN newest : j <= Limit} = 1 .. M
    BY <1>4, <1>5
  <1> HIDE DEF newest, chosen
  <1>7. /\ rows = [i \in 1 .. M |-> newest[i].row] /\ DOMAIN rows = 1 .. M
        /\ \A i \in 1 .. M : rows[i] = s[p[i]].row /\ i \in 1 .. n
    BY <1>4, <1>5, <1>6
  <1> HIDE DEF rows
  <1>8. rows \in Seq(RowsSeen) /\ Len(rows) = M
    <2>1. \A i \in 1 .. M : newest[i].row \in RowsSeen
      BY <1>4, <1>5, <1>7
    <2> HIDE DEF M
    <2> QED
      BY <1>5, <1>7, <2>1
  <1>9. \A i, j \in DOMAIN rows : i < j => rows[i].bucket >= rows[j].bucket
    BY <1>4, <1>5, <1>7
  <1>10. /\ \A i \in DOMAIN rows : m[i] = of[p[i]] /\ p[i] \in DOMAIN s /\ i \in DOMAIN s
    BY <1>4, <1>5, <1>7
  <1> HIDE DEF m, M, n
  <1>11. \A i \in DOMAIN rows : m[i] \in DOMAIN archive /\ rows[i] = archive[m[i]].row /\ Matches(archive[m[i]], o)
    BY <1>3, <1>7, <1>10 DEF chosen
  <1>12. ASSUME NEW i \in DOMAIN rows, NEW j \in DOMAIN rows, m[i] = m[j] PROVE i = j
    <2>1. i \in DOMAIN s /\ j \in DOMAIN s /\ p[i] \in DOMAIN s /\ p[j] \in DOMAIN s /\ of[p[i]] = of[p[j]]
      BY <1>10, <1>12
    <2>2. p[i] = p[j]
      BY <1>3, <2>1
    <2> QED
      BY <1>4, <2>1, <2>2
  <1>13. ASSUME NEW k \in 1 .. o.upto, Matches(archive[k], o), \A i \in DOMAIN rows : m[i] # k
         PROVE  Len(rows) = Limit /\ \A j \in DOMAIN rows : rows[j].bucket >= archive[k].row.bucket
    <2>1. k \in chosen
      BY <1>2, <1>13 DEF chosen
    <2>2. PICK x \in DOMAIN s : of[p[x]] = k
      <3>1. PICK y \in DOMAIN s : of[y] = k
        BY <1>3, <2>1
      <3> QED
        BY <1>4, <3>1
    <2>3. x \notin 1 .. M
      BY <1>7, <1>10, <1>13, <2>2
    <2>4. M = Limit /\ \A j \in 1 .. M : j < x
      BY <1>5, <2>2, <2>3 DEF M
    <2>5. archive[k] = s[p[x]]
      BY <1>3, <1>4, <2>2
    <2>6. \A j \in DOMAIN rows : s[p[j]].row.bucket >= s[p[x]].row.bucket
      <3> SUFFICES ASSUME NEW j \in DOMAIN rows PROVE s[p[j]].row.bucket >= s[p[x]].row.bucket
        OBVIOUS
      <3>1. j \in DOMAIN s /\ j < x
        BY <1>7, <1>10, <2>4
      <3> QED
        BY <1>4, <2>2, <3>1
    <2> QED
      BY <1>7, <1>8, <2>4, <2>5, <2>6
  <1>14. IsAnswer(archive, rows, m, o)
    BY <1>11, <1>12, <1>13 DEF IsAnswer
  <1> QED
    BY <1>1, <1>8, <1>9, <1>14 DEF Answers

-----------------------------------------------------------------------------
(* The history page: how often a row is in a result, and its sorting.      *)

LEMMA NotMore ==
    ASSUME NEW B, IsFiniteSet(B), NEW A, NEW m, \A i \in A : m[i] \in B,
           \A i, j \in A : m[i] = m[j] => i = j
    PROVE  IsFiniteSet(A) /\ Cardinality(A) <= Cardinality(B)
  <1> DEFINE f == [i \in A |-> m[i]]
  <1>1. f \in Injection(A, B)
    BY DEF Injection, IsInjective
  <1> QED
    BY <1>1, FS_Injection

TimesIn(r, s) == Cardinality({i \in DOMAIN s : s[i] = r})

LEMMA PlacesAreFinite == ASSUME NEW S, NEW s \in Seq(S) PROVE IsFiniteSet(DOMAIN s)
  BY LenProperties, FS_Interval

LEMMA CopiesAre ==
    ASSUME NEW S, NEW s \in Seq(S), NEW r
    PROVE  IsFiniteSet({i \in DOMAIN s : s[i] = r}) /\ TimesIn(r, s) \in Nat
  <1>1. IsFiniteSet(DOMAIN s)
    BY LenProperties, FS_Interval
  <1>2. IsFiniteSet({i \in DOMAIN s : s[i] = r})
    BY <1>1, FS_Subset
  <1> QED
    BY <1>2, FS_CardinalityType DEF TimesIn

\* A permutation has every member as often.
LEMMA CopiesMoved ==
    ASSUME NEW S, NEW s \in Seq(S), NEW p, NEW t, t = [i \in DOMAIN s |-> s[p[i]]],
           Permutes(p, DOMAIN s), NEW r
    PROVE  TimesIn(r, t) = TimesIn(r, s)
  <1> USE DEF Permutes
  <1> DEFINE A == {i \in DOMAIN t : t[i] = r}
             B == {i \in DOMAIN s : s[i] = r}
             back == [i \in B |-> CHOOSE m \in DOMAIN s : p[m] = i]
  <1>1. IsFiniteSet(B) /\ Cardinality(B) \in Nat
    <2>1. IsFiniteSet(DOMAIN s)
      BY LenProperties, FS_Interval
    <2>2. B \in SUBSET DOMAIN s
      OBVIOUS
    <2> HIDE DEF B
    <2>3. IsFiniteSet(B)
      BY <2>1, <2>2, FS_Subset
    <2> QED
      BY <2>3, FS_CardinalityType
  <1>2. IsFiniteSet(A) /\ Cardinality(A) <= Cardinality(B)
    <2>1. \A i \in A : p[i] \in B
      OBVIOUS
    <2>2. \A i, j \in A : p[i] = p[j] => i = j
      OBVIOUS
    <2> HIDE DEF A, B
    <2> QED
      BY <1>1, <2>1, <2>2, NotMore
  <1>3. Cardinality(B) <= Cardinality(A)
    <2>1. \A i \in B : back[i] \in DOMAIN s /\ p[back[i]] = i
      OBVIOUS
    <2> HIDE DEF back
    <2>2. \A i \in B : back[i] \in A
      BY <2>1
    <2> HIDE DEF A, B
    <2>3. \A i, j \in B : back[i] = back[j] => i = j
      <3> SUFFICES ASSUME NEW i \in B, NEW j \in B, back[i] = back[j] PROVE i = j
        OBVIOUS
      <3>1. p[back[i]] = i /\ p[back[j]] = j
        BY <2>1
      <3> QED
        BY <3>1
    <2> QED
      BY <1>2, <2>2, <2>3, NotMore
  <1>4. Cardinality(A) \in Nat
    BY <1>2, FS_CardinalityType
  <1> QED
    BY <1>1, <1>2, <1>3, <1>4 DEF TimesIn

\* Blanks are last in either direction, and no two cells are before each other.
LEMMA CellsCompare ==
    ASSUME NEW dir
    PROVE  /\ \A x, y \in Nat : Precedes(x, y, dir) => ~Precedes(y, x, dir)
           /\ \A x, y, z \in Nat : Precedes(x, z, dir) => Precedes(x, y, dir) \/ Precedes(y, z, dir)
           /\ \A x, y \in Nat : x = 0 /\ ~Precedes(y, x, dir) => y = 0
  BY DEF Precedes

LEMMA ColumnsAre ==
    ASSUME NEW s \in Seq(RowsSeen), NEW sort
    PROVE  \E p : /\ SortRowsByColumn(s, sort) = [i \in DOMAIN s |-> s[p[i]]]
                  /\ Permutes(p, DOMAIN s)
                  /\ \A m, l \in DOMAIN s : l < m /\ Cell(s[p[l]], sort.key) = 0 => Cell(s[p[m]], sort.key) = 0
  <1> DEFINE n == Len(s)
             S == 1 .. n
             E(r, q) == Precedes(Cell(r, sort.key), Cell(q, sort.key), sort.dir)
             W == {q \in S \X S : E(s[q[1]], s[q[2]])}
             p == SortedIndices(s, LAMBDA r, q : Precedes(Cell(r, sort.key), Cell(q, sort.key), sort.dir))
             X(i) == {j \in S : E(s[j], s[i]) \/ (~E(s[i], s[j]) /\ j <= i)}
  <1>1. DOMAIN s = S /\ n \in Nat /\ \A i \in S : Cell(s[i], sort.key) \in Nat
    BY LenProperties, ElementOfSeq, RowsAre DEF IsRow, Cell
  <1>2. SortRowsByColumn(s, sort) = [i \in DOMAIN s |-> s[p[i]]]
    BY DEF SortRowsByColumn, StableSort
  <1>3. \A m \in S : p[m] = CHOOSE i \in S : Cardinality(X(i)) = m
    BY <1>1 DEF SortedIndices
  <1> HIDE DEF p
  <1>4. \A i, j \in S : <<i, j>> \in W <=> E(s[i], s[j])
    OBVIOUS
  <1>5. \A i \in S : X(i) = {j \in S : <<j, i>> \in Stable(W, n)}
    BY <1>4 DEF Stable
  <1>6. IsComparison(W, S)
    <2>1. /\ \A i, j \in S : E(s[i], s[j]) => ~E(s[j], s[i])
          /\ \A i, j, k \in S : E(s[i], s[k]) => E(s[i], s[j]) \/ E(s[j], s[k])
      BY <1>1, CellsCompare
    <2> HIDE DEF W, S, E
    <2> QED
      BY <1>4, <2>1 DEF IsComparison
  <1>7. ASSUME NEW m \in S, \E i \in S : PlaceIn(S, Stable(W, n), i) = m
        PROVE  p[m] \in S /\ PlaceIn(S, Stable(W, n), p[m]) = m
    <2>1. \A i \in S : PlaceIn(S, Stable(W, n), i) = Cardinality(X(i))
      BY <1>5 DEF PlaceIn
    <2> HIDE DEF X, W, S, E
    <2> QED
      BY <1>3, <1>7, <2>1
  <1> HIDE DEF W, X
  <1>8. /\ Permutes(p, S)
        /\ \A m, l \in S : l < m => <<p[m], p[l]>> \notin W
    <2> HIDE DEF n
    <2> QED
      BY <1>1, <1>6, <1>7, SortedAre
  <1>9. \A m, l \in S : l < m /\ Cell(s[p[l]], sort.key) = 0 => Cell(s[p[m]], sort.key) = 0
    <2> SUFFICES ASSUME NEW m \in S, NEW l \in S, l < m, Cell(s[p[l]], sort.key) = 0
                 PROVE  Cell(s[p[m]], sort.key) = 0
      OBVIOUS
    <2>1. p[m] \in S /\ p[l] \in S /\ ~E(s[p[m]], s[p[l]])
      BY <1>4, <1>8 DEF Permutes
    <2> DEFINE x == Cell(s[p[l]], sort.key)
               y == Cell(s[p[m]], sort.key)
    <2>2. x \in Nat /\ y \in Nat /\ x = 0 /\ ~Precedes(y, x, sort.dir)
      BY <1>1, <2>1
    <2> HIDE DEF S, E, x, y
    <2>3. y = 0
      BY <2>2, CellsCompare
    <2> QED
      BY <2>3 DEF y
  <1> QED
    BY <1>1, <1>2, <1>8, <1>9

-----------------------------------------------------------------------------
(* The history page: the request that is out, and the result.              *)

\* A request knows a stretch of the archive; what the query found answers it, and
\* the pages read so far are the head of that.
RequestOK ==
    request # Null =>
        /\ page.loading /\ page.error = Null
        /\ request.upto \in 0 .. Len(archive)
        /\ request.at \in {"route", "poll", "read"}
        /\ request = [from |-> request.from, to |-> request.to, monitor |-> request.monitor,
                      upto |-> request.upto, at |-> request.at, late |-> request.late,
                      read |-> request.read, rows |-> request.rows]
        /\ request.at \in {"route", "poll"} => request.read = 0 /\ request.rows = <<>>
        /\ request.at \in {"poll", "read"} =>
             /\ execution = [state |-> execution.state, rows |-> execution.rows]
             /\ execution.state = "SUCCEEDED" => Answers(archive, execution.rows, request)
        /\ request.at = "read" =>
             /\ execution.state = "SUCCEEDED"
             /\ request.read \in 0 .. Len(execution.rows)
             /\ request.rows = SubSeq(execution.rows, 1, request.read - 1)

PageFields ==
    page = [from |-> page.from, to |-> page.to, monitor |-> page.monitor, loading |-> page.loading,
            error |-> page.error, result |-> page.result, range |-> page.range, sort |-> page.sort,
            asked |-> page.asked, runs |-> page.runs, edits |-> page.edits]

\* A result is shown without an error, under the range of the request that it answers.
ResultOK ==
    page.result # Null =>
        /\ page.error = Null
        /\ page.range = [from |-> page.asked.from, to |-> page.asked.to]
        /\ Answers(archive, page.result, page.asked)

HistoryInv == PageFields /\ RequestOK /\ ResultOK

\* An answer to a request is one to whatever has its range, filter and stretch.
LEMMA SameAnswer ==
    ASSUME NEW arch, NEW rows, NEW o, Answers(arch, rows, o), NEW q,
           q.from = o.from, q.to = o.to, q.monitor = o.monitor, q.upto = o.upto
    PROVE  Answers(arch, rows, q)
  <1>1. \A e : Matches(e, q) <=> Matches(e, o)
    BY DEF Matches
  <1>2. PICK m : IsAnswer(arch, rows, m, o)
    BY DEF Answers
  <1>3. IsAnswer(arch, rows, m, q)
    BY <1>1, <1>2 DEF IsAnswer
  <1> QED
    BY <1>3 DEF Answers

LEMMA InitHistory == HistoryInit => HistoryInv
  BY DEF HistoryInit, HistoryInv, PageFields, RequestOK, ResultOK

\* The archive only grows.
LEMMA ArchiveGrows ==
    ASSUME archive \in Seq(Entries), buffer \in Seq(RowsSeen), [ArchiveStep]_archiveVars
    PROVE  \E more \in Seq(Entries) : archive' = archive \o more
  <1>1. CASE UNCHANGED archive
    <2>1. <<>> \in Seq(Entries) /\ archive' = archive \o <<>>
      BY <1>1, ConcatEmptySeq
    <2> QED
      BY <2>1
  <1>2. CASE Deliver
    <2> DEFINE more == [i \in DOMAIN buffer |-> [dt |-> Day(buffer[i].bucket), row |-> buffer[i]]]
    <2>1. DOMAIN buffer = 1 .. Len(buffer) /\ Len(buffer) \in Nat /\ \A i \in DOMAIN buffer : buffer[i] \in RowsSeen
      BY <1>2, LenProperties, ElementOfSeq
    <2>2. \A i \in DOMAIN buffer : more[i] \in Entries
      BY <2>1 DEF Entries
    <2>3. more \in Seq(Entries)
      BY <2>1, <2>2
    <2>4. archive' = archive \o more
      BY <1>2 DEF Deliver
    <2> QED
      BY <2>3, <2>4
  <1> QED
    BY <1>1, <1>2 DEF ArchiveStep, archiveVars, WriteCycle, OtherChange, TakeBatch, Send, SendFails

\* A step of the archive disturbs no answer.
LEMMA ArchiveStepKeeps ==
    ASSUME archive \in Seq(Entries), buffer \in Seq(RowsSeen), HistoryInv, [ArchiveStep]_archiveVars,
           UNCHANGED pageVars
    PROVE  HistoryInv'
  <1>1. PICK more \in Seq(Entries) : archive' = archive \o more
    BY ArchiveGrows
  <1>2. \A rows, o : Answers(archive, rows, o) => Answers(archive', rows, o)
    BY <1>1, AnswersStand
  <1>3. page' = page /\ request' = request /\ execution' = execution
    BY DEF pageVars
  <1>4. Len(archive) \in Nat /\ Len(archive') \in Nat /\ Len(archive) <= Len(archive')
    <2>1. Len(archive) \in Nat /\ Len(more) \in Nat /\ Len(archive') = Len(archive) + Len(more)
      BY <1>1, LenProperties, ConcatProperties
    <2> QED
      BY <2>1
  <1>5. RequestOK'
    <2>1. ASSUME NEW x \in 0 .. Len(archive) PROVE x \in 0 .. Len(archive')
      BY <1>4
    <2> QED
      BY <1>2, <1>3, <2>1 DEF HistoryInv, RequestOK
  <1>6. ResultOK'
    BY <1>2, <1>3 DEF HistoryInv, ResultOK
  <1>7. PageFields'
    BY <1>3 DEF HistoryInv, PageFields
  <1> QED
    BY <1>5, <1>6, <1>7 DEF HistoryInv

\* What leaves the requests and the results alone.
LEMMA ControlsKeep ==
    ASSUME HistoryInv, UNCHANGED <<request, execution, archive>>, PageFields',
           page'.loading = page.loading, page'.error = page.error, page'.result = page.result,
           page'.range = page.range, page'.asked = page.asked
    PROVE  HistoryInv'
  BY DEF HistoryInv, RequestOK, ResultOK

\* A query that ends without a result.
LEMMA EndKeeps ==
    ASSUME HistoryInv, PageFields', request' = Null, page'.result = Null
    PROVE  HistoryInv'
  BY DEF HistoryInv, RequestOK, ResultOK

LEMMA MountKeeps == ASSUME HistoryInv, Mount \/ Edit \/ Sort, UNCHANGED archive PROVE HistoryInv'
  <1> USE DEF HistoryInv, PageFields
  <1>1. CASE Mount
    <2>1. UNCHANGED <<request, execution>> /\ page' = [page EXCEPT !.from = Today - Week, !.to = Today]
      BY <1>1 DEF Mount
    <2> QED
      BY <2>1, ControlsKeep
  <1>2. CASE Edit
    <2>1. UNCHANGED <<request, execution>>
      BY <1>2 DEF Edit
    <2>2. \E x, e : \/ page' = [page EXCEPT !.edits = e, !.from = x]
                   \/ page' = [page EXCEPT !.edits = e, !.to = x]
                   \/ page' = [page EXCEPT !.edits = e, !.monitor = x]
      BY <1>2 DEF Edit
    <2>3. PICK x, e : \/ page' = [page EXCEPT !.edits = e, !.from = x]
                      \/ page' = [page EXCEPT !.edits = e, !.to = x]
                      \/ page' = [page EXCEPT !.edits = e, !.monitor = x]
      BY <2>2
    <2> QED
      BY <2>1, <2>3, ControlsKeep
  <1>3. CASE Sort
    <2>1. UNCHANGED <<request, execution>>
      BY <1>3 DEF Sort
    <2>2. PICK x : page' = [page EXCEPT !.sort = x]
      BY <1>3 DEF Sort
    <2> QED
      BY <2>1, <2>2, ControlsKeep
  <1> QED
    BY <1>1, <1>2, <1>3

LEMMA RunKeeps == ASSUME HistoryInv, archive \in Seq(Entries), RunQuery, UNCHANGED archive PROVE HistoryInv'
  <1>1. Len(archive) \in Nat
    BY LenProperties
  <1>2. execution' = execution /\ request = Null
    BY DEF RunQuery, HistoryInv, RequestOK
  <1>3. CASE InvalidRange
    <2>1. page' = [Failed(page, "range") EXCEPT !.runs = @ + 1] /\ request' = request
      BY <1>3 DEF RunQuery
    <2>2. PageFields' /\ page'.result = Null
      BY <2>1 DEF HistoryInv, PageFields, Failed
    <2> QED
      BY <1>2, <2>1, <2>2, EndKeeps
  <1>4. CASE ~InvalidRange
    <2>1. /\ page' = [page EXCEPT !.loading = TRUE, !.error = Null, !.runs = @ + 1]
          /\ request' = [from |-> page.from, to |-> page.to, monitor |-> page.monitor,
                         upto |-> Len(archive), at |-> "route", late |-> FALSE, read |-> 0, rows |-> <<>>]
      BY <1>4 DEF RunQuery
    <2>2. PageFields'
      BY <2>1 DEF HistoryInv, PageFields
    <2>3. /\ page'.loading = TRUE /\ page'.error = Null
          /\ page'.result = page.result /\ page'.range = page.range /\ page'.asked = page.asked
      BY <2>1 DEF HistoryInv, PageFields
    <2>4. RequestOK'
      BY <1>1, <2>1, <2>3 DEF RequestOK
    <2>5. ResultOK'
      BY <2>3 DEF HistoryInv, ResultOK
    <2> QED
      BY <2>2, <2>4, <2>5 DEF HistoryInv
  <1> QED
    BY <1>3, <1>4

LEMMA Ends500Keeps == ASSUME HistoryInv, Ends500 PROVE HistoryInv'
  <1>1. page' = [Failed(page, "common") EXCEPT !.loading = FALSE] /\ request' = Null
    BY DEF Ends500
  <1>2. PageFields' /\ page'.result = Null
    BY <1>1 DEF HistoryInv, PageFields, Failed
  <1> QED
    BY <1>1, <1>2, EndKeeps

LEMMA BeginKeeps == ASSUME HistoryInv, BeginQuery, UNCHANGED archive PROVE HistoryInv'
  <1>1. CASE ~ValidFilter(request.monitor)
    <2>1. page' = [Failed(page, "filter") EXCEPT !.loading = FALSE] /\ request' = Null
      BY <1>1 DEF BeginQuery
    <2>2. PageFields' /\ page'.result = Null
      BY <2>1 DEF HistoryInv, PageFields, Failed
    <2> QED
      BY <2>1, <2>2, EndKeeps
  <1>2. CASE /\ request' = [request EXCEPT !.at = "poll"] /\ execution' = [state |-> "QUEUED", rows |-> <<>>]
             /\ UNCHANGED page
    <2>1. /\ request # Null /\ request.at = "route" /\ RequestOK
      BY DEF BeginQuery, HistoryInv
    <2>2. RequestOK'
      BY <1>2, <2>1 DEF RequestOK
    <2>3. ResultOK' /\ PageFields'
      BY <1>2 DEF HistoryInv, ResultOK, PageFields
    <2> QED
      BY <2>2, <2>3 DEF HistoryInv
  <1> QED
    BY <1>1, <1>2, Ends500Keeps DEF BeginQuery

LEMMA LateKeeps == ASSUME HistoryInv, Late, UNCHANGED archive PROVE HistoryInv'
  <1>1. /\ request' = [request EXCEPT !.late = TRUE] /\ UNCHANGED <<page, execution>>
        /\ request # Null /\ request.at = "poll" /\ RequestOK
    BY DEF Late, Polling, HistoryInv
  <1>2. execution.state = "SUCCEEDED" => Answers(archive, execution.rows, request')
    BY <1>1, SameAnswer DEF RequestOK
  <1>3. RequestOK'
    BY <1>1, <1>2 DEF RequestOK
  <1>4. ResultOK' /\ PageFields'
    BY <1>1 DEF HistoryInv, ResultOK, PageFields
  <1> QED
    BY <1>3, <1>4 DEF HistoryInv

LEMMA PollKeeps == ASSUME HistoryInv, Poll, UNCHANGED archive PROVE HistoryInv'
  <1>1. Ends500 \/ (execution.state = "SUCCEEDED" /\ request' = [request EXCEPT !.at = "read"] /\ UNCHANGED <<page, execution>>)
    BY DEF Poll
  <1>2. CASE execution.state = "SUCCEEDED" /\ request' = [request EXCEPT !.at = "read"] /\ UNCHANGED <<page, execution>>
    <2>1. request # Null /\ request.at = "poll" /\ RequestOK
      BY DEF Poll, Polling, HistoryInv
    <2>2. Answers(archive, execution.rows, request')
      BY <1>2, <2>1, SameAnswer DEF RequestOK
    <2>3. request.rows = <<>> /\ request.read = 0
      BY <2>1 DEF RequestOK
    <2>4. 0 \in 0 .. Len(execution.rows) /\ SubSeq(execution.rows, 1, 0 - 1) = <<>>
      <3>1. Len(execution.rows) \in Nat
        BY <1>2, <2>1, LenProperties DEF RequestOK, Answers
      <3> QED
        BY <3>1, SubSeqEmpty
    <2>5. RequestOK'
      BY <1>2, <2>1, <2>2, <2>3, <2>4 DEF RequestOK
    <2>6. ResultOK' /\ PageFields'
      BY <1>2 DEF HistoryInv, ResultOK, PageFields
    <2> QED
      BY <2>5, <2>6 DEF HistoryInv
  <1> QED
    BY <1>1, <1>2, Ends500Keeps

LEMMA AthenaKeeps ==
    ASSUME HistoryInv, Limit \in Nat, archive \in Seq(Entries), AthenaRuns, UNCHANGED archive PROVE HistoryInv'
  <1>1. /\ request # Null /\ request.at = "poll" /\ RequestOK /\ UNCHANGED <<page, request>>
        /\ execution.state # "SUCCEEDED"
    BY DEF AthenaRuns, Polling, HistoryInv
  <1>2. execution = [state |-> execution.state, rows |-> execution.rows]
    BY <1>1 DEF RequestOK
  <1>3. /\ execution' = [state |-> execution'.state, rows |-> execution'.rows]
        /\ execution'.state = "SUCCEEDED" => execution'.rows = Found(request)
    BY <1>2 DEF AthenaRuns
  <1>4. Answers(archive, Found(request), request)
    BY <1>1, FoundAnswers DEF RequestOK
  <1>5. RequestOK'
    BY <1>1, <1>3, <1>4 DEF RequestOK
  <1>6. ResultOK' /\ PageFields'
    BY <1>1 DEF HistoryInv, ResultOK, PageFields
  <1> QED
    BY <1>5, <1>6 DEF HistoryInv

\* Reading on where the last page of the sheet ended, the header apart.
LEMMA PagesFit ==
    ASSUME NEW S, NEW rows \in Seq(S), NEW read \in 0 .. Len(rows), NEW size \in Nat \ {0}
    PROVE  LET sheet == <<"header">> \o rows
               end == IF read + size < Len(sheet) THEN read + size ELSE Len(sheet)
               next == SubSeq(sheet, read + 1, end)
               new == IF read = 0 THEN SubSeq(next, 2, Len(next)) ELSE next
           IN /\ Len(sheet) = Len(rows) + 1 /\ read + Len(next) = end
              /\ SubSeq(rows, 1, read - 1) \o new = SubSeq(rows, 1, end - 1)
              /\ end \in 0 .. Len(rows) + 1
  <1> DEFINE sheet == <<"header">> \o rows
             end == IF read + size < Len(sheet) THEN read + size ELSE Len(sheet)
             next == SubSeq(sheet, read + 1, end)
             new == IF read = 0 THEN SubSeq(next, 2, Len(next)) ELSE next
             head == SubSeq(rows, 1, read - 1)
             A == S \cup {"header"}
  <1>1. /\ Len(rows) \in Nat /\ DOMAIN rows = 1 .. Len(rows) /\ \A i \in 1 .. Len(rows) : rows[i] \in S
    BY LenProperties, ElementOfSeq
  <1>2. /\ sheet \in Seq(A) /\ Len(sheet) = Len(rows) + 1
        /\ \A i \in 1 .. Len(rows) + 1 : sheet[i] = IF i = 1 THEN "header" ELSE rows[i - 1]
    <2>1. <<"header">> \in Seq(A) /\ Len(<<"header">>) = 1 /\ <<"header">>[1] = "header"
      OBVIOUS
    <2>2. rows \in Seq(A)
      BY <1>1
    <2>3. /\ sheet \in Seq(A) /\ Len(sheet) = 1 + Len(rows)
          /\ \A i \in 1 .. 1 + Len(rows) : sheet[i] = IF i <= 1 THEN <<"header">>[i] ELSE rows[i - 1]
      BY <2>1, <2>2, ConcatProperties
    <2> HIDE DEF sheet
    <2> QED
      BY <1>1, <2>1, <2>3
  <1> HIDE DEF sheet
  <1>3. end \in read + 1 .. Len(rows) + 1 /\ read + 1 \in 1 .. end
    BY <1>1, <1>2
  <1>4. \A i \in 1 .. Len(rows) + 1 : sheet[i] \in A
    BY <1>1, <1>2
  <1> HIDE DEF end
  <1>5. /\ next \in Seq(A) /\ Len(next) = end - read
        /\ \A i \in 1 .. end - read : next[i] = sheet[read + i]
    <2>1. \A i \in read + 1 .. end : sheet[i] \in A
      BY <1>1, <1>3, <1>4
    <2>2. read + 1 \in Int /\ end \in Int /\ read + 1 <= end
      BY <1>1, <1>3
    <2>3. /\ next \in Seq(A) /\ Len(next) = end - (read + 1) + 1
          /\ \A i \in 1 .. end - (read + 1) + 1 : next[i] = sheet[(read + 1) + i - 1]
      BY <2>1, <2>2, SubSeqProperties
    <2> HIDE DEF next
    <2> QED
      BY <1>1, <1>3, <2>2, <2>3
  <1> HIDE DEF next
  <1>6. /\ head \in Seq(S) /\ Len(head) = (IF read = 0 THEN 0 ELSE read - 1)
        /\ \A i \in 1 .. read - 1 : head[i] = rows[i]
    <2>1. \A i \in 1 .. read - 1 : rows[i] \in S
      BY <1>1
    <2>2. /\ head \in Seq(S) /\ Len(head) = (IF 1 <= read - 1 THEN read - 1 - 1 + 1 ELSE 0)
          /\ \A i \in 1 .. (read - 1) - 1 + 1 : head[i] = rows[1 + i - 1]
      BY <1>1, <2>1, SubSeqProperties
    <2> HIDE DEF head
    <2> QED
      BY <1>1, <2>2
  <1> DEFINE whole == SubSeq(rows, 1, end - 1)
  <1>7. /\ whole \in Seq(S) /\ Len(whole) = end - 1
        /\ \A i \in 1 .. end - 1 : whole[i] = rows[i]
    <2>1. \A i \in 1 .. end - 1 : rows[i] \in S
      BY <1>1, <1>3
    <2>2. /\ whole \in Seq(S) /\ Len(whole) = (IF 1 <= end - 1 THEN end - 1 - 1 + 1 ELSE 0)
          /\ \A i \in 1 .. (end - 1) - 1 + 1 : whole[i] = rows[1 + i - 1]
      BY <1>1, <1>3, <2>1, SubSeqProperties
    <2> HIDE DEF whole
    <2> QED
      BY <1>1, <1>3, <2>2
  <1> HIDE DEF whole, head
  <1>8. head \o new = whole
    <2>1. CASE read = 0
      <3>1. head = <<>>
        BY <1>6, <2>1
      <3>2. new = SubSeq(next, 2, Len(next))
        BY <2>1
      <3> HIDE DEF new
      <3>3. \A i \in 2 .. Len(next) : next[i] \in S
        BY <1>1, <1>2, <1>3, <1>5, <2>1
      <3>4. /\ new \in Seq(S) /\ Len(new) = IF 2 <= Len(next) THEN Len(next) - 2 + 1 ELSE 0
            /\ \A i \in 1 .. Len(next) - 2 + 1 : new[i] = next[2 + i - 1]
        BY <1>3, <1>5, <2>1, <3>2, <3>3, SubSeqProperties
      <3>5. Len(new) = end - 1
        BY <1>1, <1>3, <1>5, <2>1, <3>4
      <3>6. \A i \in 1 .. end - 1 : new[i] = rows[i]
        BY <1>1, <1>2, <1>3, <1>5, <2>1, <3>4
      <3>7. new = whole
        BY <1>7, <3>4, <3>5, <3>6, SeqEqual
      <3> QED
        BY <3>1, <3>4, <3>7, ConcatEmptySeq
    <2>2. CASE read # 0
      <3>1. new = next
        BY <2>2
      <3> HIDE DEF new
      <3>2. \A i \in 1 .. Len(new) : new[i] = rows[read + i - 1] /\ new[i] \in S
        BY <1>1, <1>2, <1>3, <1>5, <2>2, <3>1
      <3>3. new \in Seq(S) /\ Len(new) = end - read
        BY <1>5, <3>1, <3>2
      <3>4. /\ head \o new \in Seq(S) /\ Len(head \o new) = (read - 1) + (end - read)
            /\ \A i \in 1 .. (read - 1) + (end - read) :
                 (head \o new)[i] = IF i <= read - 1 THEN head[i] ELSE new[i - (read - 1)]
        BY <1>6, <2>2, <3>3, ConcatProperties
      <3>5. \A i \in 1 .. end - 1 : (head \o new)[i] = rows[i]
        <4> SUFFICES ASSUME NEW i \in 1 .. end - 1 PROVE (head \o new)[i] = rows[i]
          OBVIOUS
        <4>1. i \in 1 .. (read - 1) + (end - read)
          BY <1>1, <1>3
        <4>2. CASE i <= read - 1
          BY <1>1, <1>6, <3>4, <4>1, <4>2
        <4>3. CASE ~(i <= read - 1)
          <5>1. i - (read - 1) \in 1 .. Len(new) /\ read + (i - (read - 1)) - 1 = i
            BY <1>1, <1>3, <2>2, <3>3, <4>3
          <5> QED
            BY <3>2, <3>4, <4>1, <4>3, <5>1
        <4> QED
          BY <4>2, <4>3
      <3>6. Len(head \o new) = end - 1
        BY <1>1, <1>3, <3>4
      <3> QED
        BY <1>7, <3>4, <3>5, <3>6, SeqEqual
    <2> QED
      BY <2>1, <2>2
  <1>9. read + Len(next) = end /\ end \in 0 .. Len(rows) + 1
    BY <1>1, <1>3, <1>5
  <1> QED
    BY <1>2, <1>8, <1>9 DEF sheet, end, next, new, head, whole

LEMMA ReadKeeps ==
    ASSUME HistoryInv, PageRows \in Nat \ {0}, ReadPage, UNCHANGED archive PROVE HistoryInv'
  <1> DEFINE rows == execution.rows
             last == IF request.read + PageRows < Len(Sheet) THEN request.read + PageRows ELSE Len(Sheet)
  <1>1. /\ request # Null /\ request.at = "read" /\ execution.state = "SUCCEEDED"
        /\ Answers(archive, rows, request) /\ request.read \in 0 .. Len(rows)
        /\ request.rows = SubSeq(rows, 1, request.read - 1)
        /\ page.loading /\ page.error = Null
    BY DEF ReadPage, Reading, HistoryInv, RequestOK
  <1>2. rows \in Seq(RowsSeen) /\ Len(rows) \in Nat
    BY <1>1, LenProperties DEF Answers
  <1>3. /\ Len(Sheet) = Len(rows) + 1 /\ request.read + Len(NextPage) = last
        /\ request.rows \o NewRows = SubSeq(rows, 1, last - 1) /\ last \in 0 .. Len(rows) + 1
    <2> DEFINE sheet == <<"header">> \o rows
               end == IF request.read + PageRows < Len(sheet) THEN request.read + PageRows ELSE Len(sheet)
               next == SubSeq(sheet, request.read + 1, end)
               new == IF request.read = 0 THEN SubSeq(next, 2, Len(next)) ELSE next
    <2>1. /\ Len(sheet) = Len(rows) + 1 /\ request.read + Len(next) = end
          /\ SubSeq(rows, 1, request.read - 1) \o new = SubSeq(rows, 1, end - 1)
          /\ end \in 0 .. Len(rows) + 1
      <3> HIDE DEF rows
      <3> QED
        BY <1>1, <1>2, PagesFit
    <2>2. Sheet = sheet
      BY DEF Sheet
    <2>3. last = end /\ NextPage = next
      BY <2>2 DEF NextPage
    <2>4. NewRows = new
      BY <2>3 DEF NewRows
    <2> HIDE DEF sheet, end, next, new, last
    <2> QED
      BY <1>1, <2>1, <2>2, <2>3, <2>4
  <1> HIDE DEF last
  <1>4. CASE Ends500
    BY <1>4, Ends500Keeps
  <1>5. CASE /\ last < Len(Sheet) /\ UNCHANGED <<page, execution>>
             /\ request' = [request EXCEPT !.read = last, !.rows = SubSeq(rows, 1, last - 1)]
    <2>1. RequestOK
      BY DEF HistoryInv
    <2>2. /\ request'.from = request.from /\ request'.to = request.to /\ request'.monitor = request.monitor
          /\ request'.upto = request.upto /\ request'.at = "read" /\ request'.late = request.late
          /\ request'.read = last /\ request'.rows = SubSeq(rows, 1, last - 1)
          /\ request' = [from |-> request.from, to |-> request.to, monitor |-> request.monitor,
                         upto |-> request.upto, at |-> request.at, late |-> request.late,
                         read |-> last, rows |-> SubSeq(rows, 1, last - 1)]
      BY <1>1, <1>5, <2>1 DEF RequestOK
    <2>3. Answers(archive, rows, request')
      BY <1>1, <2>2, SameAnswer
    <2>4. last \in 0 .. Len(rows)
      BY <1>2, <1>3, <1>5
    <2>5. RequestOK'
      BY <1>1, <1>5, <2>1, <2>2, <2>3, <2>4 DEF RequestOK
    <2>6. ResultOK' /\ PageFields'
      BY <1>5 DEF HistoryInv, ResultOK, PageFields
    <2> QED
      BY <2>5, <2>6 DEF HistoryInv
  <1>6. CASE ~(last < Len(Sheet)) /\ page' = Shown(SubSeq(rows, 1, last - 1)) /\ request' = Null
    <2>1. SubSeq(rows, 1, last - 1) = rows
      <3>1. last - 1 = Len(rows)
        BY <1>2, <1>3, <1>6
      <3>2. \A i \in 1 .. Len(rows) : rows[i] \in RowsSeen
        BY <1>2, LenProperties, ElementOfSeq
      <3>3. /\ SubSeq(rows, 1, Len(rows)) \in Seq(RowsSeen)
            /\ Len(SubSeq(rows, 1, Len(rows))) = IF 1 <= Len(rows) THEN Len(rows) - 1 + 1 ELSE 0
            /\ \A i \in 1 .. Len(rows) - 1 + 1 : SubSeq(rows, 1, Len(rows))[i] = rows[1 + i - 1]
        BY <1>2, <3>2, SubSeqProperties
      <3> HIDE DEF rows
      <3>4. /\ Len(SubSeq(rows, 1, Len(rows))) = Len(rows)
            /\ \A i \in 1 .. Len(rows) : SubSeq(rows, 1, Len(rows))[i] = rows[i]
        BY <1>2, <3>3
      <3> QED
        BY <1>2, <3>1, <3>3, <3>4, SeqEqual
    <2>2. page' = [page EXCEPT !.result = rows, !.sort = NoSort, !.loading = FALSE, !.asked = request,
                               !.range = [from |-> request.from, to |-> request.to]]
      BY <1>6, <2>1 DEF Shown
    <2>3. /\ PageFields' /\ page'.error = page.error /\ page'.asked = request /\ page'.result = rows
          /\ page'.range = [from |-> request.from, to |-> request.to]
      BY <2>2 DEF HistoryInv, PageFields
    <2>4. ResultOK'
      BY <1>1, <2>3 DEF ResultOK
    <2>5. RequestOK'
      BY <1>6 DEF RequestOK
    <2> QED
      BY <2>3, <2>4, <2>5 DEF HistoryInv
  <1> QED
    BY <1>3, <1>4, <1>5, <1>6 DEF ReadPage

LEMMA StepKeeps ==
    ASSUME HistoryInv, Limit \in Nat, PageRows \in Nat \ {0}, archive \in Seq(Entries),
           HistoryStep, UNCHANGED archiveVars
    PROVE  HistoryInv'
  <1>1. UNCHANGED archive
    BY DEF archiveVars
  <1> QED
    BY <1>1, MountKeeps, RunKeeps, BeginKeeps, LateKeeps, PollKeeps, ReadKeeps, AthenaKeeps, Ends500Keeps
       DEF HistoryStep, ServerStep, ConnectionLost

LEMMA StretchIsSeq ==
    ASSUME NEW S, NEW n \in Nat, NEW s \in [1 .. n -> S] PROVE s \in Seq(S)
  OBVIOUS

\* What an answer says of how often its rows are in the archive, and of what is missing.
LEMMA AnswersCount ==
    ASSUME archive \in Seq(Entries), NEW s, NEW o, Answers(archive, s, o), NEW early, NEW entire,
           entire = [i \in DOMAIN archive |-> archive[i].row], early = [i \in 1 .. o.upto |-> archive[i].row]
    PROVE  /\ \A i \in DOMAIN s : Matches([dt |-> Day(s[i].bucket), row |-> s[i]], o)
           /\ \A i \in DOMAIN s : TimesIn(s[i], s) <= TimesIn(s[i], entire)
           /\ \A i \in DOMAIN early : Matches(archive[i], o) /\ TimesIn(early[i], s) < TimesIn(early[i], early)
                 => Len(s) = Limit /\ \A j \in DOMAIN s : s[j].bucket >= early[i].bucket
  <1>1. PICK m : IsAnswer(archive, s, m, o)
    BY DEF Answers
  <1>2. s \in Seq(RowsSeen) /\ o.upto \in 0 .. Len(archive)
    BY DEF Answers
  <1>3. /\ DOMAIN archive = 1 .. Len(archive) /\ Len(archive) \in Nat
        /\ \A i \in DOMAIN archive : archive[i].row \in RowsSeen
                                     /\ archive[i] = [dt |-> Day(archive[i].row.bucket), row |-> archive[i].row]
    BY LenProperties, ElementOfSeq, EntriesAre
  <1>4. entire \in Seq(RowsSeen) /\ early \in Seq(RowsSeen) /\ DOMAIN early = 1 .. o.upto /\ 1 .. o.upto \subseteq DOMAIN archive
    <2>1. o.upto \in Nat /\ 1 .. o.upto \subseteq DOMAIN archive
      BY <1>2, <1>3
    <2>2. \A i \in DOMAIN archive : archive[i].row \in RowsSeen
      BY <1>3
    <2>3. entire \in Seq(RowsSeen)
      BY <1>3, <2>2
    <2>4. DOMAIN early = 1 .. o.upto /\ \A i \in 1 .. o.upto : early[i] \in RowsSeen
      BY <2>1, <2>2
    <2>5. early \in Seq(RowsSeen)
      <3>1. early \in [1 .. o.upto -> RowsSeen]
        <4>1. \A i \in 1 .. o.upto : archive[i].row \in RowsSeen
          BY <2>1, <2>2
        <4> QED
          BY <4>1
      <3> QED
        BY <2>1, <3>1, StretchIsSeq, Zenon
    <2> QED
      BY <2>1, <2>3, <2>4, <2>5
  <1>5. /\ \A i \in DOMAIN archive : i \in DOMAIN entire /\ entire[i] = archive[i].row
        /\ \A i \in DOMAIN early : i \in DOMAIN archive /\ early[i] = archive[i].row
    <2>1. \A i \in DOMAIN archive : i \in DOMAIN entire /\ entire[i] = archive[i].row
      OBVIOUS
    <2>2. \A i \in 1 .. o.upto : early[i] = archive[i].row
      OBVIOUS
    <2>3. DOMAIN early = 1 .. o.upto /\ 1 .. o.upto \subseteq DOMAIN archive
      BY <1>4, Zenon
    <2>4. \A i \in DOMAIN early : i \in DOMAIN archive /\ early[i] = archive[i].row
      BY ONLY <2>2, <2>3, Zenon
    <2> QED
      BY ONLY <2>1, <2>4, Zenon
  <1>6. ASSUME NEW i \in DOMAIN s PROVE Matches([dt |-> Day(s[i].bucket), row |-> s[i]], o)
    BY <1>1, <1>3 DEF IsAnswer
  <1>7. ASSUME NEW r PROVE TimesIn(r, s) <= TimesIn(r, entire)
    <2> DEFINE A == {i \in DOMAIN s : s[i] = r}
               B == {i \in DOMAIN entire : entire[i] = r}
    <2>1. IsFiniteSet(B)
      <3>1. IsFiniteSet(DOMAIN entire)
        BY <1>4, PlacesAreFinite
      <3>2. B \in SUBSET DOMAIN entire
        OBVIOUS
      <3> HIDE DEF B
      <3> QED
        BY <3>1, <3>2, FS_Subset
    <2>2. \A i \in A : m[i] \in B
      BY <1>1, <1>5 DEF IsAnswer
    <2>3. \A i, j \in A : m[i] = m[j] => i = j
      BY <1>1 DEF IsAnswer
    <2>4. Cardinality(A) <= Cardinality(B)
      <3> HIDE DEF A, B
      <3> QED
        BY <2>1, <2>2, <2>3, NotMore
    <2> QED
      BY <2>4 DEF TimesIn
  <1>8. ASSUME NEW i \in DOMAIN early, Matches(archive[i], o), TimesIn(early[i], s) < TimesIn(early[i], early)
        PROVE  Len(s) = Limit /\ \A j \in DOMAIN s : s[j].bucket >= early[i].bucket
    <2> DEFINE r == early[i]
               A == {k \in DOMAIN early : early[k] = r}
               B == {j \in DOMAIN s : s[j] = r}
               of == [k \in A |-> CHOOSE j \in DOMAIN s : m[j] = k]
    <2>1. \E k \in A : \A j \in DOMAIN s : m[j] # k
      <3> SUFFICES ASSUME \A k \in A : \E j \in DOMAIN s : m[j] = k PROVE FALSE
        OBVIOUS
      <3>1. \A k \in A : of[k] \in DOMAIN s /\ m[of[k]] = k
        OBVIOUS
      <3> HIDE DEF of
      <3>2. \A k \in A : of[k] \in B
        <4> SUFFICES ASSUME NEW k \in A PROVE of[k] \in DOMAIN s /\ s[of[k]] = r
          OBVIOUS
        <4>1. of[k] \in DOMAIN s /\ m[of[k]] = k /\ k \in DOMAIN early /\ early[k] = r
          BY <3>1
        <4>2. s[of[k]] = archive[k].row
          BY <1>1, <4>1 DEF IsAnswer
        <4>3. archive[k].row = early[k]
          BY <1>5, <4>1
        <4> QED
          BY <4>1, <4>2, <4>3
      <3>3. IsFiniteSet(B)
        <4>1. IsFiniteSet(DOMAIN s)
          BY <1>2, PlacesAreFinite
        <4>2. B \in SUBSET DOMAIN s
          OBVIOUS
        <4> HIDE DEF B
        <4> QED
          BY <4>1, <4>2, FS_Subset
      <3>4. TimesIn(r, s) = Cardinality(B) /\ TimesIn(r, early) = Cardinality(A)
        BY DEF TimesIn
      <3>5. TimesIn(r, s) \in Nat /\ TimesIn(r, early) \in Nat
        BY <1>2, <1>4, CopiesAre
      <3> HIDE DEF A, B
      <3>6. \A k, l \in A : of[k] = of[l] => k = l
        <4> SUFFICES ASSUME NEW k \in A, NEW l \in A, of[k] = of[l] PROVE k = l
          OBVIOUS
        <4>1. m[of[k]] = k /\ m[of[l]] = l
          BY <3>1
        <4> QED
          BY <4>1
      <3>7. Cardinality(A) <= Cardinality(B)
        BY <3>2, <3>3, <3>6, NotMore
      <3> QED
        BY <1>8, <3>4, <3>5, <3>7
    <2>2. PICK k \in A : \A j \in DOMAIN s : m[j] # k
      BY <2>1
    <2>3. k \in 1 .. o.upto /\ archive[k].row = early[i] /\ archive[k] = archive[i]
      BY <1>3, <1>4, <1>5
    <2> QED
      BY <1>1, <1>8, <2>2, <2>3 DEF IsAnswer
  <1> QED
    BY <1>6, <1>7, <1>8

LEMMA ResultsAreTrue ==
    ASSUME HistoryInv, archive \in Seq(Entries) PROVE ResultIsOfItsRange
  <1> SUFFICES ASSUME page.result # Null PROVE ResultIsOfItsRange
    BY DEF ResultIsOfItsRange
  <1> DEFINE s == page.result
             o == page.asked
             opts == [from |-> page.range.from, to |-> page.range.to, monitor |-> page.asked.monitor]
             early == [i \in 1 .. o.upto |-> archive[i].row]
             entire == [i \in DOMAIN archive |-> archive[i].row]
             key == page.sort.key
  <1>1. /\ page.error = Null /\ opts.from = o.from /\ opts.to = o.to /\ opts.monitor = o.monitor
        /\ Answers(archive, s, o)
    BY DEF HistoryInv, ResultOK
  <1>2. \A e : Matches(e, opts) <=> Matches(e, o)
    BY <1>1 DEF Matches
  <1>3. s \in Seq(RowsSeen) /\ \A i, j \in DOMAIN s : i < j => s[i].bucket >= s[j].bucket
    BY <1>1 DEF Answers
  <1>4. /\ \A i \in DOMAIN s : Matches([dt |-> Day(s[i].bucket), row |-> s[i]], o)
        /\ \A i \in DOMAIN s : TimesIn(s[i], s) <= TimesIn(s[i], entire)
        /\ \A i \in DOMAIN early : Matches(archive[i], o) /\ TimesIn(early[i], s) < TimesIn(early[i], early)
              => Len(s) = Limit /\ \A j \in DOMAIN s : s[j].bucket >= early[i].bucket
    <2> HIDE DEF s, o
    <2> QED
      BY <1>1, AnswersCount
  <1>5. /\ \A r : TimesIn(r, SortedRows) = TimesIn(r, s)
        /\ key # Null => \A i, j \in DOMAIN s : i < j /\ Cell(SortedRows[i], key) = 0 => Cell(SortedRows[j], key) = 0
    <2>1. CASE key = Null
      BY <2>1 DEF SortedRows
    <2>2. CASE key # Null
      <3>1. SortedRows = SortRowsByColumn(s, page.sort)
        BY <2>2 DEF SortedRows
      <3>2. PICK p : /\ SortRowsByColumn(s, page.sort) = [i \in DOMAIN s |-> s[p[i]]]
                     /\ Permutes(p, DOMAIN s)
                     /\ \A m, l \in DOMAIN s : l < m /\ Cell(s[p[l]], page.sort.key) = 0 => Cell(s[p[m]], page.sort.key) = 0
        <4> HIDE DEF s
        <4> QED
          BY <1>3, ColumnsAre
      <3> HIDE DEF s
      <3>3. \A r : TimesIn(r, SortedRows) = TimesIn(r, s)
        <4> SUFFICES ASSUME NEW r PROVE TimesIn(r, SortedRows) = TimesIn(r, s)
          OBVIOUS
        <4>1. SortedRows = [i \in DOMAIN s |-> s[p[i]]]
          BY <3>1, <3>2
        <4>2. TimesIn(r, [i \in DOMAIN s |-> s[p[i]]]) = TimesIn(r, s)
          BY <1>3, <3>2, CopiesMoved
        <4> QED
          BY <4>1, <4>2
      <3>4. \A i \in DOMAIN s : SortedRows[i] = s[p[i]]
        BY <3>1, <3>2
      <3> QED
        BY <3>2, <3>3, <3>4 DEF Permutes
    <2> QED
      BY <2>1, <2>2
  <1> HIDE DEF key
  <1> QED
    BY <1>1, <1>2, <1>3, <1>4, <1>5 DEF ResultIsOfItsRange, TimesIn, key

(***************************************************************************)
(* A result on the history page is the answer for the range above it, for  *)
(* any archive, however long, any limit and size of a page of results, and *)
(* whatever is typed, clicked, delivered or lost while the query runs.     *)
(***************************************************************************)
THEOREM ResultsAnswerTheirRange ==
    ASSUME Limit \in Nat, PageRows \in Nat \ {0}
    PROVE  HistorySpec => []ResultIsOfItsRange
  <1> DEFINE Inv == ArchiveInv /\ HistoryInv
  <1>1. ArchiveInit /\ HistoryInit => Inv
    BY InitArchive, InitHistory
  <1>2. Inv /\ [HistoryNext]_<<archiveVars, pageVars>> => Inv'
    <2> SUFFICES ASSUME Inv, [HistoryNext]_<<archiveVars, pageVars>> PROVE Inv'
      OBVIOUS
    <2>1. archive \in Seq(Entries) /\ buffer \in Seq(RowsSeen)
      BY DEF ArchiveInv, PathTypes
    <2>2. CASE [ArchiveStep]_archiveVars /\ UNCHANGED pageVars
      BY <2>1, <2>2, NextArchive, ArchiveStepKeeps
    <2>3. CASE HistoryStep /\ UNCHANGED archiveVars
      BY <2>1, <2>3, NextArchive, StepKeeps
    <2> QED
      BY <2>2, <2>3 DEF HistoryNext
  <1>3. Inv => ResultIsOfItsRange
    BY ResultsAreTrue DEF ArchiveInv, PathTypes
  <1> HIDE DEF Inv
  <1> QED
    BY <1>1, <1>2, <1>3, PTL DEF HistorySpec
-----------------------------------------------------------------------------
(* One pass over the query matrix, for any matrix, pool and limits.        *)

\* The invariant without the statistics.
JobsInv == MatrixTypeOK /\ HeldJobs /\ OneWorkerPerJob /\ UnsettledJobs /\ EdgesAreWhole

\* Initially every job is in the queue.
LEMMA JobsInit == MatrixInit => JobsInv
BY NoneAssumption, BoundAssumption
   DEF MatrixInit, JobsInv, MatrixTypeOK, HeldJobs, OneWorkerPerJob, UnsettledJobs,
       EdgesAreWhole, Stages, QueryStates

\* Each step of a worker, and of the service, preserves it.
LEMMA JobsNext == JobsInv /\ [MatrixNext]_matrixVars => JobsInv'
<1>1. SUFFICES ASSUME JobsInv, [MatrixNext]_matrixVars PROVE JobsInv'
  OBVIOUS
<1> USE NoneAssumption, BoundAssumption
    DEF JobsInv, MatrixTypeOK, HeldJobs, OneWorkerPerJob, UnsettledJobs,
        EdgesAreWhole, Stages, QueryStates, Calling
<1>2. ASSUME NEW w \in Workers, Take(w) PROVE JobsInv'
  <2>1. PICK j \in queue : queue' = queue \ {j} /\ job' = [job EXCEPT ![w] = j]
    BY <1>2 DEF Take
  <2>2. MatrixTypeOK'
    BY <1>1, <1>2, <2>1 DEF Take, service
  <2>3. HeldJobs'
    BY <1>1, <1>2, <2>1 DEF Take
  <2>4. OneWorkerPerJob'
    BY <1>1, <1>2, <2>1 DEF Take
  <2>5. UnsettledJobs'
    BY <1>1, <1>2, <2>1 DEF Take, service
  <2>6. EdgesAreWhole'
    BY <1>1, <1>2 DEF Take, service
  <2>7. QED
    BY <2>2, <2>3, <2>4, <2>5, <2>6
<1>3. ASSUME NEW w \in Workers, StartQuery(w) PROVE JobsInv'
  BY <1>1, <1>3 DEF StartQuery, Proceed, stats
<1>4. ASSUME NEW w \in Workers, PollAgain(w) PROVE JobsInv'
  BY <1>1, <1>4 DEF PollAgain, Proceed, LastPoll, service, stats
<1>5. ASSUME NEW w \in Workers, PollSucceeds(w) PROVE JobsInv'
  BY <1>1, <1>5 DEF PollSucceeds, Proceed, service, stats
<1>6. ASSUME NEW w \in Workers, PollFails(w) PROVE JobsInv'
  BY <1>1, <1>6 DEF PollFails, Fail, Leave
<1>7. ASSUME NEW w \in Workers, GiveUp(w) PROVE JobsInv'
  BY <1>1, <1>7 DEF GiveUp, Proceed, service, stats
<1>8. ASSUME NEW w \in Workers, StopQuery(w) PROVE JobsInv'
  BY <1>1, <1>8 DEF StopQuery, Fail, Leave
<1>9. ASSUME NEW w \in Workers, Fetch(w) PROVE JobsInv'
  <2>1. CASE got[w] + 1 < pages[job[w]]
    BY <1>1, <1>9, <2>1 DEF Fetch, Proceed
  <2>2. CASE ~(got[w] + 1 < pages[job[w]])
    <3>1. got[w] + 1 = pages[job[w]] /\ job[w] \in Jobs
      BY <1>1, <1>9, <2>2 DEF Fetch
    <3>2. MatrixTypeOK'
      BY <1>1, <1>9, <2>2, <3>1 DEF Fetch, Leave
    <3>3. HeldJobs' /\ OneWorkerPerJob'
      BY <1>1, <1>9, <2>2 DEF Fetch, Leave
    <3>4. UnsettledJobs'
      BY <1>1, <1>9, <2>2 DEF Fetch, Leave
    <3>5. EdgesAreWhole'
      BY <1>1, <1>9, <2>2, <3>1 DEF Fetch, Leave
    <3>6. QED
      BY <3>2, <3>3, <3>4, <3>5
  <2>3. QED
    BY <2>1, <2>2
<1>10. ASSUME NEW w \in Workers, Throttle(w) PROVE JobsInv'
  BY <1>1, <1>10 DEF Throttle, service, stats
<1>11. ASSUME NEW w \in Workers, Reject(w) PROVE JobsInv'
  BY <1>1, <1>11 DEF Reject, Fail, Leave
<1>12. ASSUME NEW j \in Jobs, QueryEnds(j) PROVE JobsInv'
  BY <1>1, <1>12 DEF QueryEnds, stats
<1>13. CASE UNCHANGED matrixVars
  BY <1>1, <1>13 DEF matrixVars, service, stats
<1>14. QED
  BY <1>1, <1>2, <1>3, <1>4, <1>5, <1>6, <1>7, <1>8, <1>9, <1>10, <1>11,
     <1>12, <1>13 DEF MatrixNext, Step

\* The sets the statistics count are finite.
LEMMA CountsAreFinite ==
  ASSUME MatrixTypeOK
  PROVE  /\ IsFiniteSet(queue) /\ Cardinality(queue) \in Nat
         /\ IsFiniteSet(Busy) /\ Cardinality(Busy) \in Nat
         /\ IsFiniteSet(WithRows) /\ Cardinality(WithRows) \in Nat
<1>1. queue \in SUBSET Jobs /\ Busy \in SUBSET Workers /\ WithRows \in SUBSET Jobs
  BY DEF MatrixTypeOK, Busy, WithRows
<1>2. IsFiniteSet(queue) /\ IsFiniteSet(Busy) /\ IsFiniteSet(WithRows)
  BY <1>1, FiniteAssumption, FS_Subset
<1>3. QED
  BY <1>2, FS_CardinalityType

\* A worker that goes on with its job stays busy.
LEMMA ProceedKeepsBusy ==
  ASSUME MatrixTypeOK, NEW w \in Workers, at[w] # "pick",
         NEW stage, stage # "pick", Proceed(w, stage)
  PROVE  Busy' = Busy
BY DEF MatrixTypeOK, Busy, Proceed

\* One that leaves its job makes one busy worker less.
LEMMA LeaveFreesOne ==
  ASSUME MatrixTypeOK, NEW w \in Workers, at[w] # "pick", Leave(w)
  PROVE  Cardinality(Busy') = Cardinality(Busy) - 1
<1>1. w \in Busy /\ Busy' = Busy \ {w}
  BY DEF MatrixTypeOK, Busy, Leave
<1>2. QED
  BY <1>1, CountsAreFinite, FS_RemoveElement

\* A job that fails is one more failed and one busy worker less.
LEMMA FailCounts ==
  ASSUME MatrixTypeOK, StatsAddUp, NEW w \in Workers, at[w] # "pick", Fail(w)
  PROVE  StatsAddUp'
<1>1. Cardinality(Busy') = Cardinality(Busy) - 1
  BY LeaveFreesOne DEF Fail
<1>2. queue' = queue /\ WithRows' = WithRows
  BY DEF Fail, Leave, WithRows
<1>3. QED
  BY <1>1, <1>2, CountsAreFinite DEF StatsAddUp, Fail, Leave, MatrixTypeOK

\* A step that changes neither the counted sets nor the counts.
LEMMA NothingCounted ==
  ASSUME StatsAddUp, Busy' = Busy, queue' = queue, edges' = edges,
         started' = started, succeeded' = succeeded, failed' = failed
  PROVE  StatsAddUp'
BY DEF StatsAddUp, WithRows

\* Every step keeps the statistics in line with the jobs.
LEMMA StatsNext == JobsInv /\ StatsAddUp /\ [MatrixNext]_matrixVars => StatsAddUp'
<1>1. SUFFICES ASSUME JobsInv, StatsAddUp, [MatrixNext]_matrixVars PROVE StatsAddUp'
  OBVIOUS
<1>2. MatrixTypeOK
  BY <1>1 DEF JobsInv
<1>3. ASSUME NEW w \in Workers, Take(w) PROVE StatsAddUp'
  <2>1. PICK j \in queue : queue' = queue \ {j}
    BY <1>3 DEF Take
  <2>2. w \notin Busy /\ Busy' = Busy \cup {w} /\ WithRows' = WithRows
    BY <1>2, <1>3 DEF Take, Busy, MatrixTypeOK, WithRows
  <2>3. /\ Cardinality(queue') = Cardinality(queue) - 1
        /\ Cardinality(Busy') = Cardinality(Busy) + 1
    BY <1>2, <2>1, <2>2, CountsAreFinite, FS_AddElement, FS_RemoveElement
  <2>4. Cardinality(Jobs) \in Nat
    BY FiniteAssumption, FS_CardinalityType
  <2>5. QED
    BY <1>1, <1>2, <1>3, <2>2, <2>3, <2>4, CountsAreFinite DEF StatsAddUp, Take, MatrixTypeOK
<1>4. ASSUME NEW w \in Workers, StartQuery(w) PROVE StatsAddUp'
  <2>1. Busy' = Busy
    BY <1>2, <1>4, ProceedKeepsBusy DEF StartQuery
  <2>2. QED
    BY <1>1, <1>4, <2>1, NothingCounted DEF StartQuery, Proceed, stats
<1>5. ASSUME NEW w \in Workers, PollAgain(w) \/ PollSucceeds(w) \/ GiveUp(w)
      PROVE  StatsAddUp'
  <2>1. Busy' = Busy
    BY <1>2, <1>5, ProceedKeepsBusy DEF PollAgain, PollSucceeds, GiveUp
  <2>2. QED
    BY <1>1, <1>5, <2>1, NothingCounted
       DEF PollAgain, PollSucceeds, GiveUp, Proceed, stats
<1>6. ASSUME NEW w \in Workers, PollFails(w) \/ StopQuery(w) \/ Reject(w)
      PROVE  StatsAddUp'
  BY <1>1, <1>2, <1>6, FailCounts DEF PollFails, StopQuery, Reject, Calling
<1>7. ASSUME NEW w \in Workers, Fetch(w) PROVE StatsAddUp'
  <2>1. CASE got[w] + 1 < pages[job[w]]
    <3>1. Busy' = Busy
      BY <1>2, <1>7, <2>1, ProceedKeepsBusy DEF Fetch
    <3>2. QED
      BY <1>1, <1>7, <2>1, <3>1, NothingCounted DEF Fetch, Proceed
  <2>2. CASE ~(got[w] + 1 < pages[job[w]])
    <3>1. Cardinality(Busy') = Cardinality(Busy) - 1
      BY <1>2, <1>7, <2>2, LeaveFreesOne DEF Fetch
    <3>2. job[w] \in Jobs /\ edges[job[w]] = 0 /\ got[w] + 1 # 0
      BY <1>1, <1>7, NoneAssumption
         DEF JobsInv, HeldJobs, UnsettledJobs, MatrixTypeOK, Fetch
    <3>3. job[w] \notin WithRows /\ WithRows' = WithRows \cup {job[w]}
      BY <1>2, <1>7, <2>2, <3>2 DEF Fetch, WithRows, MatrixTypeOK
    <3>4. Cardinality(WithRows') = Cardinality(WithRows) + 1
      BY <1>2, <3>3, CountsAreFinite, FS_AddElement
    <3>5. QED
      BY <1>1, <1>2, <1>7, <2>2, <3>1, <3>4, CountsAreFinite
         DEF StatsAddUp, Fetch, Leave, MatrixTypeOK
  <2>3. QED
    BY <2>1, <2>2
<1>8. ASSUME NEW w \in Workers, Throttle(w) PROVE StatsAddUp'
  BY <1>1, <1>8, NothingCounted DEF Throttle, Busy, stats
<1>9. ASSUME NEW j \in Jobs, QueryEnds(j) PROVE StatsAddUp'
  BY <1>1, <1>9, NothingCounted DEF QueryEnds, Busy, stats
<1>10. CASE UNCHANGED matrixVars
  BY <1>1, <1>10, NothingCounted DEF matrixVars, Busy, stats
<1>11. QED
  BY <1>1, <1>3, <1>4, <1>5, <1>6, <1>7, <1>8, <1>9, <1>10 DEF MatrixNext, Step

\* Initially nothing is counted and every job is in the queue.
LEMMA StatsInit == MatrixInit => StatsAddUp
<1>1. SUFFICES ASSUME MatrixInit PROVE StatsAddUp
  OBVIOUS
<1>2. Busy = {} /\ WithRows = {}
  BY <1>1 DEF MatrixInit, Busy, WithRows
<1>3. Cardinality(Jobs) \in Nat
  BY FiniteAssumption, FS_CardinalityType
<1>4. QED
  BY <1>1, <1>2, <1>3, FS_EmptySet DEF MatrixInit, StatsAddUp

\* The inductive invariant holds for any matrix, pool and limits: a job is
\* with one worker at most, has no rows before it is settled, and is counted.
THEOREM MatrixInvariance == MatrixSpec => []MatrixInv
<1>1. MatrixInit => MatrixInv
  BY JobsInit, StatsInit DEF MatrixInv, JobsInv
<1>2. MatrixInv /\ [MatrixNext]_matrixVars => MatrixInv'
  BY JobsNext, StatsNext DEF MatrixInv, JobsInv
<1>3. QED
  BY <1>1, <1>2, PTL DEF MatrixSpec

\* Every variable holds what it should, and no call exceeds its tries.
THEOREM TypeCorrect == MatrixSpec => []MatrixTypeOK
<1>1. MatrixInv => MatrixTypeOK
  BY DEF MatrixInv
<1>2. QED
  BY <1>1, MatrixInvariance, PTL

\* The workers' shared index never gives a job to two of them.
THEOREM JobsAreTakenOnce == MatrixSpec => []OneWorkerPerJob
<1>1. MatrixInv => OneWorkerPerJob
  BY DEF MatrixInv
<1>2. QED
  BY <1>1, MatrixInvariance, PTL

\* The matrix returns the whole result of a query that succeeded, or nothing.
THEOREM ResultsAreWhole == MatrixSpec => []EdgesAreWhole
<1>1. MatrixInv => EdgesAreWhole
  BY DEF MatrixInv
<1>2. QED
  BY <1>1, MatrixInvariance, PTL

\* The statistics account for every job at every moment.
THEOREM EveryJobIsCounted == MatrixSpec => []StatsAddUp
<1>1. MatrixInv => StatsAddUp
  BY DEF MatrixInv
<1>2. QED
  BY <1>1, MatrixInvariance, PTL
-----------------------------------------------------------------------------
(* The passes of an invocation.                                            *)

LogSet == [at : {"idle", "start", "poll", "stop", "done"}, polls : Nat, query : QueryStates,
           records : 0 .. MaxRecords]

\* No log is asked before its pass, and while the scope is looked for nobody
\* works and nothing has been collected.
PassOK ==
    /\ log \in [1 .. Groups -> LogSet]
    /\ pass \in {"matrix", "scope", "insights"} =>
          \A g \in 1 .. Groups : log[g].query = "none"
    /\ pass = "scope" => Busy = {} /\ WithRows = {}

InvocationInv == MatrixInv /\ PassOK /\ OnlyRejectedLeftRunning

LEMMA InvocationInit == InitAll => InvocationInv
<1>1. SUFFICES ASSUME InitAll PROVE InvocationInv
  OBVIOUS
<1>2. MatrixInv
  BY <1>1, JobsInit, StatsInit DEF InitAll, MatrixInv, JobsInv
<1>3. NoLog \in LogSet /\ NoLog.query = "none"
  BY GroupAssumption DEF NoLog, LogSet, QueryStates
<1>4. log = [g \in 1 .. Groups |-> NoLog] /\ pass = "matrix" /\ query = [j \in Jobs |-> "none"]
  BY <1>1 DEF InitAll, NoLogs, MatrixInit
<1>5. PassOK
  BY <1>3, <1>4 DEF PassOK
<1>6. OnlyRejectedLeftRunning
  BY <1>3, <1>4 DEF OnlyRejectedLeftRunning
<1>7. QED
  BY <1>2, <1>5, <1>6 DEF InvocationInv

\* A step of the pool leaves a query running with a worker, or with a job that is
\* noted as rejected.
LEMMA PoolLeavesNone ==
  ASSUME InvocationInv, NEW w \in Workers, PoolStep(w)
  PROVE  InvocationInv'
<1>1. MatrixInv' /\ Step(w) /\ JobsInv
  BY JobsNext, StatsNext DEF PoolStep, MatrixNext, InvocationInv, MatrixInv, JobsInv
<1>2. UNCHANGED <<log, pass>> /\ pass # "scope" /\ rejected \subseteq rejected'
      /\ (Refused(w) => rejected' = rejected \cup {job[w]})
  BY DEF PoolStep
<1>3. PassOK'
  BY <1>2 DEF InvocationInv, PassOK
<1>4. ASSUME NEW j \in Jobs, query'[j] = "running"
      PROVE  j \in rejected' \/ \E v \in Workers : job'[v] = j
  <2> USE NoneAssumption DEF JobsInv, MatrixTypeOK
  <2>1. query[j] = "running" => j \in rejected \/ \E v \in Workers : job[v] = j
    BY DEF InvocationInv, OnlyRejectedLeftRunning
  <2>2. CASE UNCHANGED <<job, query>>
    BY <1>2, <1>4, <2>1, <2>2
  <2>3. CASE Take(w)
    <3>1. UNCHANGED query /\ job[w] = None
      BY <1>1, <2>3 DEF Take, service, HeldJobs
    <3>2. PICK i \in queue : job' = [job EXCEPT ![w] = i]
      BY <2>3 DEF Take
    <3>3. \A v \in Workers : job[v] = j => job'[v] = j
      BY <1>1, <3>1, <3>2
    <3>4. QED
      BY <1>2, <1>4, <2>1, <3>1, <3>3
  <2>4. CASE StartQuery(w)
    <3>1. UNCHANGED job /\ (j = job[w] \/ query'[j] = query[j])
      BY <1>1, <2>4 DEF StartQuery, Proceed
    <3>2. QED
      BY <1>2, <1>4, <2>1, <3>1
  <2>5. ASSUME Leave(w), j # job[w], query'[j] = query[j]
        PROVE  j \in rejected' \/ \E v \in Workers : job'[v] = j
    <3>1. \A v \in Workers : job[v] = j => job'[v] = j
      BY <1>1, <2>5 DEF Leave
    <3>2. QED
      BY <1>2, <1>4, <2>1, <2>5, <3>1
  <2>6. CASE PollFails(w)
    <3>1. Leave(w) /\ UNCHANGED query /\ query[job[w]] = "failed"
      BY <2>6 DEF PollFails, Fail
    <3>2. QED
      BY <1>4, <2>5, <3>1
  <2>7. CASE StopQuery(w)
    <3>1. CASE j = job[w]
      BY <1>2, <1>4, <2>7, <3>1 DEF Refused
    <3>2. CASE j # job[w]
      BY <1>1, <2>5, <2>7, <3>2 DEF StopQuery, Fail
    <3>3. QED
      BY <3>1, <3>2
  <2>8. CASE Fetch(w)
    <3>1. UNCHANGED query /\ query[job[w]] = "succeeded"
      BY <1>1, <2>8 DEF Fetch, UnsettledJobs
    <3>2. UNCHANGED job \/ Leave(w)
      BY <2>8 DEF Fetch, Proceed
    <3>3. QED
      BY <1>4, <2>2, <2>5, <3>1, <3>2
  <2>9. CASE Reject(w)
    <3>1. CASE j = job[w]
      BY <1>2, <2>9, <3>1 DEF Refused
    <3>2. CASE j # job[w]
      BY <1>1, <2>5, <2>9, <3>2 DEF Reject, Fail
    <3>3. QED
      BY <3>1, <3>2
  <2>10. CASE PollAgain(w) \/ PollSucceeds(w)
    BY <2>2, <2>10 DEF PollAgain, PollSucceeds, Proceed, service
  <2>11. CASE GiveUp(w) \/ Throttle(w)
    BY <2>2, <2>11 DEF GiveUp, Throttle, Proceed, service
  <2>12. QED
    BY <1>1, <2>3, <2>4, <2>6, <2>7, <2>8, <2>9, <2>10, <2>11 DEF Step
<1>5. OnlyRejectedLeftRunning'
  BY <1>2, <1>4 DEF InvocationInv, OnlyRejectedLeftRunning
<1>6. QED
  BY <1>1, <1>3, <1>5 DEF InvocationInv

LEMMA FinishLeavesNone ==
  ASSUME InvocationInv, FinishQuery
  PROVE  InvocationInv'
<1>1. PICK j \in Jobs : QueryEnds(j)
  BY DEF FinishQuery
<1>2. MatrixInv' /\ MatrixTypeOK
  BY <1>1, JobsNext, StatsNext DEF MatrixNext, InvocationInv, MatrixInv, JobsInv
<1>3. UNCHANGED <<pass, rejected, log, at, job, edges>>
  BY <1>1 DEF FinishQuery, QueryEnds, handler
<1>4. PassOK'
  BY <1>3 DEF InvocationInv, PassOK, Busy, WithRows
<1>5. \A i \in Jobs : query'[i] = "running" => query[i] = "running"
  BY <1>1, <1>2 DEF QueryEnds, MatrixTypeOK
<1>6. OnlyRejectedLeftRunning'
  BY <1>3, <1>5 DEF InvocationInv, OnlyRejectedLeftRunning
<1>7. QED
  BY <1>2, <1>4, <1>6 DEF InvocationInv

\* The pool of the next pass starts over: idle workers, every job in the queue.
LEMMA FreshPoolStarts ==
  ASSUME MatrixInv, FreshPool
  PROVE  MatrixInv' /\ Busy' = {} /\ WithRows' = {} /\ \A j \in Jobs : query'[j] = "none"
<1>1. Busy = {} /\ Busy' = {} /\ \A w \in Workers : at[w] = "pick"
  BY DEF FreshPool, PoolDone, Busy
<1>2. edges' = [j \in Jobs |-> 0] /\ query' = [j \in Jobs |-> "none"] /\ queue' = Jobs
      /\ pages' = [j \in Jobs |-> 1] /\ started' = 0 /\ succeeded' = 0 /\ failed' = 0
  BY DEF FreshPool, OnePage
<1>3. WithRows' = {}
  BY <1>2 DEF WithRows
<1>4. UNCHANGED <<at, job, tries, polls, got>>
  BY DEF FreshPool
<1> USE NoneAssumption, BoundAssumption
<1>5. MatrixTypeOK'
  BY <1>2, <1>4 DEF MatrixInv, MatrixTypeOK, QueryStates
<1>6. HeldJobs' /\ OneWorkerPerJob' /\ EdgesAreWhole'
  BY <1>1, <1>2, <1>4 DEF MatrixInv, HeldJobs, OneWorkerPerJob, EdgesAreWhole
<1>7. UnsettledJobs'
  BY <1>1, <1>2, <1>4 DEF MatrixInv, UnsettledJobs
<1>8. StatsAddUp'
  <2>1. Cardinality(Jobs) \in Nat
    BY FiniteAssumption, FS_CardinalityType
  <2>2. QED
    BY <1>1, <1>2, <1>3, <2>1, FS_EmptySet DEF StatsAddUp
<1>9. QED
  BY <1>1, <1>2, <1>3, <1>5, <1>6, <1>7, <1>8 DEF MatrixInv

LEMMA HandlerLeavesNone ==
  ASSUME InvocationInv, HandlerStep
  PROVE  InvocationInv'
<1> USE GroupAssumption DEF InvocationInv
<1>1. ASSUME AfterInsights, pass \in {"scope", "insights"}
      PROVE  /\ log' \in [1 .. Groups -> LogSet] /\ pass' \in {"dns", "done"}
             /\ \A g \in 1 .. Groups : log'[g].query = "none"
  <2>1. [NoLog EXCEPT !.at = "start"] \in LogSet /\ [NoLog EXCEPT !.at = "start"].query = "none"
    BY DEF NoLog, LogSet, QueryStates
  <2>2. QED
    BY <1>1, <2>1 DEF AfterInsights, PassOK
<1>2. CASE MatrixEnds
  <2>1. FreshPool /\ pass = "matrix" /\ pass' = "scope" /\ UNCHANGED log
    BY <1>2 DEF MatrixEnds
  <2>2. MatrixInv' /\ Busy' = {} /\ WithRows' = {} /\ \A j \in Jobs : query'[j] = "none"
    BY <2>1, FreshPoolStarts
  <2>3. QED
    BY <2>1, <2>2 DEF PassOK, OnlyRejectedLeftRunning
<1>3. CASE FindScope
  <2>1. /\ pass = "scope" /\ pass' = "insights" /\ pages' \in [Jobs -> 1 .. MaxPages]
        /\ UNCHANGED <<queue, at, job, tries, polls, got, query, edges, started, succeeded, failed,
                       rejected, log>>
    BY <1>3 DEF FindScope, stats
  <2>2. Busy = {} /\ WithRows = {}
    BY <2>1 DEF PassOK
  <2>3. MatrixTypeOK' /\ HeldJobs' /\ OneWorkerPerJob'
    BY <2>1 DEF MatrixInv, MatrixTypeOK, HeldJobs, OneWorkerPerJob
  <2>4. UnsettledJobs'
    BY <2>1, <2>2 DEF MatrixInv, UnsettledJobs, Busy
  <2>5. EdgesAreWhole'
    BY <2>1, <2>2 DEF EdgesAreWhole, WithRows
  <2>6. StatsAddUp'
    BY <2>1 DEF MatrixInv, StatsAddUp, Busy, WithRows
  <2>7. PassOK' /\ OnlyRejectedLeftRunning'
    BY <2>1 DEF PassOK, OnlyRejectedLeftRunning
  <2>8. QED
    BY <2>3, <2>4, <2>5, <2>6, <2>7 DEF MatrixInv
<1>4. CASE NoScope
  <2>1. AfterInsights /\ pass = "scope" /\ UNCHANGED <<matrixVars, rejected>>
    BY <1>4 DEF NoScope
  <2>2. MatrixInv'
    BY <2>1, JobsNext, StatsNext DEF MatrixInv, JobsInv
  <2>3. UNCHANGED <<query, job>>
    BY <2>1 DEF matrixVars, service
  <2>4. QED
    BY <1>1, <2>1, <2>2, <2>3 DEF PassOK, OnlyRejectedLeftRunning
<1>5. CASE InsightsEnd
  <2>1. FreshPool /\ AfterInsights /\ pass = "insights"
    BY <1>5 DEF InsightsEnd
  <2>2. MatrixInv' /\ \A j \in Jobs : query'[j] = "none"
    BY <2>1, FreshPoolStarts
  <2>3. QED
    BY <1>1, <2>1, <2>2 DEF PassOK, OnlyRejectedLeftRunning
<1>6. CASE DnsEnds
  <2>1. pass' = "done" /\ UNCHANGED <<matrixVars, rejected, log>>
    BY <1>6 DEF DnsEnds
  <2>2. MatrixInv'
    BY <2>1, JobsNext, StatsNext DEF MatrixInv, JobsInv
  <2>3. UNCHANGED <<query, job>>
    BY <2>1 DEF matrixVars, service
  <2>4. QED
    BY <2>1, <2>2, <2>3 DEF PassOK, OnlyRejectedLeftRunning
<1>7. QED
  BY <1>2, <1>3, <1>4, <1>5, <1>6 DEF HandlerStep

\* A log query that is given up is stopped, unless the stop is rejected.
LEMMA LogLeavesNone ==
  ASSUME InvocationInv, NEW g \in 1 .. Groups, LogStep(g) \/ FinishLog(g)
  PROVE  InvocationInv'
<1> USE GroupAssumption
<1>1. UNCHANGED <<matrixVars, pass>>
  BY DEF LogStep, FinishLog
<1>2. MatrixInv' /\ UNCHANGED <<query, job, at, edges>>
  BY <1>1, JobsNext, StatsNext DEF InvocationInv, MatrixInv, JobsInv, matrixVars, service
<1>3. log \in [1 .. Groups -> LogSet] /\ log[g] \in LogSet
  BY DEF InvocationInv, PassOK
<1>4. PICK l \in LogSet :
        /\ log' = [log EXCEPT ![g] = l]
        /\ rejected \subseteq rejected'
        /\ l.query = "running" => \/ g \in rejected'
                                  \/ l.at \in {"poll", "stop"}
                                  \/ log[g].query = "running" /\ l.at = log[g].at
        /\ pass = "dns" \/ log[g].query = "running"
  <2> DEFINE Fits(l) ==
        /\ l \in LogSet /\ log' = [log EXCEPT ![g] = l]
        /\ rejected \subseteq rejected'
        /\ l.query = "running" => \/ g \in rejected'
                                  \/ l.at \in {"poll", "stop"}
                                  \/ log[g].query = "running" /\ l.at = log[g].at
        /\ pass = "dns" \/ log[g].query = "running"
  <2>1. NoLog \in LogSet
    BY DEF NoLog, LogSet, QueryStates
  <2>2. CASE LogStep(g) /\ StartLog(g)
    <3>1. Fits([NoLog EXCEPT !.at = "poll", !.query = "running"])
      BY <2>1, <2>2 DEF LogStep, StartLog, LogGoes, LogSet, QueryStates
    <3>2. QED
      BY <3>1
  <2>3. CASE LogStep(g) /\ PollLog(g) /\ log[g].query = "succeeded"
    <3>1. PICK n \in 0 .. MaxRecords : log' = [log EXCEPT ![g] = [log[g] EXCEPT !.at = "done", !.records = n]]
      BY <2>3 DEF PollLog, LogGoes
    <3>2. Fits([log[g] EXCEPT !.at = "done", !.records = n])
      BY <1>3, <2>3, <3>1 DEF LogStep, PollLog, LogSet, QueryStates
    <3>3. QED
      BY <3>2
  <2>4. CASE LogStep(g) /\ PollLog(g) /\ log[g].query = "failed"
    <3>1. Fits([log[g] EXCEPT !.at = "done"])
      BY <1>3, <2>4 DEF LogStep, PollLog, LogEnds, LogGoes, LogSet, QueryStates
    <3>2. QED
      BY <3>1
  <2>5. CASE LogStep(g) /\ PollLog(g) /\ log[g].query \notin {"succeeded", "failed"}
    <3> DEFINE to == IF log[g].polls + 1 = PollMax THEN "stop" ELSE "poll"
    <3>1. log' = [log EXCEPT ![g] = [log[g] EXCEPT !.polls = log[g].polls + 1, !.at = to]]
      BY <1>3, <2>5 DEF PollLog, LogGoes, LogSet
    <3>2. to \in {"poll", "stop"}
      OBVIOUS
    <3> HIDE DEF to
    <3>3. pass = "dns" /\ UNCHANGED rejected
      BY <2>5 DEF LogStep, PollLog
    <3>4. [log[g] EXCEPT !.polls = log[g].polls + 1, !.at = to] \in LogSet
      <4>1. ASSUME NEW n \in Nat PROVE [log[g] EXCEPT !.polls = n, !.at = to] \in LogSet
        BY <1>3, <3>2 DEF LogSet
      <4>2. log[g].polls + 1 \in Nat
        BY <1>3 DEF LogSet
      <4>3. QED
        BY <4>1, <4>2
    <3>5. [log[g] EXCEPT !.polls = log[g].polls + 1, !.at = to].at = to
      BY <1>3 DEF LogSet
    <3>6. Fits([log[g] EXCEPT !.polls = log[g].polls + 1, !.at = to])
      BY <3>1, <3>2, <3>3, <3>4, <3>5
    <3>7. QED
      BY <3>6
  <2>6. CASE LogStep(g) /\ StopLog(g)
    <3> DEFINE end == IF log[g].query = "running" THEN "failed" ELSE log[g].query
    <3>1. \/ /\ log' = [log EXCEPT ![g] = [log[g] EXCEPT !.at = "done", !.query = end]]
             /\ UNCHANGED rejected
          \/ log' = [log EXCEPT ![g] = [log[g] EXCEPT !.at = "done"]] /\ rejected' = rejected \cup {g}
      BY <1>3, <2>6 DEF StopLog, LogEnds, LogGoes, LogSet
    <3>2. end # "running" /\ end \in QueryStates
      BY <1>3 DEF LogSet, QueryStates
    <3> HIDE DEF end
    <3>3. \/ Fits([log[g] EXCEPT !.at = "done", !.query = end])
          \/ Fits([log[g] EXCEPT !.at = "done"])
      BY <1>3, <2>6, <3>1, <3>2 DEF LogStep, LogSet
    <3>4. QED
      BY <3>3
  <2>7. CASE LogStep(g) /\ RejectLog(g)
    <3>1. \/ Fits([log[g] EXCEPT !.at = "done"])
          \/ Fits([NoLog EXCEPT !.at = "done", !.query = "running"])
      BY <1>3, <2>1, <2>7 DEF LogStep, RejectLog, LogEnds, LogGoes, LogSet, QueryStates
    <3>2. QED
      BY <3>1
  <2>8. CASE FinishLog(g)
    <3>1. PICK end \in {"succeeded", "failed"} : log' = [log EXCEPT ![g] = [log[g] EXCEPT !.query = end]]
      BY <2>8 DEF FinishLog, LogGoes
    <3>2. Fits([log[g] EXCEPT !.query = end])
      BY <1>3, <2>8, <3>1 DEF FinishLog, LogSet, QueryStates
    <3>3. QED
      BY <3>2
  <2>9. QED
    BY <2>2, <2>3, <2>4, <2>5, <2>6, <2>7, <2>8 DEF LogStep
<1>5. log' \in [1 .. Groups -> LogSet] /\ log'[g] = l /\ \A h \in 1 .. Groups \ {g} : log'[h] = log[h]
  BY <1>3, <1>4
<1>6. PassOK'
  BY <1>1, <1>2, <1>4, <1>5 DEF InvocationInv, PassOK, Busy, WithRows
<1>7. OnlyRejectedLeftRunning'
  BY <1>2, <1>4, <1>5 DEF InvocationInv, OnlyRejectedLeftRunning
<1>8. QED
  BY <1>2, <1>6, <1>7 DEF InvocationInv

LEMMA InvocationNext == InvocationInv /\ [NextAll]_all => InvocationInv'
<1>1. SUFFICES ASSUME InvocationInv, [NextAll]_all PROVE InvocationInv'
  OBVIOUS
<1>2. CASE UNCHANGED all
  <2>1. UNCHANGED matrixVars /\ UNCHANGED <<pass, rejected, log>>
    BY <1>2 DEF all, handler
  <2>2. MatrixInv' /\ UNCHANGED <<query, job, at, edges>>
    BY <1>1, <2>1, JobsNext, StatsNext DEF InvocationInv, MatrixInv, JobsInv, matrixVars, service
  <2>3. QED
    BY <1>1, <2>1, <2>2 DEF InvocationInv, PassOK, OnlyRejectedLeftRunning, Busy, WithRows
<1>3. QED
  BY <1>1, <1>2, PoolLeavesNone, FinishLeavesNone, HandlerLeavesNone, LogLeavesNone DEF NextAll

LEMMA InvocationInvariance == Invocation => []InvocationInv
BY InvocationInit, InvocationNext, PTL DEF Invocation

\* The statistics account for every job in every pass of an invocation: the
\* matrix's and the insights' pools do not get into each other's way.
THEOREM EveryPassIsCounted == Invocation => []StatsAddUp
<1>1. InvocationInv => StatsAddUp
  BY DEF InvocationInv, MatrixInv
<1>2. QED
  BY <1>1, InvocationInvariance, PTL

\* In all three passes, a query nobody waits for any more runs on only if a call
\* about it was rejected: whatever is too slow is stopped.
THEOREM SlowQueriesAreStopped == Invocation => []OnlyRejectedLeftRunning
<1>1. InvocationInv => OnlyRejectedLeftRunning
  BY DEF InvocationInv
<1>2. QED
  BY <1>1, InvocationInvariance, PTL
-----------------------------------------------------------------------------
(* The cycle counter, the latest rows and the alerts, for any number of    *)
(* overlapping invocations and entities.                                   *)

USE EveryAssumption, StartsAssumption

\* Nothing is stored, sent or running at first.
LEMMA InitIInv == Init => IInv
  BY DEF Init, IInv, TypeOK, Phases, Rows, CountsFollowRan, NoSlotSkipped,
         RowsFollowStatus, AnnouncedFirst, BreachesAreAnnounced, OneSender, Open

\* The steps before and after the alerts touch no message and no memory.
LEMMA NoAlertIInv ==
    ASSUME IInv, TypeOK', CountsFollowRan', NoSlotSkipped', RowsFollowStatus',
           UNCHANGED <<remembered, topic, outbox, exact>>,
           \A i \in Invocations :
               \/ phase'[i] = phase[i] /\ breaching'[i] = breaching[i]
               \/ phase[i] # "publish" /\ phase'[i] # "publish"
    PROVE  IInv'
  <1>1. AnnouncedFirst' /\ BreachesAreAnnounced'
    BY DEF IInv, AnnouncedFirst, BreachesAreAnnounced, topic
  <1>2. OneSender'
    <2> SUFFICES ASSUME exact PROVE OneSender'
      BY DEF OneSender
    <2>1. \A i \in Invocations : phase'[i] = "publish" <=> phase[i] = "publish"
      OBVIOUS
    <2>2. \A i \in Invocations : phase[i] = "publish" => breaching'[i] = breaching[i]
      OBVIOUS
    <2>3. \A k \in Entities : Open(k)' = Open(k)
      BY DEF Open, topic
    <2> QED
      BY <2>1, <2>2, <2>3 DEF IInv, OneSender
  <1> QED
    BY <1>1, <1>2 DEF IInv

\* An invocation starts, reads the counter and gets its edges.
LEMMA BeginIInv ==
    ASSUME IInv, NEW i \in Invocations, Start(i) \/ ReadCycle(i) \/ Query(i)
    PROVE  IInv'
  <1> USE DEF tables, topic, own, Goto
  <1>1. TypeOK'
    <2>1. CASE Start(i)
      BY <2>1 DEF IInv, TypeOK, Phases, Start
    <2>2. CASE ReadCycle(i)
      BY <2>2 DEF IInv, TypeOK, Phases, ReadCycle
    <2>3. CASE Query(i)
      BY <2>3 DEF IInv, TypeOK, Phases, Query
    <2> QED
      BY <2>1, <2>2, <2>3
  <1>6. /\ UNCHANGED <<latest, stored, ran, steady>>
        /\ \A j \in Invocations \ {i} : phase'[j] = phase[j] /\ number'[j] = number[j]
        /\ phase'[i] \in {"read", "query", "status"}
        /\ number'[i] = number[i] \/ number'[i] = 1 \/ number'[i] = latest + 1
        /\ phase'[i] # "read" => number'[i] # 0
    <2>1. CASE Start(i)
      BY <2>1 DEF IInv, TypeOK, Start
    <2>2. CASE ReadCycle(i)
      <3>1. latest + 1 \in Nat \ {0}
        BY DEF IInv, TypeOK
      <3> QED
        BY <2>2, <3>1 DEF IInv, TypeOK, ReadCycle
    <2>3. CASE Query(i)
      BY <2>3 DEF IInv, TypeOK, CountsFollowRan, Query
    <2> QED
      BY <2>1, <2>2, <2>3
  <1>2. CountsFollowRan'
    <2>1. number'[i] \in {0, 1} \/ number'[i] - 1 \in ran'
      BY <1>6 DEF IInv, TypeOK, CountsFollowRan
    <2> QED
      BY <1>6, <2>1 DEF IInv, CountsFollowRan
  <1>3. NoSlotSkipped' /\ RowsFollowStatus'
    BY <1>6 DEF IInv, NoSlotSkipped, RowsFollowStatus
  <1>4. UNCHANGED <<remembered, topic, outbox, exact>>
    BY DEF Start, ReadCycle, Query
  <1>5. \A j \in Invocations :
            \/ phase'[j] = phase[j] /\ breaching'[j] = breaching[j]
            \/ phase[j] # "publish" /\ phase'[j] # "publish"
    <2>1. Start(i) \/ ReadCycle(i) => breaching' = breaching
      BY DEF Start, ReadCycle
    <2>2. phase[i] # "publish" /\ phase'[i] # "publish"
      BY DEF IInv, TypeOK, Start, ReadCycle, Query
    <2>3. \A j \in Invocations \ {i} : phase'[j] = phase[j] /\ breaching'[j] = breaching[j]
      BY <2>1 DEF IInv, TypeOK, Start, ReadCycle, Query
    <2> QED
      BY <2>2, <2>3
  <1> QED
    BY <1>1, <1>2, <1>3, <1>4, <1>5, NoAlertIInv

\* The status row is put: the counter moves to a cycle that follows one put.
LEMMA PutStatusIInv ==
    ASSUME IInv, NEW i \in Invocations, PutStatus(i) PROVE IInv'
  <1> USE DEF tables, topic, own, Goto
  <1>1. number[i] \in Nat \ {0} /\ (number[i] = 1 \/ number[i] - 1 \in ran)
    BY DEF IInv, TypeOK, CountsFollowRan, PutStatus
  <1>2. TypeOK'
    BY <1>1 DEF IInv, TypeOK, Phases, PutStatus
  <1>5. /\ latest' = number[i] /\ ran' = ran \cup {number[i]} /\ UNCHANGED <<stored, number>>
        /\ steady' = (steady /\ latest <= number[i])
        /\ phase'[i] = "topology" /\ phase[i] = "status"
        /\ \A j \in Invocations \ {i} : phase'[j] = phase[j]
    BY DEF IInv, TypeOK, PutStatus
  <1>6. latest \in Nat /\ number \in [Invocations -> Nat] /\ stored \in [Rows -> Nat] /\ ran \subseteq Nat
    BY DEF IInv, TypeOK
  <1>7. steady' => steady /\ latest <= number[i]
    BY <1>5, Zenon
  <1>3. CountsFollowRan'
    <2>1. /\ latest' \in ran' \cup {0}
          /\ \A j \in Invocations :
                /\ number[j] \in {0, 1} \/ number[j] - 1 \in ran'
                /\ phase'[j] \notin {"idle", "read"} => number[j] # 0
                /\ phase'[j] \notin {"idle", "read", "query", "status"} => number[j] \in ran'
      BY <1>1, <1>5 DEF IInv, CountsFollowRan
    <2>2. steady' => \A n \in ran' : n <= latest'
      <3>1. steady' => \A n \in ran : n <= latest
        BY <1>7, Zenon DEF IInv, CountsFollowRan
      <3>2. steady' => latest <= number[i]
        BY <1>7
      <3> QED
        BY <1>5, <1>6, <3>1, <3>2
    <2> QED
      BY <1>5, <2>1, <2>2 DEF CountsFollowRan
  <1>4. NoSlotSkipped' /\ RowsFollowStatus'
    <2>1. NoSlotSkipped'
      BY <1>1, <1>5 DEF IInv, NoSlotSkipped
    <2>2. \A row \in Rows : stored[row] \in ran' \cup {0}
      BY <1>5 DEF IInv, RowsFollowStatus
    <2>3. steady' => /\ \A row \in Rows : stored[row] <= latest'
                     /\ \A j \in Invocations :
                           phase'[j] \notin {"idle", "read", "query", "status"} => number[j] <= latest'
      <3>1. steady' => /\ \A row \in Rows : stored[row] <= latest
                       /\ \A j \in Invocations :
                             phase[j] \notin {"idle", "read", "query", "status"} => number[j] <= latest
        BY <1>7, Zenon DEF IInv, RowsFollowStatus
      <3>2. steady' => latest <= number[i]
        BY <1>7
      <3> QED
        BY <1>5, <1>6, <3>1, <3>2
    <2> QED
      BY <1>5, <2>1, <2>2, <2>3 DEF RowsFollowStatus
  <1> QED
    BY <1>2, <1>3, <1>4, NoAlertIInv DEF IInv, TypeOK, PutStatus

\* Another latest row is put by a cycle whose status was written, or is kept.
LEMMA PutRowIInv ==
    ASSUME IInv, NEW i \in Invocations,
           PutTopology(i) \/ PutCoverage(i) \/ PutInsights(i) \/ PutDns(i)
    PROVE  IInv'
  <1> USE DEF tables, topic, own, Goto, PutTopology, PutCoverage, PutInsights,
              PutDns, PutOrKeep, PutRow
  <1>1. number[i] \in ran /\ number[i] \in Nat
    BY DEF IInv, TypeOK, CountsFollowRan
  <1>2. TypeOK'
    BY <1>1 DEF IInv, TypeOK, Phases
  <1>6. /\ UNCHANGED <<latest, ran, steady, number>>
        /\ \A j \in Invocations \ {i} : phase'[j] = phase[j]
        /\ phase[i] \in {"topology", "coverage", "insights", "dns"}
        /\ phase'[i] \in {"coverage", "alerts", "dns", "rollup"}
        /\ \A row \in Rows : stored'[row] \in {stored[row], number[i]}
    BY DEF IInv, TypeOK
  <1>3. CountsFollowRan'
    BY <1>6 DEF IInv, CountsFollowRan
  <1>4. NoSlotSkipped'
    BY <1>6 DEF IInv, NoSlotSkipped
  <1>5. RowsFollowStatus'
    BY <1>1, <1>6 DEF IInv, RowsFollowStatus
  <1> QED
    BY <1>2, <1>3, <1>4, <1>5, NoAlertIInv DEF IInv, TypeOK

\* The messages to send are the transitions since the keys remembered.
LEMMA ReadAlertsIInv ==
    ASSUME IInv, NEW i \in Invocations, ReadAlerts(i) PROVE IInv'
  <1> USE DEF tables, topic, own, Goto, ReadAlerts
  <1>1. TypeOK'
    BY DEF IInv, TypeOK, Phases, Transitions, Messages
  <1>2. CountsFollowRan' /\ NoSlotSkipped' /\ RowsFollowStatus'
    BY DEF IInv, TypeOK, CountsFollowRan, NoSlotSkipped, RowsFollowStatus
  <1>3. AnnouncedFirst'
    BY DEF IInv, TypeOK, AnnouncedFirst, BreachesAreAnnounced, Transitions
  <1>4. BreachesAreAnnounced'
    BY DEF IInv, BreachesAreAnnounced
  <1>5. OneSender'
    <2> SUFFICES ASSUME exact' PROVE OneSender'
      BY DEF OneSender
    <2>1. exact /\ \A j \in Invocations \ {i} : phase[j] # "publish" /\ outbox[j] = {}
      OBVIOUS
    <2>2. \A j \in Invocations : phase[j] # "publish"
      BY <2>1
    <2>3. \A k \in Entities : Open(k) = IF k \in remembered THEN 1 ELSE 0
      BY <2>1, <2>2 DEF IInv, OneSender
    <2>4. /\ phase'[i] = "publish" /\ breaching'[i] = breaching[i]
          /\ outbox'[i] = Transitions(breaching[i], remembered)
          /\ \A j \in Invocations \ {i} : phase'[j] # "publish" /\ outbox'[j] = {}
      BY <2>1 DEF IInv, TypeOK
    <2>5. \A k \in Entities : Open(k)' = Open(k)
      BY DEF Open
    <2>6. ASSUME NEW k \in Entities
          PROVE  /\ [entity |-> k, state |-> "ALARM"] \in outbox'[i] <=>
                        k \in breaching[i] /\ k \notin remembered
                 /\ [entity |-> k, state |-> "OK"] \in outbox'[i] <=>
                        k \notin breaching[i] /\ k \in remembered
      BY <2>4 DEF Transitions
    <2>7. ASSUME NEW k \in Entities, \A m \in outbox'[i] : m.entity # k
          PROVE  k \in breaching[i] <=> k \in remembered
      BY <2>6, <2>7
    <2> QED
      BY <2>3, <2>4, <2>5, <2>6, <2>7 DEF OneSender
  <1> QED
    BY <1>1, <1>2, <1>3, <1>4, <1>5 DEF IInv

\* A message reaches the topic.
LEMMA PublishIInv ==
    ASSUME IInv, NEW i \in Invocations, NEW m \in outbox[i], Publish(i, m)
    PROVE  IInv'
  <1> USE DEF tables, topic, own, Publish
  <1>1. m \in Messages /\ m.entity \in Entities /\ m.state \in {"ALARM", "OK"}
    BY DEF IInv, TypeOK, Messages
  <1>2. /\ alarms' \in [Entities -> Nat]
        /\ oks' \in [Entities -> Nat]
        /\ alarms'[m.entity] = IF m.state = "ALARM" THEN alarms[m.entity] + 1
                                                    ELSE alarms[m.entity]
        /\ oks'[m.entity] = IF m.state = "OK" THEN oks[m.entity] + 1
                                              ELSE oks[m.entity]
        /\ \A k \in Entities \ {m.entity} :
              alarms'[k] = alarms[k] /\ oks'[k] = oks[k]
    BY <1>1 DEF IInv, TypeOK
  <1>3. /\ outbox'[i] = outbox[i] \ {m}
        /\ \A j \in Invocations \ {i} : outbox'[j] = outbox[j]
    BY DEF IInv, TypeOK
  <1>4. TypeOK'
    BY <1>2 DEF IInv, TypeOK
  <1>5. CountsFollowRan' /\ NoSlotSkipped' /\ RowsFollowStatus'
    BY DEF IInv, CountsFollowRan, NoSlotSkipped, RowsFollowStatus
  <1>6. \A k \in Entities : alarms[k] > 0 => alarms'[k] > 0
    BY <1>1, <1>2 DEF IInv, TypeOK
  <1>7. AnnouncedFirst'
    <2>1. ASSUME NEW j \in Invocations, NEW n \in outbox'[j], n.state = "OK"
          PROVE  alarms'[n.entity] > 0
      <3>1. n \in outbox[j] /\ n.entity \in Entities
        BY <1>3, <2>1 DEF IInv, TypeOK, Messages
      <3> QED
        BY <1>6, <2>1, <3>1 DEF IInv, AnnouncedFirst
    <2>2. ASSUME NEW j \in Invocations, phase'[j] = "publish", NEW k \in breaching'[j]
          PROVE  \/ alarms'[k] > 0
                 \/ [entity |-> k, state |-> "ALARM"] \in outbox'[j]
      <3>1. k \in Entities
        BY <1>4, <2>2 DEF TypeOK
      <3>2. alarms[k] > 0 \/ [entity |-> k, state |-> "ALARM"] \in outbox[j]
        BY <2>2 DEF IInv, AnnouncedFirst
      <3>3. CASE m = [entity |-> k, state |-> "ALARM"]
        BY <1>2, <3>1, <3>3 DEF IInv, TypeOK
      <3>4. CASE m # [entity |-> k, state |-> "ALARM"]
        BY <1>3, <1>6, <3>1, <3>2, <3>4
      <3> QED
        BY <3>3, <3>4
    <2> QED
      BY <2>1, <2>2 DEF AnnouncedFirst
  <1>8. BreachesAreAnnounced'
    <2> SUFFICES ASSUME NEW k \in Entities, k \in remembered' \/ oks'[k] > 0
                 PROVE  alarms'[k] > 0
      BY DEF BreachesAreAnnounced
    <2>1. CASE k = m.entity /\ m.state = "OK"
      BY <1>6, <2>1 DEF IInv, AnnouncedFirst
    <2>2. CASE ~(k = m.entity /\ m.state = "OK")
      BY <1>1, <1>2, <1>6, <2>2 DEF IInv, BreachesAreAnnounced
    <2> QED
      BY <2>1, <2>2
  <1>9. OneSender'
    <2> SUFFICES ASSUME exact PROVE OneSender'
      BY DEF OneSender
    <2>1. phase[i] = "publish" /\ UNCHANGED <<phase, breaching, exact, remembered>>
      BY DEF IInv, OneSender
    <2>2. \A j \in Invocations : outbox'[j] # {} => phase'[j] = "publish"
      BY <1>3, <2>1 DEF IInv, OneSender
    <2>3. \A j, l \in Invocations :
              phase'[j] = "publish" /\ phase'[l] = "publish" => j = l
      BY <2>1 DEF IInv, OneSender
    <2>4. \A k \in Entities \ {m.entity} : Open(k)' = Open(k)
      BY <1>2 DEF Open
    <2>5. m = [entity |-> m.entity, state |-> m.state]
      BY <1>1 DEF Messages
    <2>6. CASE m.state = "ALARM"
      <3>1. m.entity \in breaching[i] /\ Open(m.entity) = 0
        <4>1. [entity |-> m.entity, state |-> "ALARM"] \in outbox[i]
          BY <2>5, <2>6
        <4> QED
          BY <1>1, <2>1, <4>1 DEF IInv, OneSender
      <3>2. Open(m.entity)' = 1
        BY <1>1, <1>2, <2>6, <3>1 DEF Open, IInv, TypeOK
      <3>3. [entity |-> m.entity, state |-> "OK"] \notin outbox[i]
        BY <1>1, <2>1, <3>1 DEF IInv, OneSender
      <3>4. \A n \in outbox[i] : n.entity = m.entity => n = m
        BY <1>1, <2>5, <2>6, <3>3 DEF IInv, TypeOK, Messages
      <3>5. ASSUME NEW k \in Entities
            PROVE  /\ [entity |-> k, state |-> "ALARM"] \in outbox'[i] =>
                          k \in breaching[i] /\ Open(k)' = 0
                   /\ [entity |-> k, state |-> "OK"] \in outbox'[i] =>
                          k \notin breaching[i] /\ Open(k)' = 1
                   /\ (\A n \in outbox'[i] : n.entity # k) =>
                          Open(k)' = IF k \in breaching[i] THEN 1 ELSE 0
        <4>1. CASE k = m.entity
          BY <1>3, <3>1, <3>2, <3>4, <4>1
        <4>2. CASE k # m.entity
          <5>1. (\A n \in outbox'[i] : n.entity # k) => \A n \in outbox[i] : n.entity # k
            BY <1>3, <4>2
          <5> QED
            BY <1>3, <2>1, <2>4, <4>2, <5>1 DEF IInv, OneSender
        <4> QED
          BY <4>1, <4>2
      <3> QED
        BY <2>1, <2>2, <2>3, <3>5 DEF OneSender
    <2>7. CASE m.state = "OK"
      <3>1. m.entity \notin breaching[i] /\ Open(m.entity) = 1
        <4>1. [entity |-> m.entity, state |-> "OK"] \in outbox[i]
          BY <2>5, <2>7
        <4> QED
          BY <1>1, <2>1, <4>1 DEF IInv, OneSender
      <3>2. Open(m.entity)' = 0
        BY <1>1, <1>2, <2>7, <3>1 DEF Open, IInv, TypeOK
      <3>3. [entity |-> m.entity, state |-> "ALARM"] \notin outbox[i]
        BY <1>1, <2>1, <3>1 DEF IInv, OneSender
      <3>4. \A n \in outbox[i] : n.entity = m.entity => n = m
        BY <1>1, <2>5, <2>7, <3>3 DEF IInv, TypeOK, Messages
      <3>5. ASSUME NEW k \in Entities
            PROVE  /\ [entity |-> k, state |-> "ALARM"] \in outbox'[i] =>
                          k \in breaching[i] /\ Open(k)' = 0
                   /\ [entity |-> k, state |-> "OK"] \in outbox'[i] =>
                          k \notin breaching[i] /\ Open(k)' = 1
                   /\ (\A n \in outbox'[i] : n.entity # k) =>
                          Open(k)' = IF k \in breaching[i] THEN 1 ELSE 0
        <4>1. CASE k = m.entity
          BY <1>3, <3>1, <3>2, <3>4, <4>1
        <4>2. CASE k # m.entity
          <5>1. (\A n \in outbox'[i] : n.entity # k) => \A n \in outbox[i] : n.entity # k
            BY <1>3, <4>2
          <5> QED
            BY <1>3, <2>1, <2>4, <4>2, <5>1 DEF IInv, OneSender
        <4> QED
          BY <4>1, <4>2
      <3> QED
        BY <2>1, <2>2, <2>3, <3>5 DEF OneSender
    <2> QED
      BY <1>1, <2>6, <2>7
  <1> QED
    BY <1>4, <1>5, <1>7, <1>8, <1>9 DEF IInv

\* The keys remembered are replaced by those this cycle breaches.
LEMMA PutAlertsIInv ==
    ASSUME IInv, NEW i \in Invocations, PutAlerts(i) PROVE IInv'
  <1> USE DEF tables, topic, own, Goto, PutAlerts
  <1>1. TypeOK'
    BY DEF IInv, TypeOK, Phases
  <1>2. CountsFollowRan' /\ NoSlotSkipped' /\ RowsFollowStatus'
    BY DEF IInv, TypeOK, CountsFollowRan, NoSlotSkipped, RowsFollowStatus
  <1>3. AnnouncedFirst' /\ BreachesAreAnnounced'
    BY DEF IInv, TypeOK, AnnouncedFirst, BreachesAreAnnounced
  <1>4. OneSender'
    <2> SUFFICES ASSUME exact PROVE OneSender'
      BY DEF OneSender
    <2>1. \A j \in Invocations : phase'[j] # "publish" /\ outbox'[j] = {}
      BY DEF IInv, TypeOK, OneSender
    <2>2. \A k \in Entities : Open(k) = IF k \in breaching[i] THEN 1 ELSE 0
      BY DEF IInv, OneSender
    <2>3. \A k \in Entities : Open(k)' = Open(k)
      BY DEF Open
    <2> QED
      BY <2>1, <2>2, <2>3 DEF OneSender
  <1> QED
    BY <1>1, <1>2, <1>3, <1>4 DEF IInv

\* A failed alert step leaves what it has sent, and remembers nothing.
LEMMA AlertsFailIInv ==
    ASSUME IInv, NEW i \in Invocations, AlertsFail(i) PROVE IInv'
  <1> USE DEF tables, topic, own, Goto, AlertsFail
  <1>1. TypeOK'
    BY DEF IInv, TypeOK, Phases
  <1>2. CountsFollowRan' /\ NoSlotSkipped' /\ RowsFollowStatus'
    BY DEF IInv, TypeOK, CountsFollowRan, NoSlotSkipped, RowsFollowStatus
  <1>3. AnnouncedFirst' /\ BreachesAreAnnounced' /\ OneSender'
    BY DEF IInv, TypeOK, AnnouncedFirst, BreachesAreAnnounced, OneSender
  <1> QED
    BY <1>1, <1>2, <1>3 DEF IInv

\* An invocation ends, by returning or by a crash.
LEMMA EndIInv ==
    ASSUME IInv, NEW i \in Invocations, Finish(i) \/ Crash(i) PROVE IInv'
  <1> USE DEF tables, topic, own, Goto, Reset, Finish, Crash
  <1>1. TypeOK'
    <2>1. exact' \in BOOLEAN
      BY DEF IInv, TypeOK
    <2>2. /\ phase' \in [Invocations -> Phases]
          /\ number' \in [Invocations -> Nat]
          /\ breaching' \in [Invocations -> SUBSET Entities]
          /\ outbox' \in [Invocations -> SUBSET Messages]
      BY DEF IInv, TypeOK, Phases
    <2> QED
      BY <2>1, <2>2 DEF IInv, TypeOK
  <1>2. CountsFollowRan' /\ NoSlotSkipped' /\ RowsFollowStatus'
    <2>1. /\ UNCHANGED <<latest, stored, ran, steady>>
          /\ phase'[i] = "idle" /\ number'[i] = 0
          /\ \A j \in Invocations \ {i} : phase'[j] = phase[j] /\ number'[j] = number[j]
      BY DEF IInv, TypeOK
    <2>2. CountsFollowRan'
      BY <2>1 DEF IInv, CountsFollowRan
    <2>3. NoSlotSkipped' /\ RowsFollowStatus'
      BY <2>1 DEF IInv, NoSlotSkipped, RowsFollowStatus
    <2> QED
      BY <2>2, <2>3
  <1>3. AnnouncedFirst' /\ BreachesAreAnnounced'
    BY DEF IInv, TypeOK, AnnouncedFirst, BreachesAreAnnounced
  <1>4. OneSender'
    <2> SUFFICES ASSUME exact' PROVE OneSender'
      BY DEF OneSender
    <2>1. exact /\ phase[i] # "publish" /\ outbox[i] = {}
      BY DEF IInv, OneSender
    <2>2. \A j \in Invocations : /\ outbox'[j] = outbox[j]
                                 /\ phase'[j] = "publish" <=> phase[j] = "publish"
                                 /\ phase[j] = "publish" => breaching'[j] = breaching[j]
      BY <2>1 DEF IInv, TypeOK
    <2>3. \A k \in Entities : Open(k)' = Open(k)
      BY DEF Open
    <2>4. remembered' = remembered
      OBVIOUS
    <2>5. OneSender
      BY DEF IInv
    <2> HIDE DEF tables, topic, own, Goto, Reset, Finish, Crash, Open
    <2>6. \A j \in Invocations : outbox'[j] # {} => phase'[j] = "publish"
      BY <2>1, <2>2, <2>5 DEF OneSender
    <2>7. \A j, m \in Invocations :
             phase'[j] = "publish" /\ phase'[m] = "publish" => j = m
      BY <2>1, <2>2, <2>5 DEF OneSender
    <2>8. (\A j \in Invocations : phase'[j] # "publish") =>
             \A k \in Entities : Open(k)' = IF k \in remembered' THEN 1 ELSE 0
      BY <2>1, <2>2, <2>3, <2>4, <2>5 DEF OneSender
    <2>9. ASSUME NEW j \in Invocations, phase'[j] = "publish", NEW k \in Entities
          PROVE  /\ [entity |-> k, state |-> "ALARM"] \in outbox'[j] =>
                        k \in breaching'[j] /\ Open(k)' = 0
                 /\ [entity |-> k, state |-> "OK"] \in outbox'[j] =>
                        k \notin breaching'[j] /\ Open(k)' = 1
                 /\ (\A m \in outbox'[j] : m.entity # k) =>
                        Open(k)' = IF k \in breaching'[j] THEN 1 ELSE 0
      <3>1. /\ phase[j] = "publish" /\ outbox'[j] = outbox[j]
            /\ breaching'[j] = breaching[j] /\ Open(k)' = Open(k)
        BY <2>2, <2>3, <2>9
      <3> QED
        BY <2>1, <2>5, <3>1 DEF OneSender
    <2> QED
      BY <2>6, <2>7, <2>8, <2>9 DEF OneSender
  <1> QED
    BY <1>1, <1>2, <1>3, <1>4 DEF IInv

\* The invariant is inductive: one case for each action.
LEMMA NextIInv == IInv /\ [Next]_vars => IInv'
  <1> SUFFICES ASSUME IInv, [Next]_vars PROVE IInv'
    OBVIOUS
  <1>1. ASSUME NEW i \in Invocations,
               Start(i) \/ ReadCycle(i) \/ Query(i) \/ PutStatus(i)
        PROVE  IInv'
    BY <1>1, BeginIInv, PutStatusIInv
  <1>2. ASSUME NEW i \in Invocations,
               PutTopology(i) \/ PutCoverage(i) \/ PutInsights(i) \/ PutDns(i)
        PROVE  IInv'
    BY <1>2, PutRowIInv
  <1>3. ASSUME NEW i \in Invocations,
               ReadAlerts(i) \/ PutAlerts(i) \/ AlertsFail(i)
        PROVE  IInv'
    BY <1>3, ReadAlertsIInv, PutAlertsIInv, AlertsFailIInv
  <1>4. ASSUME NEW i \in Invocations, NEW m \in outbox[i], Publish(i, m)
        PROVE  IInv'
    BY <1>4, PublishIInv
  <1>5. ASSUME NEW i \in Invocations, Finish(i) \/ Crash(i) PROVE IInv'
    BY <1>5, EndIInv
  <1>6. CASE UNCHANGED vars
    BY <1>6 DEF vars, tables, topic, own, IInv, TypeOK, CountsFollowRan,
       NoSlotSkipped, RowsFollowStatus, AnnouncedFirst, BreachesAreAnnounced,
       OneSender, Open
  <1> QED
    BY <1>1, <1>2, <1>3, <1>4, <1>5, <1>6 DEF Next
-----------------------------------------------------------------------------
\* The strengthened invariant holds in every reachable state.
THEOREM Invariance == Spec => []IInv
  BY InitIInv, NextIInv, PTL DEF Spec

\* Rows, counters and private variables are well typed, and the rotation of
\* the extended categories skips no cycle.
THEOREM CyclesAreInOrder == Spec => [](TypeOK /\ NoSlotSkipped)
  <1>1. IInv => TypeOK /\ NoSlotSkipped
    BY DEF IInv
  <1> QED
    BY <1>1, Invariance, PTL

\* No latest row is of a cycle whose status was never written, wherever
\* invocations are killed and however they overlap, and none is ahead of the
\* status as long as no status was put over that of a later cycle: the order of
\* the puts in writeCycle.
THEOREM RowsAreOfWrittenCycles == Spec => []RowsFollowStatus
  <1>1. IInv => RowsFollowStatus
    BY DEF IInv
  <1> QED
    BY <1>1, Invariance, PTL

\* No entity is remembered or recovered that was never announced.
THEOREM NothingRecoversUnannounced == Spec => []BreachesAreAnnounced
  <1>1. IInv => BreachesAreAnnounced
    BY DEF IInv
  <1> QED
    BY <1>1, Invariance, PTL

\* Without failure or overlap there is one ALARM per breach, and one OK.
THEOREM AlertsAreEdgeTriggered == Spec => []AlertsAlternate
  <1>1. ASSUME IInv, exact, NEW k \in Entities PROVE Open(k) \in {0, 1}
    <2>1. CASE \A i \in Invocations : phase[i] # "publish"
      BY <1>1, <2>1 DEF IInv, OneSender
    <2>2. ASSUME NEW i \in Invocations, phase[i] = "publish"
          PROVE  Open(k) \in {0, 1}
      <3>1. CASE \E m \in outbox[i] : m.entity = k
        <4>1. PICK m \in outbox[i] : m.entity = k
          BY <3>1
        <4>2. m = [entity |-> k, state |-> m.state] /\ m.state \in {"ALARM", "OK"}
          BY <4>1, <1>1 DEF IInv, TypeOK, Messages
        <4>3. \/ [entity |-> k, state |-> "ALARM"] \in outbox[i]
              \/ [entity |-> k, state |-> "OK"] \in outbox[i]
          BY <4>1, <4>2
        <4> QED
          BY <1>1, <2>2, <4>3 DEF IInv, OneSender
      <3>2. CASE \A m \in outbox[i] : m.entity # k
        BY <1>1, <2>2, <3>2 DEF IInv, OneSender
      <3> QED
        BY <3>1, <3>2
    <2> QED
      BY <2>1, <2>2
  <1>2. IInv => AlertsAlternate
    BY <1>1 DEF IInv, OneSender, AlertsAlternate, Open
  <1> QED
    BY <1>2, Invariance, PTL
=============================================================================
