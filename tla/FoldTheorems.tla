---------------------------- MODULE FoldTheorems ----------------------------
(***************************************************************************)
(* Facts about finite sets that several proofs need and the library does   *)
(* not have: minimal members, the largest number, ranks, images, and the   *)
(* sums that MapThenSumSet of the community modules takes, which are folds *)
(* over subsets.                                                           *)
(***************************************************************************)
EXTENDS Integers, FiniteSetsExt, FiniteSetTheorems, WellFoundedInduction, TLAPS

-----------------------------------------------------------------------------
(* Sums over finite sets: the folds of the community modules.              *)

Pick(s) == CHOOSE x \in s : TRUE

\* g is the fold of + over the values of f, for every subset of S.
Folds(g, f, S) ==
    g = [s \in SUBSET S |-> IF s = {} THEN 0 ELSE f[Pick(s)] + g[s \ {Pick(s)}]]

\* A set of subsets of a finite set has a smallest member.
LEMMA FiniteMinimal ==
    ASSUME NEW S, IsFiniteSet(S), NEW T \in SUBSET (SUBSET S), T # {}
    PROVE  \E u \in T : \A v \in T : v \subseteq u => v = u
  <1>1. T \subseteq FiniteSubsetsOf(S)
    <2>1. \A u \in SUBSET S : IsFiniteSet(u)
      BY FS_Subset
    <2> QED
      BY <2>1 DEF FiniteSubsetsOf
  <1>2. IsWellFoundedOn(StrictSubsetOrdering(S), FiniteSubsetsOf(S))
    BY FS_StrictSubsetOrderingWellFounded
  <1>3. PICK u \in T : \A v \in T : ~(<<v, u>> \in StrictSubsetOrdering(S))
    BY <1>1, <1>2, WFMin
  <1>4. \A v \in T : v \subseteq u => v = u
    BY <1>3 DEF StrictSubsetOrdering
  <1> QED
    BY <1>4

LEMMA PickIn == ASSUME NEW s, s # {} PROVE Pick(s) \in s
  BY DEF Pick

\* The defining equation, one subset at a time.
LEMMA FoldsAt ==
    ASSUME NEW S, NEW f, NEW g
    PROVE  Folds(g, f, S) <=>
              /\ g = [s \in SUBSET S |-> g[s]]
              /\ \A s \in SUBSET S : g[s] = IF s = {} THEN 0 ELSE f[Pick(s)] + g[s \ {Pick(s)}]
  BY DEF Folds

\* A set of natural numbers has a least member.
Less == {p \in Nat \X Nat : p[1] < p[2]}

LEMMA LessIsWellFounded == IsWellFoundedOn(Less, Nat)
  BY NatLessThanWellFounded DEF OpToRel, Less

LEMMA LeastNatural ==
    ASSUME NEW B \in SUBSET Nat, B # {}
    PROVE  \E n \in B : \A k \in B : n <= k
  <1>1. PICK n \in B : \A k \in B : ~(<<k, n>> \in Less)
    BY LessIsWellFounded, WFMin
  <1>2. \A k \in B : n <= k
    <2> SUFFICES ASSUME NEW k \in B PROVE n <= k
      OBVIOUS
    <2>1. k \in Nat /\ n \in Nat
      OBVIOUS
    <2>2. ~ (k < n)
      BY <1>1, <2>1 DEF Less
    <2> QED
      BY <2>1, <2>2
  <1> QED
    BY <1>2

\* A finite set has a fold: a smallest subset without one would get one from the
\* fold of what is left when its picked element is taken out.
LEMMA FoldExists ==
    ASSUME NEW S, IsFiniteSet(S), NEW f
    PROVE  \E g : Folds(g, f, S)
  <1> DEFINE Has(n) == \E g : /\ g = [s \in {u \in SUBSET S : Cardinality(u) <= n} |-> g[s]]
                              /\ \A s \in SUBSET S : Cardinality(s) <= n =>
                                    g[s] = IF s = {} THEN 0 ELSE f[Pick(s)] + g[s \ {Pick(s)}]
             Bad == {n \in Nat : ~Has(n)}
  <1>1. \A s \in SUBSET S : IsFiniteSet(s) /\ Cardinality(s) \in Nat
    BY FS_Subset, FS_CardinalityType
  <1>2. \A s \in SUBSET S : (Cardinality(s) = 0 <=> s = {})
    BY <1>1, FS_EmptySet
  <1>3. \A s \in SUBSET S : s # {} => Cardinality(s \ {Pick(s)}) = Cardinality(s) - 1 /\ s \ {Pick(s)} \in SUBSET S
    BY <1>1, PickIn, FS_RemoveElement
  <1>4. Has(0)
    <2> DEFINE g == [s \in {u \in SUBSET S : Cardinality(u) <= 0} |-> 0]
    <2>1. g = [s \in {u \in SUBSET S : Cardinality(u) <= 0} |-> g[s]]
      OBVIOUS
    <2>2. \A s \in SUBSET S : Cardinality(s) <= 0 => s = {} /\ g[s] = 0
      BY <1>1, <1>2
    <2> QED
      BY <2>1, <2>2
  <1>5. ASSUME NEW n \in Nat, Has(n)
        PROVE  Has(n + 1)
    <2>1. PICK g : /\ g = [s \in {u \in SUBSET S : Cardinality(u) <= n} |-> g[s]]
                   /\ \A s \in SUBSET S : Cardinality(s) <= n =>
                        g[s] = IF s = {} THEN 0 ELSE f[Pick(s)] + g[s \ {Pick(s)}]
      BY <1>5
    <2> DEFINE h == [s \in {u \in SUBSET S : Cardinality(u) <= n + 1} |->
                        IF s = {} THEN 0 ELSE f[Pick(s)] + g[s \ {Pick(s)}]]
    <2>2. h = [s \in {u \in SUBSET S : Cardinality(u) <= n + 1} |-> h[s]]
      OBVIOUS
    <2>3. \A s \in SUBSET S : Cardinality(s) <= n + 1 =>
             h[s] = IF s = {} THEN 0 ELSE f[Pick(s)] + g[s \ {Pick(s)}]
      OBVIOUS
    <2> HIDE DEF h
    <2>4. \A s \in SUBSET S : Cardinality(s) <= n => Cardinality(s) <= n + 1
      BY <1>1
    <2>5. \A s \in SUBSET S : Cardinality(s) <= n => h[s] = g[s]
      BY <2>1, <2>3, <2>4
    <2>6. \A s \in SUBSET S : Cardinality(s) <= n + 1 /\ s # {} =>
             s \ {Pick(s)} \in SUBSET S /\ Cardinality(s \ {Pick(s)}) <= n
      BY <1>1, <1>3
    <2>7. \A s \in SUBSET S : Cardinality(s) <= n + 1 =>
             h[s] = IF s = {} THEN 0 ELSE f[Pick(s)] + h[s \ {Pick(s)}]
      BY <2>3, <2>5, <2>6
    <2> QED
      BY <2>2, <2>7
  <1> HIDE DEF Has
  <1>6. \A n \in Nat : Has(n)
    <2> SUFFICES ASSUME Bad # {} PROVE FALSE
      OBVIOUS
    <2>1. PICK n \in Bad : \A k \in Bad : n <= k
      BY LeastNatural
    <2>2. n # 0
      BY <1>4
    <2>3. n - 1 \in Nat /\ n - 1 < n /\ (n - 1) + 1 = n
      BY <2>2
    <2>4. Has(n - 1)
      BY <2>1, <2>3
    <2> QED
      BY <1>5, <2>3, <2>4
  <1>7. Cardinality(S) \in Nat /\ \A s \in SUBSET S : Cardinality(s) <= Cardinality(S)
    BY FS_CardinalityType, FS_Subset
  <1>8. PICK g : /\ g = [s \in {u \in SUBSET S : Cardinality(u) <= Cardinality(S)} |-> g[s]]
                 /\ \A s \in SUBSET S : Cardinality(s) <= Cardinality(S) =>
                       g[s] = IF s = {} THEN 0 ELSE f[Pick(s)] + g[s \ {Pick(s)}]
    BY <1>6, <1>7 DEF Has
  <1>9. {u \in SUBSET S : Cardinality(u) <= Cardinality(S)} = SUBSET S
    BY <1>7
  <1> QED
    BY <1>7, <1>8, <1>9, FoldsAt

\* A fold of integers over a finite set.
IsFold(g, f, S) == IsFiniteSet(S) /\ f \in [S -> Int] /\ Folds(g, f, S)

\* The values of a fold are integers.
LEMMA FoldInt ==
    ASSUME NEW S, NEW f, NEW g, IsFold(g, f, S)
    PROVE  \A s \in SUBSET S : g[s] \in Int
  <1>a. IsFiniteSet(S) /\ f \in [S -> Int] /\ Folds(g, f, S)
    BY DEF IsFold
  <1> USE <1>a
  <1> DEFINE Bad == {s \in SUBSET S : g[s] \notin Int}
  <1> SUFFICES ASSUME Bad # {} PROVE FALSE
    OBVIOUS
  <1>1. PICK s \in Bad : \A v \in Bad : v \subseteq s => v = s
    <2>1. Bad \in SUBSET (SUBSET S)
      OBVIOUS
    <2> HIDE DEF Bad
    <2> QED
      BY <2>1, FiniteMinimal
  <1>2. g[s] = IF s = {} THEN 0 ELSE f[Pick(s)] + g[s \ {Pick(s)}]
    BY FoldsAt
  <1>3. s # {}
    BY <1>2
  <1>4. Pick(s) \in s
    BY <1>3, PickIn
  <1>5. g[s \ {Pick(s)}] \in Int
    BY <1>1, <1>4
  <1> QED
    BY <1>2, <1>3, <1>4, <1>5

\* Any element may be taken out, not only the picked one.
LEMMA FoldStep ==
    ASSUME NEW S, NEW f, NEW g, IsFold(g, f, S)
    PROVE  \A s \in SUBSET S : \A x \in s : g[s] = f[x] + g[s \ {x}]
  <1>a. IsFiniteSet(S) /\ f \in [S -> Int] /\ Folds(g, f, S)
    BY DEF IsFold
  <1> USE <1>a
  <1> DEFINE Bad == {s \in SUBSET S : \E x \in s : g[s] # f[x] + g[s \ {x}]}
  <1> SUFFICES ASSUME Bad # {} PROVE FALSE
    OBVIOUS
  <1>1. PICK s \in Bad : \A v \in Bad : v \subseteq s => v = s
    <2>1. Bad \in SUBSET (SUBSET S)
      OBVIOUS
    <2> HIDE DEF Bad
    <2> QED
      BY <2>1, FiniteMinimal
  <1>2. PICK x \in s : g[s] # f[x] + g[s \ {x}]
    BY <1>1
  <1> DEFINE p == Pick(s)
  <1>3. p \in s /\ g[s] = f[p] + g[s \ {p}]
    BY FoldsAt, PickIn
  <1>4. p # x
    BY <1>2, <1>3
  <1> HIDE DEF p
  <1>5. s \ {p} \in SUBSET S /\ s \ {x} \in SUBSET S /\ s \ {p} \notin Bad /\ s \ {x} \notin Bad
    BY <1>1, <1>2, <1>3
  <1>6. g[s \ {p}] = f[x] + g[(s \ {p}) \ {x}]
    BY <1>2, <1>4, <1>5
  <1>7. g[s \ {x}] = f[p] + g[(s \ {x}) \ {p}]
    BY <1>3, <1>4, <1>5
  <1>8. (s \ {p}) \ {x} = (s \ {x}) \ {p} /\ (s \ {p}) \ {x} \in SUBSET S
    BY <1>5
  <1>9. PICK z \in Int : z = g[(s \ {p}) \ {x}]
    BY <1>8, FoldInt
  <1>10. f[x] \in Int /\ f[p] \in Int
    BY <1>2, <1>3, <1>5
  <1>11. g[s] = f[p] + (f[x] + z)
    BY <1>3, <1>6, <1>9
  <1>12. g[s \ {x}] = f[p] + z
    BY <1>7, <1>8, <1>9
  <1> QED
    BY <1>2, <1>10, <1>11, <1>12

LEMMA FoldEmpty == ASSUME NEW S, NEW f, NEW g, Folds(g, f, S) PROVE g[{}] = 0
  BY FoldsAt

\* The fold of a disjoint union is the sum of the folds.
Additive(g, S) == \A a, b \in SUBSET S : a \cap b = {} => g[a \cup b] = g[a] + g[b]

LEMMA FoldUnion ==
    ASSUME NEW S, NEW f, NEW g, IsFold(g, f, S)
    PROVE  Additive(g, S)
  <1> SUFFICES ASSUME NEW b \in SUBSET S
               PROVE  \A a \in SUBSET S : a \cap b = {} => g[a \cup b] = g[a] + g[b]
    BY DEF Additive
  <1>a. IsFiniteSet(S) /\ f \in [S -> Int] /\ Folds(g, f, S)
    BY DEF IsFold
  <1> USE <1>a
  <1> DEFINE Bad == {a \in SUBSET S : a \cap b = {} /\ g[a \cup b] # g[a] + g[b]}
  <1> SUFFICES ASSUME Bad # {} PROVE FALSE
    OBVIOUS
  <1>0. \A s \in SUBSET S : g[s] \in Int
    BY FoldInt
  <1>1. PICK a \in Bad : \A v \in Bad : v \subseteq a => v = a
    <2>1. Bad \in SUBSET (SUBSET S)
      OBVIOUS
    <2> HIDE DEF Bad
    <2> QED
      BY <2>1, FiniteMinimal
  <1>2. a # {}
    <2>1. a = {} => a \cup b = b /\ g[a] = 0
      <3>1. g[{}] = 0
        BY FoldEmpty
      <3> QED
        BY <3>1
    <2>2. g[b] \in Int /\ g[a \cup b] # g[a] + g[b]
      BY <1>0, <1>1
    <2> HIDE DEF Bad
    <2>3. a = {} => g[a \cup b] = g[b] /\ g[a] + g[b] = g[b]
      BY <2>1, <2>2
    <2> QED
      BY <2>2, <2>3
  <1>3. PICK x : x \in a
    BY <1>2
  <1>4. x \in S /\ f[x] \in Int /\ a \ {x} \in SUBSET S /\ a \ {x} \notin Bad
    BY <1>1, <1>3
  <1>5. g[(a \ {x}) \cup b] = g[a \ {x}] + g[b]
    BY <1>1, <1>4
  <1>6. g[a] = f[x] + g[a \ {x}]
    BY <1>3, FoldStep
  <1>7. g[a \cup b] = f[x] + g[(a \cup b) \ {x}]
    BY <1>3, FoldStep
  <1>8. (a \cup b) \ {x} = (a \ {x}) \cup b
    BY <1>1, <1>3
  <1>9. g[a \cup b] # g[a] + g[b] /\ g[a \ {x}] \in Int /\ g[b] \in Int
    BY <1>0, <1>1, <1>4
  <1>10. g[a \cup b] = f[x] + (g[a \ {x}] + g[b])
    BY <1>5, <1>7, <1>8
  <1> QED
    BY <1>4, <1>6, <1>9, <1>10

\* Two folds of functions that agree on a set agree on it.
LEMMA FoldAgree ==
    ASSUME NEW S, IsFiniteSet(S), NEW f, NEW g, Folds(g, f, S),
           NEW T, NEW e, NEW h, Folds(h, e, T),
           NEW U \in SUBSET (S \cap T), \A x \in U : f[x] = e[x]
    PROVE  g[U] = h[U]
  <1> DEFINE Bad == {s \in SUBSET U : g[s] # h[s]}
  <1> SUFFICES ASSUME Bad # {} PROVE FALSE
    OBVIOUS
  <1>0. IsFiniteSet(U)
    BY FS_Subset
  <1>1. PICK s \in Bad : \A v \in Bad : v \subseteq s => v = s
    <2>1. Bad \in SUBSET (SUBSET U)
      OBVIOUS
    <2> HIDE DEF Bad
    <2> QED
      BY <1>0, <2>1, FiniteMinimal
  <1>2. g[s] = IF s = {} THEN 0 ELSE f[Pick(s)] + g[s \ {Pick(s)}]
    BY FoldsAt
  <1>3. h[s] = IF s = {} THEN 0 ELSE e[Pick(s)] + h[s \ {Pick(s)}]
    BY FoldsAt
  <1>4. s # {}
    BY <1>1, <1>2, <1>3
  <1>5. Pick(s) \in s /\ f[Pick(s)] = e[Pick(s)]
    BY <1>4, PickIn
  <1>6. g[s \ {Pick(s)}] = h[s \ {Pick(s)}]
    BY <1>1, <1>5
  <1> QED
    BY <1>1, <1>2, <1>3, <1>4, <1>5, <1>6

\* Adding up the parts gives the whole: k sorts the members of S into the
\* members of P, and w is the fold of each part.
Part(k, S, p) == {x \in S : k[x] = p}

LEMMA FoldParts ==
    ASSUME NEW S, NEW f, NEW g, IsFold(g, f, S),
           NEW P, NEW w, NEW h, IsFold(h, w, P),
           NEW k \in [S -> P], \A p \in P : w[p] = g[Part(k, S, p)]
    PROVE  h[P] = g[S]
  <1>a. IsFiniteSet(P) /\ w \in [P -> Int] /\ Folds(g, f, S) /\ Folds(h, w, P)
    BY DEF IsFold
  <1>0. \A s \in SUBSET S : g[s] \in Int
    BY FoldInt
  <1>1. ASSUME NEW Q \in SUBSET P, NEW p \in Q
        PROVE  h[Q] = w[p] + h[Q \ {p}]
    BY FoldStep
  <1>2. \A a, b \in SUBSET S : a \cap b = {} => g[a \cup b] = g[a] + g[b]
    <2>1. Additive(g, S)
      BY FoldUnion
    <2> QED
      BY <2>1 DEF Additive
  <1> DEFINE Of(Q) == {x \in S : k[x] \in Q}
             Bad == {Q \in SUBSET P : h[Q] # g[Of(Q)]}
  <1>3. Bad = {}
    <2> SUFFICES ASSUME Bad # {} PROVE FALSE
      OBVIOUS
    <2>1. PICK Q \in Bad : \A v \in Bad : v \subseteq Q => v = Q
      <3>1. Bad \in SUBSET (SUBSET P)
        OBVIOUS
      <3> HIDE DEF Bad
      <3> QED
        BY <1>a, <3>1, FiniteMinimal
    <2>2. Q # {}
      <3>1. g[{}] = 0 /\ h[{}] = 0
        BY <1>a, FoldEmpty
      <3>2. Of({}) = {}
        OBVIOUS
      <3> QED
        BY <2>1, <3>1, <3>2
    <2>3. PICK p : p \in Q
      BY <2>2
    <2>4. h[Q] = w[p] + h[Q \ {p}]
      BY <1>1, <2>3
    <2>5. h[Q \ {p}] = g[Of(Q \ {p})]
      <3>1. Q \ {p} \in SUBSET P /\ Q \ {p} \subseteq Q /\ Q \ {p} # Q
        BY <2>1, <2>3
      <3>2. Q \ {p} \notin Bad
        BY <2>1, <3>1
      <3> QED
        BY <3>1, <3>2
    <2>6. w[p] = g[Of({p})]
      <3>1. Of({p}) = {x \in S : k[x] = p}
        OBVIOUS
      <3> QED
        BY <2>3, <3>1 DEF Part
    <2>7. Of({p}) \cap Of(Q \ {p}) = {} /\ Of({p}) \cup Of(Q \ {p}) = Of(Q)
      BY <2>3
    <2>8. Of({p}) \in SUBSET S /\ Of(Q \ {p}) \in SUBSET S
      OBVIOUS
    <2>9. g[Of(Q)] = g[Of({p})] + g[Of(Q \ {p})]
      BY <1>2, <2>7, <2>8
    <2> QED
      BY <2>1, <2>4, <2>5, <2>6, <2>9
  <1>4. Of(P) = S
    OBVIOUS
  <1> QED
    BY <1>3, <1>4

\* A fold of natural numbers is one, and of zeros is zero.
LEMMA FoldNat ==
    ASSUME NEW S, NEW f, NEW g, IsFold(g, f, S), \A x \in S : f[x] \in Nat
    PROVE  \A s \in SUBSET S : g[s] \in Nat
  <1>a. IsFiniteSet(S) /\ Folds(g, f, S)
    BY DEF IsFold
  <1> DEFINE Bad == {s \in SUBSET S : g[s] \notin Nat}
  <1> SUFFICES ASSUME Bad # {} PROVE FALSE
    OBVIOUS
  <1>1. PICK s \in Bad : \A v \in Bad : v \subseteq s => v = s
    <2>1. Bad \in SUBSET (SUBSET S)
      OBVIOUS
    <2> HIDE DEF Bad
    <2> QED
      BY <1>a, <2>1, FiniteMinimal
  <1>2. s \in SUBSET S /\ g[s] = IF s = {} THEN 0 ELSE f[Pick(s)] + g[s \ {Pick(s)}]
    BY <1>a, FoldsAt
  <1>3. s # {}
    BY <1>2
  <1>4. Pick(s) \in s
    BY <1>3, PickIn
  <1>5. g[s \ {Pick(s)}] \in Nat /\ f[Pick(s)] \in Nat
    BY <1>1, <1>2, <1>4
  <1> QED
    BY <1>2, <1>3, <1>5

LEMMA FoldZero ==
    ASSUME NEW S, NEW f, NEW g, IsFold(g, f, S), NEW U \in SUBSET S, \A x \in U : f[x] = 0
    PROVE  g[U] = 0
  <1>a. IsFiniteSet(S) /\ Folds(g, f, S)
    BY DEF IsFold
  <1> DEFINE Bad == {s \in SUBSET U : g[s] # 0}
  <1> SUFFICES ASSUME Bad # {} PROVE FALSE
    OBVIOUS
  <1>0. IsFiniteSet(U)
    BY <1>a, FS_Subset
  <1>1. PICK s \in Bad : \A v \in Bad : v \subseteq s => v = s
    <2>1. Bad \in SUBSET (SUBSET U)
      OBVIOUS
    <2> HIDE DEF Bad
    <2> QED
      BY <1>0, <2>1, FiniteMinimal
  <1>2. s \in SUBSET S /\ g[s] = IF s = {} THEN 0 ELSE f[Pick(s)] + g[s \ {Pick(s)}]
    BY <1>a, FoldsAt
  <1>3. s # {}
    BY <1>2
  <1>4. Pick(s) \in s
    BY <1>3, PickIn
  <1>5. g[s \ {Pick(s)}] = 0 /\ f[Pick(s)] = 0
    BY <1>1, <1>2, <1>4
  <1> QED
    BY <1>1, <1>2, <1>3, <1>5

\* The fold of a sum is the sum of the folds.
LEMMA FoldAdd ==
    ASSUME NEW S, NEW f, NEW g, IsFold(g, f, S), NEW e, NEW h, IsFold(h, e, S),
           NEW d, NEW i, IsFold(i, d, S), \A x \in S : d[x] = f[x] + e[x]
    PROVE  i[S] = g[S] + h[S]
  <1>a. /\ IsFiniteSet(S) /\ Folds(g, f, S) /\ Folds(h, e, S) /\ Folds(i, d, S)
        /\ \A x \in S : f[x] \in Int /\ e[x] \in Int
    BY DEF IsFold
  <1> DEFINE Bad == {s \in SUBSET S : i[s] # g[s] + h[s]}
  <1>b. \A s \in SUBSET S : g[s] \in Int /\ h[s] \in Int
    BY FoldInt
  <1>z. Bad = {}
    <2> SUFFICES ASSUME Bad # {} PROVE FALSE
      OBVIOUS
    <2>1. PICK s \in Bad : \A v \in Bad : v \subseteq s => v = s
      <3>1. Bad \in SUBSET (SUBSET S)
        OBVIOUS
      <3> HIDE DEF Bad
      <3> QED
        BY <1>a, <3>1, FiniteMinimal
    <2>2. /\ s \in SUBSET S
          /\ g[s] = IF s = {} THEN 0 ELSE f[Pick(s)] + g[s \ {Pick(s)}]
          /\ h[s] = IF s = {} THEN 0 ELSE e[Pick(s)] + h[s \ {Pick(s)}]
          /\ i[s] = IF s = {} THEN 0 ELSE d[Pick(s)] + i[s \ {Pick(s)}]
      BY <1>a, FoldsAt
    <2>3. s # {}
      BY <2>1, <2>2
    <2>4. Pick(s) \in s /\ s \ {Pick(s)} \in SUBSET S
      BY <2>2, <2>3, PickIn
    <2>5. i[s \ {Pick(s)}] = g[s \ {Pick(s)}] + h[s \ {Pick(s)}] /\ d[Pick(s)] = f[Pick(s)] + e[Pick(s)]
      BY <2>1, <2>2, <2>4
    <2>6. /\ g[s \ {Pick(s)}] \in Int /\ h[s \ {Pick(s)}] \in Int
          /\ f[Pick(s)] \in Int /\ e[Pick(s)] \in Int
      BY <1>a, <1>b, <2>2, <2>4
    <2>7. i[s] = g[s] + h[s]
      BY <2>2, <2>3, <2>5, <2>6
    <2> QED
      BY <2>1, <2>7
  <1> QED
    BY <1>z

LEMMA ImageIsFinite ==
    ASSUME NEW S, IsFiniteSet(S), NEW f
    PROVE  IsFiniteSet({f[x] : x \in S})
  <1> DEFINE T == {f[x] : x \in S}
             g == [x \in S |-> f[x]]
  <1>1. g \in Surjection(S, T)
    BY DEF Surjection
  <1> QED
    BY <1>1, FS_Surjection

\* The sum of a function's values is a fold as well.
SumOver(w, P) == MapThenSumSet(LAMBDA p : w[p], P)

LEMMA SumIter ==
    ASSUME NEW P, NEW w
    PROVE  \E it : /\ it = CHOOSE g : g = [s \in SUBSET P |-> IF s = {} THEN 0 ELSE w[Pick(s)] + g[s \ {Pick(s)}]]
                   /\ SumOver(w, P) = it[P]
  BY DEF SumOver, MapThenSumSet, MapThenFoldSet, Pick

LEMMA SumIsFold ==
    ASSUME NEW P, IsFiniteSet(P), NEW w \in [P -> Int]
    PROVE  \E g : IsFold(g, w, P) /\ SumOver(w, P) = g[P]
  <1>1. PICK h : Folds(h, w, P)
    BY FoldExists
  <1>2. PICK it : /\ it = CHOOSE g : g = [s \in SUBSET P |-> IF s = {} THEN 0 ELSE w[Pick(s)] + g[s \ {Pick(s)}]]
                  /\ SumOver(w, P) = it[P]
    BY SumIter
  <1>3. Folds(it, w, P)
    BY <1>1, <1>2 DEF Folds
  <1> QED
    BY <1>2, <1>3 DEF IsFold

-----------------------------------------------------------------------------
(* The largest of a finite set of numbers, and pairs.                      *)

Covers(T, S) == T \in SUBSET (SUBSET S) /\ T # {}
HasMinimal(T) == \E u \in T : \A v \in T : v \subseteq u => v = u

LEMMA CoversMinimal == ASSUME NEW S, IsFiniteSet(S), NEW T, Covers(T, S) PROVE HasMinimal(T)
  BY FiniteMinimal DEF Covers, HasMinimal

LEMMA MaxOf ==
    ASSUME NEW A \in SUBSET Nat, IsFiniteSet(A), A # {}
    PROVE  Max(A) \in A /\ \A a \in A : a <= Max(A)
  <1> DEFINE Above(a) == {z \in A : z > a}
             T == {Above(a) : a \in A}
  <1>1. Covers(T, A)
    BY DEF Covers
  <1>2. HasMinimal(T)
    <2> HIDE DEF T
    <2> QED
      BY <1>1, CoversMinimal, Zenon
  <1>3. PICK u \in T : \A v \in T : v \subseteq u => v = u
    BY <1>2 DEF HasMinimal
  <1>4. PICK a \in A : u = Above(a)
    BY <1>3
  <1>5. ASSUME NEW b \in A PROVE a >= b
    <2> SUFFICES ASSUME b > a PROVE FALSE
      BY <1>4
    <2>3. a \in Nat /\ b \in Nat
      BY <1>4
    <2>4. \A z \in A : z \in Nat
      OBVIOUS
    <2>5. \A z \in A : z > b => z > a
      BY <2>3, <2>4
    <2>6. ~ (b > b)
      BY <2>3
    <2>1. Above(b) \subseteq Above(a) /\ b \in Above(a) /\ b \notin Above(b)
      BY <2>5, <2>6
    <2>2. Above(b) \in T
      OBVIOUS
    <2> HIDE DEF T, Above
    <2> QED
      BY <1>3, <1>4, <2>1, <2>2
  <1>6. \E y \in A : \A b \in A : y >= b
    BY <1>4, <1>5
  <1> QED
    BY <1>6 DEF Max

LEMMA PairHasTwo ==
  ASSUME NEW a, NEW b, a # b
  PROVE  Cardinality({a, b}) = 2
  <1>1. IsFiniteSet({a}) /\ Cardinality({a}) = 1
    BY FS_Singleton
  <1>2. {a, b} = {a} \cup {b} /\ b \notin {a}
    OBVIOUS
  <1> QED
    BY <1>1, <1>2, FS_AddElement

-----------------------------------------------------------------------------
(* Orders of finite sets: pairs <<i, j>> where i is j or comes before it.  *)

IsOrder(R, S) ==
    /\ \A i, j \in S : <<i, j>> \in R \/ <<j, i>> \in R
    /\ \A i, j \in S : <<i, j>> \in R /\ <<j, i>> \in R => i = j
    /\ \A i, j, k \in S : <<i, j>> \in R /\ <<j, k>> \in R => <<i, k>> \in R

PlaceIn(S, R, i) == Cardinality({j \in S : <<j, i>> \in R})

\* Places number the members from one, what comes before first.
LEMMA PlacesNumber ==
    ASSUME NEW S, IsFiniteSet(S), NEW R, IsOrder(R, S)
    PROVE  /\ \A i \in S : PlaceIn(S, R, i) \in 1 .. Cardinality(S)
           /\ \A i, j \in S : <<i, j>> \in R /\ i # j => PlaceIn(S, R, i) < PlaceIn(S, R, j)
           /\ \A n \in 1 .. Cardinality(S) : \E i \in S : PlaceIn(S, R, i) = n
  <1> DEFINE Upto(i) == {j \in S : <<j, i>> \in R}
             place == [i \in S |-> Cardinality(Upto(i))]
             N == 1 .. Cardinality(S)
  <1>1. Cardinality(S) \in Nat /\ IsFiniteSet(N) /\ Cardinality(N) = Cardinality(S)
    BY FS_CardinalityType, FS_Interval
  <1>2. \A i \in S : /\ Upto(i) \in SUBSET S /\ IsFiniteSet(Upto(i)) /\ Cardinality(Upto(i)) \in Nat
                     /\ Cardinality(Upto(i)) <= Cardinality(S)
    BY FS_Subset, FS_CardinalityType
  <1>3. \A i \in S : Cardinality(Upto(i)) \in N
    <2>1. \A i \in S : Upto(i) # {}
      BY DEF IsOrder
    <2> HIDE DEF Upto
    <2>2. \A i \in S : Cardinality(Upto(i)) # 0
      BY <1>2, <2>1, FS_EmptySet
    <2> QED
      BY <1>1, <1>2, <2>2
  <1>4. ASSUME NEW i \in S, NEW j \in S, <<i, j>> \in R, i # j
        PROVE  Cardinality(Upto(i)) < Cardinality(Upto(j))
    <2>1. Upto(i) \in SUBSET Upto(j)
      BY <1>4 DEF IsOrder
    <2>2. j \notin Upto(i) /\ j \in Upto(j)
      BY <1>4 DEF IsOrder
    <2> HIDE DEF Upto
    <2>3. /\ Cardinality(Upto(i)) <= Cardinality(Upto(j))
          /\ Cardinality(Upto(i)) # Cardinality(Upto(j))
      BY <1>2, <2>1, <2>2, FS_Subset
    <2> QED
      BY <1>2, <2>3
  <1>5. \A i, j \in S : Cardinality(Upto(i)) = Cardinality(Upto(j)) => i = j
    <2>1. \A i, j \in S : <<i, j>> \in R \/ <<j, i>> \in R
      BY DEF IsOrder
    <2> HIDE DEF Upto
    <2>2. ASSUME NEW i \in S, NEW j \in S, i # j, <<i, j>> \in R
          PROVE  Cardinality(Upto(i)) # Cardinality(Upto(j))
      <3>1. Cardinality(Upto(i)) < Cardinality(Upto(j))
        BY <1>4, <2>2
      <3> QED
        BY <1>2, <3>1
    <2> QED
      BY <2>1, <2>2
  <1> HIDE DEF Upto
  <1>6. place \in Injection(S, N)
    BY <1>3, <1>5 DEF Injection, IsInjective
  <1>7. place \in Surjection(S, N)
    <2> HIDE DEF place, N
    <2> QED
      BY <1>1, <1>6, FS_Injection
  <1>8. \A n \in N : \E i \in S : Cardinality(Upto(i)) = n
    BY <1>7 DEF Surjection
  <1> QED
    BY <1>3, <1>4, <1>8 DEF PlaceIn, Upto

\* Pairs <<i, j>> where i compares less than j.
IsComparison(W, S) ==
    /\ \A i, j \in S : <<i, j>> \in W => <<j, i>> \notin W
    /\ \A i, j, k \in S : <<i, k>> \in W => <<i, j>> \in W \/ <<j, k>> \in W

\* A stable sort leaves what compares equal in the order of the positions.
Stable(W, n) ==
    {q \in (1 .. n) \X (1 .. n) : <<q[1], q[2]>> \in W \/ (<<q[2], q[1]>> \notin W /\ q[1] <= q[2])}

LEMMA StableIsOrder ==
    ASSUME NEW n \in Nat, NEW W, IsComparison(W, 1 .. n)
    PROVE  /\ IsOrder(Stable(W, n), 1 .. n)
           /\ \A i, j \in 1 .. n : <<i, j>> \in Stable(W, n) <=> <<i, j>> \in W \/ (<<j, i>> \notin W /\ i <= j)
  <1> DEFINE S == 1 .. n
             R == Stable(W, n)
  <1>1. \A i, j \in S : <<i, j>> \in R <=> <<i, j>> \in W \/ (<<j, i>> \notin W /\ i <= j)
    BY DEF Stable
  <1>2. /\ \A i, j \in S : i <= j \/ j <= i
        /\ \A i, j \in S : i <= j /\ j <= i => i = j
        /\ \A i, j, k \in S : i <= j /\ j <= k => i <= k
    OBVIOUS
  <1> HIDE DEF R, S
  <1>3. /\ \A i, j \in S : <<i, j>> \in R \/ <<j, i>> \in R
        /\ \A i, j \in S : <<i, j>> \in R /\ <<j, i>> \in R => i = j
    BY <1>1, <1>2 DEF IsComparison, S
  <1>4. ASSUME NEW i \in S, NEW j \in S, NEW k \in S, <<i, j>> \in R, <<j, k>> \in R
        PROVE  <<i, k>> \in R
    <2>1. CASE <<i, j>> \in W \/ <<j, k>> \in W
      BY <1>1, <1>4, <2>1 DEF IsComparison, S
    <2>2. CASE ~(<<i, j>> \in W \/ <<j, k>> \in W)
      BY <1>1, <1>2, <1>4, <2>2 DEF IsComparison, S
    <2> QED
      BY <2>1, <2>2
  <1> QED
    BY <1>1, <1>3, <1>4 DEF IsOrder, R, S

\* A permutation of the positions.
Permutes(p, D) ==
    /\ \A m \in D : p[m] \in D
    /\ \A m, l \in D : p[m] = p[l] => m = l
    /\ \A i \in D : \E m \in D : p[m] = i

\* What has each place, when each place is given to what has it, is a sorted permutation.
LEMMA SortedAre ==
    ASSUME NEW n \in Nat, NEW W, IsComparison(W, 1 .. n), NEW p,
           \A m \in 1 .. n : (\E i \in 1 .. n : PlaceIn(1 .. n, Stable(W, n), i) = m)
                             => p[m] \in 1 .. n /\ PlaceIn(1 .. n, Stable(W, n), p[m]) = m
    PROVE  /\ Permutes(p, 1 .. n)
           /\ \A m, l \in 1 .. n : l < m => <<p[m], p[l]>> \notin W
  <1> DEFINE S == 1 .. n
             R == Stable(W, n)
             C(i) == PlaceIn(S, R, i)
  <1>0. IsFiniteSet(S) /\ Cardinality(S) = n
    BY FS_Interval
  <1>1. IsOrder(R, S)
    BY StableIsOrder
  <1>2. \A i, j \in S : <<i, j>> \in R <=> <<i, j>> \in W \/ (<<j, i>> \notin W /\ i <= j)
    BY StableIsOrder
  <1>a. \A m \in S : (\E i \in S : C(i) = m) => p[m] \in S /\ C(p[m]) = m
    OBVIOUS
  <1> HIDE DEF R, C
  <1>3. /\ \A i \in S : C(i) \in S
        /\ \A i, j \in S : <<i, j>> \in R /\ i # j => C(i) < C(j)
        /\ \A m \in S : \E i \in S : C(i) = m
    <2>1. /\ \A i \in S : PlaceIn(S, R, i) \in 1 .. Cardinality(S)
          /\ \A i, j \in S : <<i, j>> \in R /\ i # j => PlaceIn(S, R, i) < PlaceIn(S, R, j)
          /\ \A m \in 1 .. Cardinality(S) : \E i \in S : PlaceIn(S, R, i) = m
      <3> HIDE DEF S
      <3> QED
        BY <1>0, <1>1, PlacesNumber
    <2> QED
      BY <1>0, <2>1 DEF C
  <1>4. \A m \in S : p[m] \in S /\ C(p[m]) = m
    BY <1>a, <1>3
  <1>5. \A i \in S : p[C(i)] = i
    <2> SUFFICES ASSUME NEW i \in S PROVE p[C(i)] = i
      OBVIOUS
    <2>1. C(i) \in S /\ p[C(i)] \in S /\ C(p[C(i)]) = C(i)
      BY <1>3, <1>4
    <2>2. <<i, p[C(i)]>> \in R \/ <<p[C(i)], i>> \in R
      BY <1>1, <2>1 DEF IsOrder
    <2>3. \A x, y \in S : C(x) = C(y) => ~(C(x) < C(y)) /\ ~(C(y) < C(x))
      BY <1>3
    <2> HIDE DEF S
    <2> QED
      BY <1>3, <2>1, <2>2, <2>3
  <1>6. ASSUME NEW m \in S, NEW l \in S, l < m PROVE <<p[m], p[l]>> \notin W
    <2>1. p[m] \in S /\ p[l] \in S /\ ~(C(p[m]) < C(p[l])) /\ p[m] # p[l]
      BY <1>4, <1>6
    <2>2. <<p[m], p[l]>> \notin R
      BY <1>3, <2>1
    <2> QED
      BY <1>2, <2>1, <2>2
  <1>7. \A m, l \in S : p[m] = p[l] => m = l
    BY <1>4
  <1>8. \A i \in S : \E m \in S : p[m] = i
    BY <1>3, <1>5
  <1> QED
    BY <1>4, <1>6, <1>7, <1>8 DEF Permutes

-----------------------------------------------------------------------------
(* The order of a finite set of numbers.                                   *)

Rank(A, j) == Cardinality({k \in A : k <= j})

\* Ranks number the members from one.
LEMMA RanksNumber ==
    ASSUME NEW A \in SUBSET Nat, IsFiniteSet(A)
    PROVE  /\ \A j \in A : Rank(A, j) \in 1 .. Cardinality(A)
           /\ \A i, j \in A : Rank(A, i) = Rank(A, j) => i = j
           /\ \A n \in 1 .. Cardinality(A) : \E j \in A : Rank(A, j) = n
  <1> DEFINE R == {q \in A \X A : q[1] <= q[2]}
  <1>1. \A i, j \in A : <<i, j>> \in R <=> i <= j
    OBVIOUS
  <1>2. \A j \in A : Rank(A, j) = PlaceIn(A, R, j)
    <2>1. \A j \in A : {k \in A : k <= j} = {k \in A : <<k, j>> \in R}
      BY <1>1
    <2> HIDE DEF R
    <2> QED
      BY <2>1 DEF Rank, PlaceIn
  <1> HIDE DEF R
  <1>3. IsOrder(R, A)
    BY <1>1 DEF IsOrder
  <1>4. /\ \A i \in A : PlaceIn(A, R, i) \in 1 .. Cardinality(A)
        /\ \A i, j \in A : <<i, j>> \in R /\ i # j => PlaceIn(A, R, i) < PlaceIn(A, R, j)
        /\ \A n \in 1 .. Cardinality(A) : \E i \in A : PlaceIn(A, R, i) = n
    BY ONLY IsFiniteSet(A), <1>3, PlacesNumber
  <1>5. ASSUME NEW i \in A, NEW j \in A, i < j PROVE Rank(A, i) # Rank(A, j)
    <2>1. <<i, j>> \in R /\ i # j
      <3>1. i \in Nat /\ j \in Nat /\ i <= j /\ i # j
        BY <1>5
      <3> QED
        BY <1>1, <3>1
    <2>2. PlaceIn(A, R, i) < PlaceIn(A, R, j)
      BY <1>4, <2>1
    <2>3. PlaceIn(A, R, i) # PlaceIn(A, R, j)
      BY <1>4, <2>2
    <2> QED
      BY <1>2, <2>3
  <1>6. \A i, j \in A : Rank(A, i) = Rank(A, j) => i = j
    <2>1. \A i, j \in A : i < j \/ j < i \/ i = j
      OBVIOUS
    <2> QED
      BY <1>5, <2>1
  <1> QED
    BY <1>2, <1>4, <1>6

\* A larger member has the higher rank.
LEMMA RanksRise ==
    ASSUME NEW A \in SUBSET Nat, IsFiniteSet(A), NEW i \in A, NEW j \in A, i < j
    PROVE  Rank(A, i) < Rank(A, j)
  <1> DEFINE Upto(k) == {m \in A : m <= k}
  <1>1. i \in Nat /\ j \in Nat /\ i # j /\ \A m \in A : m <= i => m <= j
    OBVIOUS
  <1>2. Upto(i) \subseteq Upto(j) /\ Upto(i) \subseteq A /\ Upto(j) \subseteq A
    BY <1>1
  <1> HIDE DEF Upto
  <1>3. /\ IsFiniteSet(Upto(i)) /\ IsFiniteSet(Upto(j))
        /\ Cardinality(Upto(i)) \in Nat /\ Cardinality(Upto(j)) \in Nat
        /\ Cardinality(Upto(i)) <= Cardinality(Upto(j))
    BY <1>2, FS_Subset, FS_CardinalityType
  <1>4. Rank(A, i) = Cardinality(Upto(i)) /\ Rank(A, j) = Cardinality(Upto(j))
    BY DEF Rank, Upto
  <1>5. Rank(A, i) # Rank(A, j)
    BY <1>1, RanksNumber
  <1> QED
    BY <1>3, <1>4, <1>5
=============================================================================
