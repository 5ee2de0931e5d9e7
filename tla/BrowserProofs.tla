--------------------------- MODULE BrowserProofs ----------------------------
(***************************************************************************)
(* Proofs about the browser: logins of any number of tabs at one set of    *)
(* cookies, any number of overlapping fetches of a polled page, and the    *)
(* topology page over snapshots of any size.                               *)
(***************************************************************************)
EXTENDS Browser, TopologyPage, FoldTheorems, SequenceTheorems, TLAPS

-----------------------------------------------------------------------------
(* A value of a set of edges is a sum over them.                           *)

LEMMA ValueIter ==
    ASSUME NEW E, NEW m
    PROVE  \E it : /\ it = CHOOSE g : g = [s \in SUBSET E |-> IF s = {} THEN 0 ELSE Pick(s)[m] + g[s \ {Pick(s)}]]
                   /\ Value(E, m) = it[E]
  BY DEF Value, MapThenSumSet, MapThenFoldSet, Pick

LEMMA ValueFolds ==
    ASSUME NEW E, NEW m, NEW h, Folds(h, [e \in E |-> e[m]], E)
    PROVE  \E g : Folds(g, [e \in E |-> e[m]], E) /\ Value(E, m) = g[E]
  <1>1. PICK it : /\ it = CHOOSE g : g = [s \in SUBSET E |-> IF s = {} THEN 0 ELSE Pick(s)[m] + g[s \ {Pick(s)}]]
                  /\ Value(E, m) = it[E]
    BY ValueIter
  <1>2. ASSUME NEW g
        PROVE  Folds(g, [e \in E |-> e[m]], E)
                 <=> g = [s \in SUBSET E |-> IF s = {} THEN 0 ELSE Pick(s)[m] + g[s \ {Pick(s)}]]
    <2>1. \A s \in SUBSET E : s # {} => [e \in E |-> e[m]][Pick(s)] = Pick(s)[m]
      BY DEF Pick
    <2> QED
      BY <2>1 DEF Folds
  <1>3. it = [s \in SUBSET E |-> IF s = {} THEN 0 ELSE Pick(s)[m] + it[s \ {Pick(s)}]]
    BY <1>1, <1>2
  <1> QED
    BY <1>1, <1>2, <1>3

\* Every value of a finite set of edges is a fold; of one edge it is its own.
LEMMA ValueIsFold ==
    ASSUME NEW E, IsFiniteSet(E), NEW m, \A e \in E : e[m] \in Int
    PROVE  \E g : IsFold(g, [e \in E |-> e[m]], E) /\ Value(E, m) = g[E]
  <1>1. PICK h : Folds(h, [e \in E |-> e[m]], E)
    BY FoldExists
  <1>2. \E g : Folds(g, [e \in E |-> e[m]], E) /\ Value(E, m) = g[E]
    BY <1>1, ValueFolds
  <1>3. [e \in E |-> e[m]] \in [E -> Int]
    OBVIOUS
  <1> QED
    BY <1>2, <1>3 DEF IsFold

LEMMA ValueOfOne ==
    ASSUME NEW e, NEW m, e[m] \in Int
    PROVE  Value({e}, m) = e[m]
  <1>1. IsFiniteSet({e})
    BY FS_Singleton
  <1>2. PICK g : IsFold(g, [x \in {e} |-> x[m]], {e}) /\ Value({e}, m) = g[{e}]
    BY <1>1, ValueIsFold
  <1>3. g[{e}] = [x \in {e} |-> x[m]][e] + g[{e} \ {e}]
    <2> DEFINE F == [x \in {e} |-> x[m]]
    <2>1. IsFold(g, F, {e})
      BY <1>2
    <2> HIDE DEF F
    <2>2. g[{e}] = F[e] + g[{e} \ {e}]
      BY <2>1, FoldStep
    <2> QED
      BY <2>2 DEF F
  <1>4. {e} \ {e} = {} /\ g[{}] = 0
    BY <1>2, FoldEmpty DEF IsFold
  <1>5. [x \in {e} |-> x[m]][e] = e[m]
    OBVIOUS
  <1>6. g[{e}] = e[m] + 0
    BY <1>3, <1>4, <1>5
  <1>7. Value({e}, m) = g[{e}]
    BY <1>2
  <1> QED
    BY <1>6, <1>7

\* Values of disjoint sets of edges add up.
LEMMA ValueOfUnion ==
    ASSUME NEW A, NEW B, IsFiniteSet(A), IsFiniteSet(B), A \cap B = {}, NEW m, \A e \in A \cup B : e[m] \in Int
    PROVE  Value(A \cup B, m) = Value(A, m) + Value(B, m)
  <1> DEFINE E == A \cup B
             f == [e \in E |-> e[m]]
             ValueIsOf(g, C) == Value(C, m) = g[C]
  <1>1. IsFiniteSet(E)
    BY FS_Union
  <1>2. PICK g : IsFold(g, f, E) /\ ValueIsOf(g, E)
    BY <1>1, ValueIsFold
  <1>3. ASSUME NEW C \in SUBSET E, IsFiniteSet(C)
        PROVE  ValueIsOf(g, C)
    <2> DEFINE c == [e \in C |-> e[m]]
    <2>1. PICK h : IsFold(h, c, C) /\ Value(C, m) = h[C]
      BY <1>3, ValueIsFold
    <2>2. Folds(g, f, E) /\ Folds(h, c, C) /\ C \in SUBSET (E \cap C) /\ \A x \in C : f[x] = c[x]
      BY <1>2, <2>1 DEF IsFold
    <2> HIDE DEF c, f, E
    <2>3. g[C] = h[C]
      BY <1>1, <2>2, FoldAgree
    <2> QED
      BY <2>1, <2>3
  <1>4. A \in SUBSET E /\ B \in SUBSET E
    OBVIOUS
  <1>5. ValueIsOf(g, A) /\ ValueIsOf(g, B)
    BY <1>3, <1>4
  <1> HIDE DEF f
  <1>6. g[A \cup B] = g[A] + g[B]
    <2> HIDE DEF E
    <2>1. Additive(g, E)
      BY <1>2, FoldUnion
    <2> QED
      BY <1>4, <2>1 DEF Additive
  <1> QED
    BY <1>2, <1>5, <1>6

LEMMA ValueOfNone == ASSUME NEW m PROVE Value({}, m) = 0
  <1>1. PICK g : IsFold(g, [x \in {} |-> x[m]], {}) /\ Value({}, m) = g[{}]
    BY FS_EmptySet, ValueIsFold
  <1> QED
    BY <1>1, FoldEmpty DEF IsFold

LEMMA ValueIsInt ==
    ASSUME NEW E, IsFiniteSet(E), NEW m, \A e \in E : e[m] \in Int
    PROVE  Value(E, m) \in Int
  <1> DEFINE f == [e \in E |-> e[m]]
  <1>1. PICK g : IsFold(g, f, E) /\ Value(E, m) = g[E]
    BY ValueIsFold
  <1> HIDE DEF f
  <1> QED
    BY <1>1, FoldInt

-----------------------------------------------------------------------------
(* The graph of a snapshot.                                                *)

Groups == {"none", "namespace", "az", "cluster"}

Sound(topo) ==
    /\ IsFiniteSet(topo.nodes) /\ IsFiniteSet(topo.edges) /\ 0 \notin topo.nodes
    /\ \A e \in topo.edges : {e.source, e.target} \subseteq topo.nodes /\ \A m \in Metrics : e[m] \in Nat

LEMMA ScopedIsSound ==
    ASSUME NEW topo, Sound(topo), NEW c, NEW k
    PROVE  Sound(Scoped(topo, c, k)) /\ Scoped(topo, c, k).nodes \subseteq topo.nodes
  <1> DEFINE near == {n \in topo.nodes : c = All \/ Cluster[n] \in {0, c}}
             edges == {e \in topo.edges : {e.source, e.target} \subseteq near /\ k \in {All, e.category}}
             nodes == {n \in near : \E e \in edges : n \in {e.source, e.target}}
  <1>1. CASE c = All /\ k = All
    BY <1>1 DEF Scoped
  <1>2. CASE ~ (c = All /\ k = All)
    <2>1. Scoped(topo, c, k) = [nodes |-> nodes, edges |-> edges]
      BY <1>2 DEF Scoped
    <2>2. nodes \in SUBSET topo.nodes /\ edges \in SUBSET topo.edges
      OBVIOUS
    <2>3. IsFiniteSet(nodes) /\ IsFiniteSet(edges)
      BY <2>2, FS_Subset DEF Sound
    <2>4. \A e \in edges : {e.source, e.target} \subseteq nodes
      OBVIOUS
    <2> HIDE DEF near, edges, nodes
    <2> QED
      BY <2>1, <2>2, <2>3, <2>4 DEF Sound
  <1> QED
    BY <1>1, <1>2

LEMMA StandIs ==
    ASSUME NEW by_ \in Groups, NEW n, NEW x
    PROVE  /\ by_ = "none" => Stand(n, by_, x) = <<"node", n>>
           /\ Stand(n, by_, x) = <<"node", n>> \/ \E q : Stand(n, by_, x) = <<by_, q>> /\ by_ # "none"
           /\ Stand(n, by_, x)[1] = "node" => Stand(n, by_, x) = <<"node", n>>
  BY DEF Stand, Groups

\* The parts of a model: the edges between kept nodes, what they are drawn as, and
\* what stands for the nodes.
Inside(topo, sel) == {e \in topo.edges : {e.source, e.target} \subseteq Kept(topo, sel)}
DrawnAs(b, by_, x) == [edges |-> b, ends |-> UNION {Ends(e, by_, x) : e \in b}]
Drawn(topo, sel, by_, x) == {DrawnAs(b, by_, x) : b \in Bundles(Inside(topo, sel), by_, x)}
Stands(topo, sel, by_, x) == {Stand(n, by_, x) : n \in Kept(topo, sel)}
Links(d, m, c) == {l \in d : Cardinality(l.ends) = 2 /\ (c = 0 \/ Value(l.edges, m) >= c)}
Two(d) == {l \in d : Cardinality(l.ends) = 2}

PartsOf(model, d, st, m, c) ==
    /\ model.links = Links(d, m, c)
    /\ model.selfs = d \ Two(d)
    /\ model.hidden = Cardinality(Two(d) \ model.links)
    /\ model.nodes \subseteq st
    /\ model.links = Two(d) => model.nodes = st
    /\ \A s \in st : (\E l \in model.links : s \in l.ends) => s \in model.nodes
    /\ \A s \in st : s \in model.nodes \/ \E l \in Two(d) \ model.links : s \in l.ends

LEMMA ModelParts ==
    ASSUME NEW topo, NEW sel, NEW by_, NEW x, NEW m, NEW c
    PROVE  PartsOf(GraphModel(topo, sel, by_, x, m, c), Drawn(topo, sel, by_, x), Stands(topo, sel, by_, x), m, c)
  <1> DEFINE model == GraphModel(topo, sel, by_, x, m, c)
             d == Drawn(topo, sel, by_, x)
             st == Stands(topo, sel, by_, x)
  <1>1. model.links = Links(d, m, c) /\ model.selfs = d \ Two(d)
    BY DEF GraphModel, Drawn, DrawnAs, Inside, Links, Two
  <1>2. model.hidden = Cardinality(Two(d) \ model.links)
    BY DEF GraphModel, Drawn, DrawnAs, Inside, Links, Two
  <1>3. model.nodes \subseteq st /\ (model.links = Two(d) => model.nodes = st)
    BY DEF GraphModel, Drawn, DrawnAs, Inside, Links, Two, Stands
  <1>4. \A s \in st : (\E l \in model.links : s \in l.ends) => s \in model.nodes
    BY DEF GraphModel, Drawn, DrawnAs, Inside, Links, Two, Stands
  <1>6. \A s \in st : s \in model.nodes \/ \E l \in Two(d) \ model.links : s \in l.ends
    BY DEF GraphModel, Drawn, DrawnAs, Inside, Links, Two, Stands
  <1> HIDE DEF model, d, st
  <1>5. PartsOf(model, d, st, m, c)
    BY <1>1, <1>2, <1>3, <1>4, <1>6 DEF PartsOf
  <1> QED
    BY <1>5 DEF model, d, st

\* Every end of a drawn link stands for a kept node, the bundles are all edges
\* between kept nodes, and there are finitely many of them.
LEMMA DrawnIs ==
    ASSUME NEW topo, Sound(topo), NEW sel, NEW by_ \in Groups, NEW x,
           NEW d, d = Drawn(topo, sel, by_, x)
    PROVE  /\ \A l \in d : l.ends \subseteq Stands(topo, sel, by_, x)
           /\ UNION {l.edges : l \in d} = Inside(topo, sel)
           /\ IsFiniteSet(d) /\ IsFiniteSet(Stands(topo, sel, by_, x))
  <1> DEFINE in == Inside(topo, sel)
             bs == Bundles(in, by_, x)
  <1>1. bs \subseteq SUBSET in /\ UNION bs = in
    BY DEF Bundles
  <1>2. IsFiniteSet(in)
    BY FS_Subset DEF Inside, Sound
  <1>3. IsFiniteSet(bs)
    <2> HIDE DEF in, bs
    <2>1. IsFiniteSet(SUBSET in)
      BY <1>2, FS_SUBSET
    <2> QED
      BY <1>1, <2>1, FS_Subset
  <1>4. IsFiniteSet(d)
    <2> DEFINE f == [b \in bs |-> DrawnAs(b, by_, x)]
    <2>1. d = {f[b] : b \in bs}
      BY DEF Drawn
    <2> HIDE DEF bs, f
    <2> QED
      BY <1>3, <2>1, ImageIsFinite
  <1>5. IsFiniteSet(Stands(topo, sel, by_, x))
    <2> DEFINE K == Kept(topo, sel)
               f == [n \in K |-> Stand(n, by_, x)]
    <2>1. Stands(topo, sel, by_, x) = {f[n] : n \in K}
      BY DEF Stands
    <2>2. IsFiniteSet(K)
      BY FS_Subset DEF Kept, Sound
    <2> HIDE DEF K, f
    <2> QED
      BY <2>1, <2>2, ImageIsFinite
  <1>6. \A l \in d : l.ends \subseteq Stands(topo, sel, by_, x)
    <2> SUFFICES ASSUME NEW l \in d, NEW s \in l.ends PROVE s \in Stands(topo, sel, by_, x)
      OBVIOUS
    <2>1. PICK b \in bs : l = DrawnAs(b, by_, x)
      BY DEF Drawn
    <2>2. PICK e \in b : s \in Ends(e, by_, x)
      BY <2>1 DEF DrawnAs
    <2>3. e \in in
      BY <1>1
    <2> QED
      BY <2>2, <2>3 DEF Inside, Ends, Stands
  <1>7. UNION {l.edges : l \in d} = in
    <2>1. {l.edges : l \in d} = bs
      <3>1. \A b \in bs : DrawnAs(b, by_, x).edges = b
        BY DEF DrawnAs
      <3>2. d = {DrawnAs(b, by_, x) : b \in bs}
        BY DEF Drawn
      <3> HIDE DEF bs
      <3> QED
        BY <3>1, <3>2
    <2> HIDE DEF bs, in
    <2> QED
      BY <1>1, <2>1
  <1> QED
    BY <1>4, <1>5, <1>6, <1>7

LEMMA ModelIs ==
    ASSUME NEW topo, Sound(topo), NEW sel, NEW by_ \in Groups, NEW x, NEW m, NEW c,
           NEW model, model = GraphModel(topo, sel, by_, x, m, c)
    PROVE  /\ IsFiniteSet(model.nodes)
           /\ \A l \in model.links : l.ends \subseteq model.nodes
           /\ \A n \in model.nodes : n[1] = "node" => n = <<"node", n[2]>> /\ n[2] \in Kept(topo, sel)
           /\ c = 0 => model.nodes = Stands(topo, sel, by_, x)
           /\ model.hidden = 0 => UNION {l.edges : l \in model.links \cup model.selfs} = Inside(topo, sel)
  <1> DEFINE d == Drawn(topo, sel, by_, x)
             st == Stands(topo, sel, by_, x)
  <1>1. PartsOf(model, d, st, m, c)
    BY ModelParts
  <1>2. /\ \A l \in d : l.ends \subseteq st
        /\ UNION {l.edges : l \in d} = Inside(topo, sel)
        /\ IsFiniteSet(d) /\ IsFiniteSet(st)
    BY DrawnIs
  <1>3. \A n \in st : n[1] = "node" => n = <<"node", n[2]>> /\ n[2] \in Kept(topo, sel)
    BY StandIs DEF Stands
  <1> HIDE DEF d, st
  <1>4. IsFiniteSet(model.nodes)
    BY <1>1, <1>2, FS_Subset DEF PartsOf
  <1>5. \A l \in model.links : l.ends \subseteq model.nodes
    BY <1>1, <1>2 DEF Links, PartsOf
  <1>6. c = 0 => model.nodes = st
    BY <1>1 DEF Links, Two, PartsOf
  <1>7. ASSUME model.hidden = 0
        PROVE  UNION {l.edges : l \in model.links \cup model.selfs} = Inside(topo, sel)
    <2>1. Two(d) \ model.links \in SUBSET d
      BY DEF Two
    <2>2. IsFiniteSet(Two(d) \ model.links)
      BY <1>2, <2>1, FS_Subset
    <2>3. Two(d) \ model.links = {}
      BY <1>1, <1>7, <2>2, FS_EmptySet DEF PartsOf
    <2>4. model.links \cup model.selfs = d
      BY <1>1, <2>3 DEF Links, Two, PartsOf
    <2> QED
      BY <1>2, <2>4
  <1> QED
    BY <1>1, <1>3, <1>4, <1>5, <1>6, <1>7 DEF st, PartsOf

\* The focus and what is around it.
LEMMA NeighborsIn ==
    ASSUME NEW model, \A l \in model.links : l.ends \subseteq model.nodes, NEW n \in model.nodes, NEW h
    PROVE  n \in Neighbors(model, n, h) /\ Neighbors(model, n, h) \subseteq model.nodes
  <1>1. ASSUME NEW near \in SUBSET model.nodes
        PROVE  near \subseteq Around(model, near) /\ Around(model, near) \subseteq model.nodes
    BY DEF Around
  <1>2. {n} \in SUBSET model.nodes
    OBVIOUS
  <1>3. {n} \subseteq Around(model, {n}) /\ Around(model, {n}) \in SUBSET model.nodes
    BY <1>1, <1>2
  <1>4. Around(model, {n}) \subseteq Around(model, Around(model, {n}))
        /\ Around(model, Around(model, {n})) \subseteq model.nodes
    BY <1>1, <1>3
  <1> QED
    BY <1>3, <1>4 DEF Neighbors

\* The heaviest edge that leads from a node to another.
LEMMA HeaviestIs ==
    ASSUME NEW topo, Sound(topo), NEW m \in Metrics
    PROVE  /\ MaxEdgeValue(topo, m) \in Nat
           /\ MaxEdgeValue(topo, m) = 0 \/ \E e \in topo.edges : Crossing(e) /\ e[m] = MaxEdgeValue(topo, m)
           /\ \A e \in topo.edges : Crossing(e) => e[m] <= MaxEdgeValue(topo, m)
  <1> DEFINE E == {e \in topo.edges : Crossing(e)}
             f == [e \in E |-> e[m]]
             A == {0} \cup {f[e] : e \in E}
  <1>1. A \in SUBSET Nat /\ A # {}
    <2>1. \A e \in E : f[e] \in Nat
      <3>1. \A e \in topo.edges : e[m] \in Nat
        BY DEF Sound
      <3> QED
        BY <3>1
    <2>2. ASSUME NEW z \in A PROVE z \in Nat
      <3>1. z = 0 \/ \E e \in E : z = f[e]
        OBVIOUS
      <3> HIDE DEF A, E, f
      <3> QED
        BY <2>1, <3>1
    <2> HIDE DEF E, f
    <2>3. 0 \in A
      OBVIOUS
    <2> HIDE DEF A
    <2> QED
      BY <2>2, <2>3
  <1>2. IsFiniteSet(A)
    <2>1. IsFiniteSet(E)
      BY FS_Subset DEF Sound
    <2> HIDE DEF f, E
    <2>2. IsFiniteSet({f[e] : e \in E})
      BY <2>1, ImageIsFinite
    <2> QED
      BY <2>2, FS_Singleton, FS_Union
  <1>3. MaxEdgeValue(topo, m) = Max(A)
    BY DEF MaxEdgeValue
  <1>4. Max(A) \in A /\ \A a \in A : a <= Max(A)
    <2> HIDE DEF A
    <2> QED
      BY <1>1, <1>2, MaxOf
  <1> QED
    BY <1>1, <1>3, <1>4

-----------------------------------------------------------------------------
(* The page.                                                               *)

\* What is chosen is something to choose, and the cut is one of this topology.
ChoicesOK ==
    /\ snapshot \in Snapshots /\ metric \in Metrics /\ by \in Groups /\ view \in {"graph", "matrix"}
    /\ cut \in Nat /\ cut <= MaxEdgeValue(Topology, metric)

\* A tag selection and a focus go together, and both are of this topology unless
\* a poll took them from it.
WantedOK ==
    /\ 0 \notin selected
    /\ focus # 0 /\ selected # {} => focus \in selected
    /\ ~churned => Wanted \subseteq Topology.nodes

\* What the last render left is that of the present choices.
GraphOK ==
    /\ graph.model = Model
    /\ graph.active = Active(focus, graph.model)
    /\ graph.live = {<<"node", n>> : n \in Topology.nodes} \cup graph.model.nodes
    /\ graph.key = LayoutKey(graph.model, by)
    /\ graph.shown = IF graph.active = 0 THEN graph.model.nodes
                     ELSE Neighbors(graph.model, <<"node", graph.active>>, hops)

\* The places that are known are those of live nodes, and the layout is that of
\* the model.
PlacesOK ==
    view = "graph" => /\ DOMAIN cache \subseteq graph.live
                      /\ DOMAIN positions = graph.model.nodes
                      /\ StoredIsCurrent

PageInv == ChoicesOK /\ WantedOK /\ GraphOK /\ PlacesOK

LEMMA TopologyIsSound ==
    ASSUME ChoicesOK
    PROVE  Sound(Topology) /\ Topology.nodes \subseteq snapshot.nodes
  <1>1. Sound(snapshot)
    BY SnapshotAssumption DEF ChoicesOK, Sound
  <1> QED
    BY <1>1, ScopedIsSound DEF Topology

\* What follows of the graph.
GraphFacts ==
    /\ IsFiniteSet(graph.model.nodes) /\ IsFiniteSet(graph.live)
    /\ graph.model.nodes \subseteq graph.live
    /\ \A l \in graph.model.links : l.ends \subseteq graph.model.nodes
    /\ \A n \in graph.model.nodes : n[1] = "node" => n = <<"node", n[2]>> /\ n[2] \in Kept(Topology, selected)
    /\ cut = 0 => graph.model.nodes = Stands(Topology, selected, by, expanded)
    /\ graph.model.hidden = 0
         => UNION {l.edges : l \in graph.model.links \cup graph.model.selfs} = Inside(Topology, selected)
    /\ graph.shown \subseteq graph.model.nodes
    /\ graph.active # 0 => <<"node", graph.active>> \in graph.shown

LEMMA GraphHasFacts == ChoicesOK /\ GraphOK => GraphFacts
  <1> SUFFICES ASSUME ChoicesOK, GraphOK
               PROVE  GraphFacts
    OBVIOUS
  <1>1. Sound(Topology)
    BY TopologyIsSound
  <1>2. by \in Groups
    BY DEF ChoicesOK
  <1>3. graph.model = GraphModel(Topology, selected, by, expanded, metric, cut)
    BY DEF GraphOK, Model
  <1>4. /\ IsFiniteSet(graph.model.nodes)
        /\ \A l \in graph.model.links : l.ends \subseteq graph.model.nodes
        /\ \A n \in graph.model.nodes : n[1] = "node" => n = <<"node", n[2]>> /\ n[2] \in Kept(Topology, selected)
        /\ cut = 0 => graph.model.nodes = Stands(Topology, selected, by, expanded)
        /\ graph.model.hidden = 0
             => UNION {l.edges : l \in graph.model.links \cup graph.model.selfs} = Inside(Topology, selected)
    BY <1>1, <1>2, <1>3, ModelIs
  <1>5. graph.active # 0 => <<"node", graph.active>> \in graph.model.nodes
    BY DEF GraphOK, Active
  <1>6. graph.shown \subseteq graph.model.nodes /\ (graph.active # 0 => <<"node", graph.active>> \in graph.shown)
    <2>1. CASE graph.active = 0
      BY <2>1 DEF GraphOK
    <2>2. CASE graph.active # 0
      <3> DEFINE n == <<"node", graph.active>>
                 md == graph.model
      <3>1. n \in md.nodes /\ \A l \in md.links : l.ends \subseteq md.nodes
        BY <1>4, <1>5, <2>2
      <3>2. graph.shown = Neighbors(md, n, hops)
        BY <2>2 DEF GraphOK
      <3> HIDE DEF n, md
      <3>3. n \in Neighbors(md, n, hops) /\ Neighbors(md, n, hops) \subseteq md.nodes
        BY <3>1, NeighborsIn
      <3> QED
        BY <3>2, <3>3 DEF n, md
    <2> QED
      BY <2>1, <2>2
  <1>7. IsFiniteSet(graph.live)
    <2> DEFINE T == Topology.nodes
               f == [n \in T |-> <<"node", n>>]
    <2>1. IsFiniteSet(T)
      BY <1>1 DEF Sound
    <2>2. graph.live = {f[n] : n \in T} \cup graph.model.nodes
      BY DEF GraphOK
    <2> HIDE DEF T, f
    <2> DEFINE U == {f[n] : n \in T}
               V == graph.model.nodes
    <2>3. IsFiniteSet(U)
      BY <2>1, ImageIsFinite
    <2>4. IsFiniteSet(V)
      BY <1>4
    <2> HIDE DEF U, V
    <2>5. IsFiniteSet(U \cup V)
      BY <2>3, <2>4, FS_Union
    <2> QED
      BY <2>2, <2>5 DEF U, V
  <1>8. graph.model.nodes \subseteq graph.live
    BY DEF GraphOK
  <1> QED
    BY <1>4, <1>6, <1>7, <1>8 DEF GraphFacts

\* A render leaves the graph of the choices it was made of.
LEMMA RenderKeepsGraph ==
    ASSUME NEW w, Render(w)
    PROVE  GraphOK'
  BY DEF Render, GraphOK, Model, Topology, Live

\* Places that are merged are persisted whenever they fit.
LEMMA MergeStores ==
    ASSUME NEW places, NEW known, NEW live, NEW nodes,
           IsFiniteSet(live), nodes \subseteq live, DOMAIN places = nodes
    PROVE  /\ DOMAIN Merge(places, known, live) \subseteq live
           /\ nodes # {} /\ Cardinality(live) <= MaxPersisted =>
                Cardinality(DOMAIN Merge(places, known, live)) \in 1 .. MaxPersisted
  <1> DEFINE D == (DOMAIN places \cup DOMAIN known) \cap live
  <1>1. DOMAIN Merge(places, known, live) = D
    BY DEF Merge
  <1>2. D \in SUBSET live /\ nodes \subseteq D
    OBVIOUS
  <1> HIDE DEF D
  <1>3. IsFiniteSet(D) /\ Cardinality(D) <= Cardinality(live)
    BY <1>2, FS_Subset
  <1>4. Cardinality(D) \in Nat /\ Cardinality(live) \in Nat
    BY <1>3, FS_CardinalityType
  <1>5. nodes # {} => Cardinality(D) # 0
    BY <1>2, <1>3, FS_EmptySet
  <1> QED
    BY <1>1, <1>2, <1>3, <1>4, <1>5, PersistedAssumption

LEMMA MountKeeps ==
    ASSUME ChoicesOK', GraphOK', Mount(graph')
    PROVE  PlacesOK'
  <1> DEFINE nodes == graph'.model.nodes
             live == graph'.live
             places == Placed(nodes, stored)
  <1>1. GraphFacts'
    BY GraphHasFacts, PTL
  <1>2. IsFiniteSet(live) /\ nodes \subseteq live
    BY <1>1 DEF GraphFacts
  <1>3. DOMAIN places = nodes
    BY DEF Placed
  <1>4. positions' = places /\ cache' = Merge(places, stored, live) /\ Persist(cache')
    BY DEF Mount
  <1> HIDE DEF places, nodes, live
  <1>5. DOMAIN Merge(places, stored, live) \subseteq live
        /\ (nodes # {} /\ Cardinality(live) <= MaxPersisted
              => Cardinality(DOMAIN Merge(places, stored, live)) \in 1 .. MaxPersisted)
    BY <1>2, <1>3, MergeStores
  <1>6. nodes # {} /\ Cardinality(live) <= MaxPersisted => stored' = cache'
    BY <1>4, <1>5 DEF Persist
  <1> QED
    BY <1>3, <1>4, <1>5, <1>6 DEF PlacesOK, StoredIsCurrent, nodes, live

\* A render and its effects keep the places.
LEMMA ShowKeeps ==
    ASSUME PageInv, ChoicesOK', NEW w, Show(w)
    PROVE  GraphOK' /\ PlacesOK'
  <1>1. GraphOK'
    BY RenderKeepsGraph DEF Show
  <1>2. GraphFacts'
    BY <1>1, GraphHasFacts, PTL
  <1> SUFFICES PlacesOK'
    BY <1>1
  <1> DEFINE nodes == graph'.model.nodes
             live == graph'.live
             fits == nodes # {} /\ Cardinality(live) <= MaxPersisted
  <1>3. IsFiniteSet(live) /\ nodes \subseteq live
    BY <1>2 DEF GraphFacts
  <1>4. CASE view' = "matrix"
    BY <1>4 DEF PlacesOK
  <1>5. CASE view' # "matrix" /\ view = "matrix"
    BY <1>1, <1>5, MountKeeps DEF Show
  <1>6. CASE view' # "matrix" /\ view # "matrix"
    <2>1. Relayout(graph, graph') /\ view = "graph"
      BY <1>6 DEF Show, PageInv, ChoicesOK
    <2> DEFINE structural == graph.key # graph'.key
               places == IF structural THEN Placed(nodes, cache) ELSE positions
               merged == Merge(places, cache, live)
    <2>2. /\ positions' = places
          /\ IF structural \/ graph.live # live THEN cache' = merged /\ Persist(merged) ELSE UNCHANGED <<cache, stored>>
      BY <2>1 DEF Relayout
    <2>3. graph.key.nodes = graph.model.nodes /\ graph'.key.nodes = nodes
      BY <1>1 DEF PageInv, GraphOK, LayoutKey
    <2>4. DOMAIN places = nodes
      BY <2>1, <2>3 DEF Placed, PageInv, PlacesOK
    <2> HIDE DEF places, nodes, live, structural
    <2>5. DOMAIN merged \subseteq live
          /\ (nodes # {} /\ Cardinality(live) <= MaxPersisted => Cardinality(DOMAIN merged) \in 1 .. MaxPersisted)
      BY <1>3, <2>4, MergeStores
    <2>6. CASE structural \/ graph.live # live
      <3>1. cache' = merged /\ Persist(merged)
        BY <2>2, <2>6
      <3>2. fits => stored' = cache'
        BY <2>5, <3>1 DEF Persist
      <3> QED
        BY <2>2, <2>4, <2>5, <3>1, <3>2 DEF PlacesOK, StoredIsCurrent, nodes, live
    <2>7. CASE ~structural /\ graph.live = live
      <3>1. cache' = cache /\ stored' = stored
        BY <2>2, <2>7
      <3>2. graph.model.nodes = nodes
        BY <2>3, <2>7 DEF structural
      <3> QED
        BY <2>1, <2>2, <2>4, <2>7, <3>1, <3>2 DEF PageInv, PlacesOK, StoredIsCurrent, nodes, live
    <2> QED
      BY <2>6, <2>7
  <1> QED
    BY <1>4, <1>5, <1>6

LEMMA InitPageInv == PageInit => PageInv
  <1> SUFFICES ASSUME PageInit PROVE PageInv
    OBVIOUS
  <1>1. Topology = snapshot
    BY DEF PageInit, Topology, Scoped
  <1>2. snapshot \in Snapshots /\ Sound(snapshot)
    BY SnapshotAssumption DEF PageInit, Sound
  <1>3. ChoicesOK
    <2>1. metric \in Metrics /\ by \in Groups /\ view \in {"graph", "matrix"} /\ cut = 0
      BY SelectAssumption DEF PageInit, Groups
    <2>2. MaxEdgeValue(Topology, metric) \in Nat
      BY <1>1, <1>2, <2>1, HeaviestIs
    <2> QED
      BY <1>2, <2>1, <2>2 DEF ChoicesOK
  <1>4. WantedOK
    BY <1>1, <1>2 DEF PageInit, WantedOK, Wanted, Sound
  <1>5. GraphOK
    <2>1. focus # 0 => <<"node", focus>> \in Model.nodes
      <3> SUFFICES ASSUME focus # 0 PROVE <<"node", focus>> \in Model.nodes
        OBVIOUS
      <3>1. Model = GraphModel(Topology, selected, by, expanded, metric, cut)
        BY DEF Model
      <3>2. by \in Groups /\ cut = 0 /\ by = "none"
        BY DEF PageInit, Groups
      <3>3. Model.nodes = Stands(Topology, selected, by, expanded)
        BY <1>1, <1>2, <3>1, <3>2, ModelIs
      <3>4. focus \in Kept(Topology, selected)
        BY <1>1 DEF PageInit, Kept
      <3>5. Stand(focus, by, expanded) = <<"node", focus>>
        BY <3>2, StandIs
      <3> QED
        BY <3>3, <3>4, <3>5 DEF Stands
    <2>2. Active(focus, Model) = focus
      BY <2>1 DEF Active
    <2> QED
      BY <2>2 DEF PageInit, GraphOK, Live
  <1>6. PlacesOK
    BY DEF PageInit, PlacesOK, StoredIsCurrent, Placed, Live
  <1> QED
    BY <1>3, <1>4, <1>5, <1>6 DEF PageInv

\* What the user may click on is a kept node.
LEMMA ShownIsKept ==
    ASSUME PageInv, NEW n \in graph.shown, n[1] = "node"
    PROVE  n[2] \in Topology.nodes /\ n[2] # 0 /\ (selected # {} => n[2] \in selected)
  <1>1. GraphFacts
    BY GraphHasFacts DEF PageInv
  <1>2. n[2] \in Kept(Topology, selected)
    BY <1>1 DEF GraphFacts
  <1>3. 0 \notin Topology.nodes
    BY TopologyIsSound DEF PageInv, Sound
  <1> QED
    BY <1>2, <1>3 DEF Kept

\* A cut that is clamped, or left alone with the topology and the metric.
LEMMA CutIsClamped ==
    ASSUME ChoicesOK, Sound(Topology'), metric' \in Metrics, cut' = Clamped(cut)
    PROVE  cut' \in Nat /\ cut' <= MaxEdgeValue(Topology, metric)'
  <1>1. MaxEdgeValue(Topology', metric') \in Nat
    BY HeaviestIs
  <1>2. cut \in Nat
    BY DEF ChoicesOK
  <1> QED
    BY <1>1, <1>2 DEF Clamped

LEMMA SameTopology ==
    ASSUME UNCHANGED <<snapshot, cluster, category>>
    PROVE  Topology' = Topology
  BY DEF Topology

LEMMA SnapshotsAreSound ==
    ASSUME snapshot' \in Snapshots
    PROVE  Sound(Topology')
  <1>1. Sound(snapshot')
    BY SnapshotAssumption DEF Sound
  <1> QED
    BY <1>1, ScopedIsSound DEF Topology

\* Each action leaves choices that there are, and a selection and a focus that are
\* in the topology unless a poll took them.
LEMMA ChoicesMove ==
    ASSUME PageInv, PageNext
    PROVE  ChoicesOK' /\ WantedOK'
  <1> USE DEF PageInv
  <1>0. /\ snapshot \in Snapshots /\ metric \in Metrics /\ by \in Groups /\ view \in {"graph", "matrix"}
        /\ Sound(Topology)
    BY TopologyIsSound DEF ChoicesOK
  <1>1. CASE Poll
    <2>1. snapshot' \in Snapshots /\ metric' \in Metrics /\ by' \in Groups /\ view' \in {"graph", "matrix"}
      BY <1>0, <1>1 DEF Poll, chosenVars
    <2>2. cut' \in Nat /\ cut' <= MaxEdgeValue(Topology, metric)'
      BY <1>1, <2>1, SnapshotsAreSound, CutIsClamped DEF Poll
    <2>3. WantedOK'
      BY <1>1 DEF Poll, chosenVars, WantedOK, Wanted
    <2> QED
      BY <2>1, <2>2, <2>3 DEF ChoicesOK
  <1>2. CASE SetScope
    <2>1. snapshot' \in Snapshots /\ metric' \in Metrics /\ by' \in Groups /\ view' \in {"graph", "matrix"}
      BY <1>0, <1>2 DEF SetScope
    <2>2. cut' \in Nat /\ cut' <= MaxEdgeValue(Topology, metric)'
      BY <1>2, <2>1, SnapshotsAreSound, CutIsClamped DEF SetScope
    <2>3. WantedOK'
      BY <1>2 DEF SetScope, WantedOK, Wanted
    <2> QED
      BY <2>1, <2>2, <2>3 DEF ChoicesOK
  <1>3. CASE SetMetric
    <2>1. /\ UNCHANGED <<snapshot, cluster, category, by, selected, focus, view, churned>>
          /\ metric' \in Metrics /\ cut' = 0
      BY <1>3 DEF SetMetric, chosenVars
    <2>2. Topology' = Topology
      BY <2>1, SameTopology
    <2>3. MaxEdgeValue(Topology', metric') \in Nat
      BY <1>0, <2>1, <2>2, HeaviestIs
    <2> QED
      BY <1>0, <2>1, <2>2, <2>3 DEF ChoicesOK, WantedOK, Wanted
  <1>4. CASE SetCut
    <2>1. /\ UNCHANGED <<snapshot, cluster, category, metric, by, selected, focus, view, churned>>
          /\ cut' \in 0 .. MaxEdgeValue(Topology, metric)
      BY <1>4 DEF SetCut, chosenVars
    <2>2. Topology' = Topology
      BY <2>1, SameTopology
    <2>3. MaxEdgeValue(Topology, metric) \in Nat
      BY <1>0, HeaviestIs
    <2> QED
      BY <1>0, <2>1, <2>2, <2>3 DEF ChoicesOK, WantedOK, Wanted
  <1>5. CASE SetGroupBy
    <2>1. /\ UNCHANGED <<snapshot, cluster, category, metric, selected, focus, cut, view, churned>>
          /\ by' \in Groups
      BY <1>5, SelectAssumption DEF SetGroupBy, Groups
    <2>2. Topology' = Topology
      BY <2>1, SameTopology
    <2> QED
      BY <2>1, <2>2 DEF ChoicesOK, WantedOK, Wanted
  <1>6. CASE SetView \/ SetHops \/ ToggleGroup \/ Drag
    <2>1. /\ UNCHANGED <<snapshot, cluster, category, metric, by, selected, focus, cut, churned>>
          /\ view' \in {"graph", "matrix"}
      BY <1>0, <1>6 DEF SetView, SetHops, ToggleGroup, Drag, chosenVars, pageVars
    <2>2. Topology' = Topology
      BY <2>1, SameTopology
    <2> QED
      BY <2>1, <2>2 DEF ChoicesOK, WantedOK, Wanted
  <1>7. CASE Focus
    <2>1. UNCHANGED <<snapshot, cluster, category, metric, by, selected, cut, view, churned>>
      BY <1>7 DEF Focus
    <2>2. Topology' = Topology
      BY <2>1, SameTopology
    <2>3. focus' = 0 \/ (focus' \in Topology.nodes /\ (selected # {} => focus' \in selected))
      BY <1>7, ShownIsKept DEF Focus
    <2> QED
      BY <2>1, <2>2, <2>3 DEF ChoicesOK, WantedOK, Wanted
  <1>8. CASE ApplyTags
    <2>1. /\ UNCHANGED <<snapshot, cluster, category, metric, by, cut, view, churned>>
          /\ selected' \subseteq Topology.nodes
          /\ focus' = IF selected' # {} /\ focus \notin selected' THEN 0 ELSE focus
      BY <1>8 DEF ApplyTags
    <2>2. Topology' = Topology
      BY <2>1, SameTopology
    <2>3. 0 \notin Topology.nodes
      BY <1>0 DEF Sound
    <2> QED
      BY <2>1, <2>2, <2>3 DEF ChoicesOK, WantedOK, Wanted
  <1>9. CASE Search
    <2>1. /\ UNCHANGED <<snapshot, cluster, category, metric, by, cut, view, churned>>
          /\ focus' \in Topology.nodes
          /\ selected' = IF focus' \in selected THEN selected ELSE {}
      BY <1>9 DEF Search
    <2>2. Topology' = Topology
      BY <2>1, SameTopology
    <2> QED
      BY <2>1, <2>2 DEF ChoicesOK, WantedOK, Wanted
  <1>10. CASE Reload
    <2>1. /\ snapshot' \in Snapshots /\ metric' \in Metrics /\ by' \in Groups /\ view' \in {"graph", "matrix"}
          /\ cut' = 0 /\ selected' = {} /\ focus' \in {0} \cup snapshot'.nodes
          /\ cluster' = All /\ category' = All
      BY <1>10, SelectAssumption DEF Reload, Groups
    <2>2. Topology' = snapshot'
      BY <2>1 DEF Topology, Scoped
    <2>3. MaxEdgeValue(Topology', metric') \in Nat
      BY <2>1, SnapshotsAreSound, HeaviestIs
    <2> QED
      BY <2>1, <2>2, <2>3 DEF ChoicesOK, WantedOK, Wanted
  <1> QED
    BY <1>1, <1>2, <1>3, <1>4, <1>5, <1>6, <1>7, <1>8, <1>9, <1>10 DEF PageNext

\* A drag moves one node that is shown.
LEMMA DragKeeps ==
    ASSUME PageInv, Drag
    PROVE  GraphOK' /\ PlacesOK'
  <1>1. GraphFacts
    BY GraphHasFacts DEF PageInv
  <1>2. PICK n \in graph.shown : DropAt(n, drags')
    BY DEF Drag
  <1>3. n \in graph.model.nodes /\ n \in graph.live
    BY <1>1, <1>2 DEF GraphFacts
  <1>4. UNCHANGED <<graph, view, positions, hops, snapshot, cluster, category, metric, by, expanded, selected, focus, cut>>
    BY <1>2 DEF Drag, pageVars, DropAt
  <1>5. GraphOK'
    BY <1>4 DEF PageInv, GraphOK, Model, Topology
  <1>6. PlacesOK'
    <2> DEFINE D == DOMAIN cache \cup {n}
    <2>0. view = "graph"
      BY DEF Drag
    <2>1. DOMAIN cache' = D /\ Persist(cache')
      BY <1>2 DEF DropAt
    <2>2. D \in SUBSET graph.live
      BY <1>3, <2>0 DEF PageInv, PlacesOK
    <2>3. IsFiniteSet(D) /\ Cardinality(D) <= Cardinality(graph.live) /\ D # {}
      BY <1>1, <2>2, FS_Subset DEF GraphFacts
    <2> HIDE DEF D
    <2>4. Cardinality(D) \in Nat /\ Cardinality(D) # 0 /\ Cardinality(graph.live) \in Nat
      BY <1>1, <2>3, FS_CardinalityType, FS_EmptySet DEF GraphFacts
    <2>5. Cardinality(graph.live) <= MaxPersisted => Cardinality(D) \in 1 .. MaxPersisted
      BY <2>3, <2>4, PersistedAssumption
    <2>6. Cardinality(graph.live) <= MaxPersisted => stored' = cache'
      BY <2>1, <2>5 DEF Persist
    <2>7. DOMAIN positions = graph.model.nodes
      BY <2>0 DEF PageInv, PlacesOK
    <2> QED
      BY <1>4, <2>1, <2>2, <2>6, <2>7 DEF PlacesOK, StoredIsCurrent
  <1> QED
    BY <1>5, <1>6

LEMMA NextPageInv == PageInv /\ [PageNext]_topologyVars => PageInv'
  <1> SUFFICES ASSUME PageInv, [PageNext]_topologyVars
               PROVE  PageInv'
    OBVIOUS
  <1>1. CASE UNCHANGED topologyVars
    BY <1>1 DEF topologyVars, pageVars, placeVars, historyVars, PageInv, ChoicesOK, WantedOK, Wanted, GraphOK,
                Model, Topology, PlacesOK, StoredIsCurrent
  <1>2. CASE PageNext
    <2>1. ChoicesOK' /\ WantedOK'
      BY <1>2, ChoicesMove
    <2>2. CASE \E w : Show(w)
      BY <2>1, <2>2, ShowKeeps DEF PageInv
    <2>3. CASE Drag
      BY <2>1, <2>3, DragKeeps DEF PageInv
    <2>4. CASE Reload
      <3>1. GraphOK'
        BY <2>4, RenderKeepsGraph DEF Reload
      <3>2. PlacesOK'
        BY <2>1, <2>4, <3>1, MountKeeps DEF Reload
      <3> QED
        BY <2>1, <3>1, <3>2 DEF PageInv
    <2>5. (\E w : Show(w)) \/ Drag \/ Reload
      BY <1>2 DEF PageNext, Poll, SetScope, SetMetric, SetCut, SetGroupBy, SetView, SetHops, ToggleGroup,
                  Focus, ApplyTags, Search
    <2> QED
      BY <2>2, <2>3, <2>4, <2>5
  <1> QED
    BY <1>1, <1>2

THEOREM PageInvariance == PageSpec => []PageInv
  BY InitPageInv, NextPageInv, PTL DEF PageSpec

\* The places in the browser's storage are those of the page whenever they fit: the
\* caps and the evictions of NetworkGraph.tsx, for any snapshots.
THEOREM StoredPlacesAreCurrent == PageSpec => []StoredIsCurrent
  <1>1. PageInv => StoredIsCurrent
    BY DEF PageInv, PlacesOK, StoredIsCurrent
  <1> QED
    BY <1>1, PageInvariance, PTL

\* No choice of the user empties the graph or loses the focus, for any snapshots,
\* groupings and metrics: the handlers of page.tsx.
THEOREM SelectionsAreShown == PageSpec => []SelectionIsShown
  <1>1. PageInv => SelectionIsShown
    <2> SUFFICES ASSUME PageInv PROVE SelectionIsShown
      OBVIOUS
    <2> USE DEF PageInv
    <2>1. GraphFacts /\ Sound(Topology) /\ by \in Groups /\ metric \in Metrics
      BY GraphHasFacts, TopologyIsSound DEF ChoicesOK
    <2>2. ASSUME ~churned, cut = 0, Topology.nodes # {}
          PROVE  graph.model.nodes # {}
      <3>1. graph.model.nodes = Stands(Topology, selected, by, expanded)
        BY <2>1, <2>2 DEF GraphFacts
      <3>2. Kept(Topology, selected) # {}
        BY <2>2 DEF WantedOK, Wanted, Kept
      <3> QED
        BY <3>1, <3>2 DEF Stands
    <2>3. ASSUME by = "none", selected = {}, NEW e \in Topology.edges, Crossing(e), e[metric] > 0
          PROVE  graph.model.links # {}
      <3>1. PICK x \in Topology.edges : Crossing(x) /\ (cut = 0 \/ x[metric] >= cut)
        <4>1. /\ MaxEdgeValue(Topology, metric) \in Nat
              /\ MaxEdgeValue(Topology, metric) = 0 \/ \E x \in Topology.edges : Crossing(x) /\ x[metric] = MaxEdgeValue(Topology, metric)
          BY <2>1, HeaviestIs
        <4>2. cut \in Nat /\ cut <= MaxEdgeValue(Topology, metric)
          BY DEF ChoicesOK
        <4>3. CASE MaxEdgeValue(Topology, metric) = 0
          BY <2>3, <4>2, <4>3
        <4>4. CASE \E x \in Topology.edges : Crossing(x) /\ x[metric] = MaxEdgeValue(Topology, metric)
          BY <4>1, <4>2, <4>4
        <4> QED
          BY <4>1, <4>3, <4>4
      <3> DEFINE l == DrawnAs({x}, by, expanded)
      <3>2. {x} \in Bundles(Inside(Topology, selected), by, expanded)
        BY <2>1, <2>3 DEF Bundles, Inside, Kept, Sound
      <3>3. l \in Drawn(Topology, selected, by, expanded)
        BY <3>2 DEF Drawn
      <3>4. l.edges = {x} /\ l.ends = {<<"node", x.source>>, <<"node", x.target>>}
        BY <2>1, <2>3, StandIs DEF DrawnAs, Ends
      <3>5. x.source # x.target
        BY <3>1 DEF Crossing
      <3> HIDE DEF l
      <3>6. Cardinality(l.ends) = 2
        <4>1. <<"node", x.source>> # <<"node", x.target>>
          BY <3>5
        <4>2. Cardinality({<<"node", x.source>>, <<"node", x.target>>}) = 2
          BY <4>1, PairHasTwo
        <4> QED
          BY <3>4, <4>2
      <3>7. Value(l.edges, metric) = x[metric]
        <4>1. x[metric] \in Int
          BY <2>1 DEF Sound
        <4>2. Value({x}, metric) = x[metric]
          BY <4>1, ValueOfOne, Zenon
        <4> QED
          BY <3>4, <4>2, Zenon
      <3>8. cut = 0 \/ Value(l.edges, metric) >= cut
        BY <3>1, <3>7
      <3>10. l \in Links(Drawn(Topology, selected, by, expanded), metric, cut)
        BY <3>3, <3>6, <3>8 DEF Links
      <3>9. graph.model.links = Links(Drawn(Topology, selected, by, expanded), metric, cut)
        <4>1. PartsOf(GraphModel(Topology, selected, by, expanded, metric, cut),
                      Drawn(Topology, selected, by, expanded), Stands(Topology, selected, by, expanded), metric, cut)
          BY ModelParts, Zenon
        <4>2. graph.model = GraphModel(Topology, selected, by, expanded, metric, cut)
          BY DEF PageInv, GraphOK, Model
        <4> QED
          BY <4>1, <4>2, Zenon DEF PartsOf
      <3> QED
        BY <3>9, <3>10
    <2>4. ASSUME focus # 0, ~churned, cut = 0
          PROVE  Stand(focus, by, expanded) \in graph.shown
      <3> DEFINE s == Stand(focus, by, expanded)
      <3>1. focus \in Kept(Topology, selected)
        BY <2>4 DEF WantedOK, Wanted, Kept
      <3>2. s \in graph.model.nodes
        BY <2>1, <2>4, <3>1 DEF GraphFacts, Stands
      <3>3. CASE s = <<"node", focus>>
        <4>1. graph.active = focus
          BY <2>4, <3>2, <3>3 DEF GraphOK, Active
        <4> QED
          BY <2>1, <2>4, <3>3, <4>1 DEF GraphFacts
      <3>4. CASE s # <<"node", focus>>
        <4>1. <<"node", focus>> \notin graph.model.nodes
          <5> SUFFICES ASSUME <<"node", focus>> \in graph.model.nodes PROVE FALSE
            OBVIOUS
          <5>1. PICK n : <<"node", focus>> = Stand(n, by, expanded)
            BY <2>1, <2>4 DEF GraphFacts, Stands
          <5>2. Stand(n, by, expanded)[1] = "node"
            BY <5>1
          <5>3. Stand(n, by, expanded) = <<"node", n>>
            BY <2>1, <5>2, StandIs
          <5>4. n = focus
            BY <5>1, <5>3
          <5> QED
            BY <3>4, <5>1, <5>4
        <4>2. graph.active = 0
          BY <4>1 DEF GraphOK, Active
        <4> QED
          BY <3>2, <4>2 DEF GraphOK
      <3> QED
        BY <3>3, <3>4
    <2> QED
      BY <2>2, <2>3, <2>4 DEF SelectionIsShown
  <1> QED
    BY <1>1, PageInvariance, PTL

\* What the present choices draw an edge as.
EdgesNow == Inside(Topology, selected)
LinkOf(e) == DrawnAs(Together(EdgesNow, e), by, expanded)
DrawnNow == Drawn(Topology, selected, by, expanded)

LEMMA LinksAre ==
    ASSUME by \in Groups
    PROVE  /\ \A e \in EdgesNow : /\ LinkOf(e) \in DrawnNow /\ e \in LinkOf(e).edges
                                  /\ LinkOf(e).edges = Together(EdgesNow, e)
                                  /\ LinkOf(e).ends = Ends(e, by, expanded)
           /\ \A l \in DrawnNow : (\E e \in EdgesNow : e \in l.edges) /\ \A e \in l.edges : e \in EdgesNow /\ l = LinkOf(e)
  <1> DEFINE in == EdgesNow
             bs == Bundles(in, by, expanded)
  <1>1. ASSUME NEW e \in in
        PROVE  e \in Together(in, e) /\ Together(in, e) \in bs
    BY <1>1 DEF Together, Bundles
  <1>2. ASSUME NEW e \in in
        PROVE  DrawnAs(Together(in, e), by, expanded).ends = Ends(e, by, expanded)
    BY <1>1, <1>2 DEF Together, DrawnAs
  <1>3. ASSUME NEW b \in bs
        PROVE  b # {} /\ \A e \in b : e \in in /\ b = Together(in, e)
    BY <1>3 DEF Together, Bundles
  <1>4. DrawnNow = {DrawnAs(b, by, expanded) : b \in bs}
    BY DEF DrawnNow, Drawn, EdgesNow
  <1>5. \A b : DrawnAs(b, by, expanded).edges = b
    BY DEF DrawnAs
  <1> HIDE DEF in, bs
  <1>6. \A e \in in : LinkOf(e) = DrawnAs(Together(in, e), by, expanded)
    BY DEF LinkOf, in
  <1>7. \A e \in in : LinkOf(e) \in DrawnNow /\ e \in LinkOf(e).edges
                      /\ LinkOf(e).edges = Together(in, e) /\ LinkOf(e).ends = Ends(e, by, expanded)
    BY <1>1, <1>2, <1>4, <1>5, <1>6
  <1>8. ASSUME NEW l \in DrawnNow
        PROVE  (\E e \in in : e \in l.edges) /\ \A e \in l.edges : e \in in /\ l = LinkOf(e)
    <2>1. PICK b \in bs : l = DrawnAs(b, by, expanded)
      BY <1>4
    <2> QED
      BY <1>3, <1>5, <1>6, <2>1
  <1> QED
    BY <1>7, <1>8 DEF in

\* What the cut leaves out: the links that are not drawn, and their edges.
CutLinks == Two(DrawnNow) \ graph.model.links
LeftEdges == EdgesNow \ UNION {l.edges : l \in graph.model.links \cup graph.model.selfs}

LEMMA CutIs ==
    ASSUME PageInv
    PROVE  /\ PartsOf(graph.model, DrawnNow, Stands(Topology, selected, by, expanded), metric, cut)
           /\ \A e : e \in LeftEdges <=> e \in EdgesNow /\ LinkOf(e) \in CutLinks
           /\ CutLinks = {LinkOf(e) : e \in LeftEdges}
           /\ IsFiniteSet(CutLinks)
  <1>0. by \in Groups /\ Sound(Topology)
    BY TopologyIsSound DEF PageInv, ChoicesOK
  <1>1. PartsOf(graph.model, DrawnNow, Stands(Topology, selected, by, expanded), metric, cut)
    <2>1. PartsOf(GraphModel(Topology, selected, by, expanded, metric, cut),
                  Drawn(Topology, selected, by, expanded), Stands(Topology, selected, by, expanded), metric, cut)
      BY ModelParts, Zenon
    <2>2. graph.model = GraphModel(Topology, selected, by, expanded, metric, cut)
      BY DEF PageInv, GraphOK, Model
    <2> QED
      BY <2>1, <2>2, Zenon DEF DrawnNow
  <1> DEFINE d == DrawnNow
             shown == graph.model.links \cup graph.model.selfs
  <1>2. shown \subseteq d /\ CutLinks \subseteq d /\ \A l \in d : l \in shown <=> l \notin CutLinks
    BY <1>1 DEF PartsOf, Links, Two, CutLinks
  <1>3. \A e : e \in LeftEdges <=> e \in EdgesNow /\ \A l \in shown : e \notin l.edges
    BY DEF LeftEdges
  <1>4. IsFiniteSet(CutLinks)
    <2>1. IsFiniteSet(d)
      BY <1>0, DrawnIs DEF DrawnNow
    <2> QED
      BY <1>2, <2>1, FS_Subset
  <1> HIDE DEF d, shown
  <1>5. /\ \A e \in EdgesNow : LinkOf(e) \in d /\ e \in LinkOf(e).edges
        /\ \A l \in d : (\E e \in EdgesNow : e \in l.edges) /\ \A e \in l.edges : e \in EdgesNow /\ l = LinkOf(e)
    BY <1>0, LinksAre DEF d
  <1>6. \A e : e \in LeftEdges <=> e \in EdgesNow /\ LinkOf(e) \in CutLinks
    BY <1>2, <1>3, <1>5
  <1>7. CutLinks = {LinkOf(e) : e \in LeftEdges}
    <2>1. ASSUME NEW l \in CutLinks PROVE \E e \in LeftEdges : l = LinkOf(e)
      BY <1>2, <1>5, <1>6
    <2> QED
      BY <1>6, <2>1
  <1> QED
    BY <1>1, <1>4, <1>6, <1>7

\* The number next to the slider: a hidden link for each bundle of left edges.
LEMMA HiddenIsCounted ==
    ASSUME PageInv
    PROVE  graph.model.hidden = Cardinality({Together(EdgesNow, e) : e \in LeftEdges})
  <1>0. by \in Groups
    BY DEF PageInv, ChoicesOK
  <1> DEFINE T == {Together(EdgesNow, e) : e \in LeftEdges}
             f == [l \in CutLinks |-> l.edges]
  <1>1. /\ LeftEdges \subseteq EdgesNow
        /\ CutLinks = {LinkOf(e) : e \in LeftEdges}
        /\ IsFiniteSet(CutLinks)
        /\ graph.model.hidden = Cardinality(CutLinks)
    BY CutIs DEF LeftEdges, PartsOf, CutLinks
  <1>2. \A e \in LeftEdges : LinkOf(e).edges = Together(EdgesNow, e) /\ e \in LinkOf(e).edges
    BY <1>0, <1>1, LinksAre
  <1>3. \A l \in CutLinks : l \in DrawnNow /\ \E e \in l.edges : l = LinkOf(e)
    BY <1>0, LinksAre DEF CutLinks, Two
  <1>4. \A l, k \in CutLinks : l.edges = k.edges => l = k
    BY <1>0, <1>3, LinksAre
  <1>5. f \in [CutLinks -> T]
    <2>1. \A l \in CutLinks : l.edges \in T
      BY <1>1, <1>2
    <2> HIDE DEF T
    <2> QED
      BY <2>1
  <1>6. \A t \in T : \E l \in CutLinks : f[l] = t
    BY <1>1, <1>2
  <1>7. \A l, k \in CutLinks : f[l] = f[k] => l = k
    BY <1>4
  <1> HIDE DEF T, f
  <1>8. ExistsBijection(CutLinks, T)
    <2>1. f \in Bijection(CutLinks, T)
      BY <1>5, <1>6, <1>7 DEF Bijection, Injection, Surjection, IsInjective
    <2> QED
      BY <2>1 DEF ExistsBijection
  <1>9. Cardinality(T) = Cardinality(CutLinks)
    BY <1>1, <1>8, FS_Bijection
  <1> QED
    BY <1>1, <1>9 DEF T

\* Of the collapsed graph, what stands for a node is what the matrix makes of it.
LEMMA EntityIsGroup ==
    ASSUME Whole, NEW n \in Topology.nodes
    PROVE  Entity(n, by) = Stand(n, by, expanded)
  <1>1. Service[n] # 0 /\ Namespace[n] # 0 /\ expanded = {}
    BY DEF Whole
  <1>2. CASE by = "namespace"
    <2>1. Entity(n, "namespace") = <<"namespace", Namespace[n]>>
      BY <1>1, Zenon DEF Entity
    <2>2. Stand(n, "namespace", {}) = <<"namespace", Namespace[n]>>
      BY Zenon DEF Stand, GroupKey
    <2> QED
      BY <1>1, <1>2, <2>1, <2>2
  <1>3. CASE by = "cluster"
    <2>1. Entity(n, "cluster") = <<"cluster", Cluster[n]>>
      BY <1>1, Zenon DEF Entity
    <2>2. Stand(n, "cluster", {}) = <<"cluster", Cluster[n]>>
      BY Zenon DEF Stand, GroupKey
    <2> QED
      BY <1>1, <1>3, <2>1, <2>2
  <1> QED
    BY <1>2, <1>3 DEF Whole

CellOf(x, y) ==
    IF <<x, y>> \in Pairs(Topology, by) THEN Matrix(Topology, metric, by)[<<x, y>>] ELSE 0

LEMMA LinkIsCells ==
    ASSUME PageInv, Whole, NEW l \in DrawnNow, NEW x, NEW y, l.ends = {x, y}
    PROVE  Value(l.edges, metric) = IF x = y THEN CellOf(x, y) ELSE CellOf(x, y) + CellOf(y, x)
  <1>0. by \in Groups /\ Sound(Topology) /\ metric \in Metrics
    BY TopologyIsSound DEF PageInv, ChoicesOK
  <1> DEFINE E == Topology.edges
             B(a, b) == Between(Topology, by, <<a, b>>)
  <1>1. EdgesNow = E
    BY <1>0 DEF EdgesNow, Inside, Kept, Whole, Sound
  <1>2. IsFiniteSet(E) /\ \A e \in E : e[metric] \in Int
    BY <1>0 DEF Sound
  <1>3. \A e \in E : Pair(e, by) = <<Stand(e.source, by, expanded), Stand(e.target, by, expanded)>>
    BY <1>0, EntityIsGroup DEF Pair, Sound
  <1>4. ASSUME NEW a, NEW b
        PROVE  /\ B(a, b) \in SUBSET E /\ IsFiniteSet(B(a, b)) /\ \A e \in B(a, b) : e[metric] \in Int
               /\ B(a, b) = {e \in E : Stand(e.source, by, expanded) = a /\ Stand(e.target, by, expanded) = b}
               /\ CellOf(a, b) = Value(B(a, b), metric)
    <2>1. B(a, b) \in SUBSET E
      BY DEF Between
    <2>2. IsFiniteSet(B(a, b)) /\ \A e \in B(a, b) : e[metric] \in Int
      BY <1>2, <2>1, FS_Subset
    <2>3. B(a, b) = {e \in E : Stand(e.source, by, expanded) = a /\ Stand(e.target, by, expanded) = b}
      BY <1>3 DEF Between
    <2>4. ASSUME <<a, b>> \in Pairs(Topology, by)
          PROVE  CellOf(a, b) = Value(B(a, b), metric)
      <3>1. CellOf(a, b) = Matrix(Topology, metric, by)[<<a, b>>]
        BY <2>4 DEF CellOf
      <3>2. \A q \in Pairs(Topology, by) : Matrix(Topology, metric, by)[q] = Value(Between(Topology, by, q), metric)
        BY Zenon DEF Matrix
      <3> QED
        BY <2>4, <3>1, <3>2, Zenon
    <2>5. ASSUME <<a, b>> \notin Pairs(Topology, by)
          PROVE  CellOf(a, b) = Value(B(a, b), metric)
      <3>1. B(a, b) = {}
        BY <2>5 DEF Between, Pairs
      <3> QED
        <4>1. CellOf(a, b) = 0
          BY <2>5 DEF CellOf
        <4>2. Value({}, metric) = 0
          BY ValueOfNone
        <4>3. Value(B(a, b), metric) = Value({}, metric)
          BY <3>1, Zenon
        <4> QED
          BY <4>1, <4>2, <4>3, Zenon
    <2> QED
      BY <2>1, <2>2, <2>3, <2>4, <2>5
  <1>5. PICK e0 \in EdgesNow : l = LinkOf(e0)
    BY <1>0, LinksAre
  <1>6. l.edges = {e \in E : Ends(e, by, expanded) = {x, y}}
    <2>1. l.edges = Together(EdgesNow, e0) /\ Ends(e0, by, expanded) = {x, y}
      BY <1>0, <1>5, LinksAre
    <2> QED
      BY <1>1, <2>1 DEF Together, Whole
  <1>7. l.edges = B(x, y) \cup B(y, x)
    <2>1. \A e \in E : Ends(e, by, expanded) = {x, y}
                <=> \/ Stand(e.source, by, expanded) = x /\ Stand(e.target, by, expanded) = y
                    \/ Stand(e.source, by, expanded) = y /\ Stand(e.target, by, expanded) = x
      BY DEF Ends
    <2> HIDE DEF E, B
    <2> QED
      BY <1>4, <1>6, <2>1
  <1>8. CASE x = y
    <2> HIDE DEF B
    <2>1. l.edges = B(x, y)
      BY <1>7, <1>8
    <2>2. CellOf(x, y) = Value(B(x, y), metric)
      BY <1>4
    <2> QED
      BY <1>8, <2>1, <2>2
  <1>9. CASE x # y
    <2>1. B(x, y) \cap B(y, x) = {}
      BY <1>4, <1>9
    <2> HIDE DEF B
    <2>2. Value(B(x, y) \cup B(y, x), metric) = Value(B(x, y), metric) + Value(B(y, x), metric)
      BY <1>4, <2>1, ValueOfUnion
    <2> QED
      BY <1>4, <1>7, <1>9, <2>2
  <1> QED
    BY <1>8, <1>9

\* Graph and matrix show the same traffic, whatever the cut hides is counted, and
\* nothing else is missing, for snapshots of any size: buildGraphModel,
\* applyGrouping and buildMatrix.
THEOREM GraphAndMatrixAgree == PageSpec => []ViewsAgree
  <1>1. PageInv => ViewsAgree
    <2> SUFFICES ASSUME PageInv PROVE ViewsAgree
      OBVIOUS
    <2>1. GraphFacts /\ Sound(Topology) /\ metric \in Metrics /\ by \in Groups /\ cut \in Nat
      BY GraphHasFacts, TopologyIsSound DEF PageInv, ChoicesOK
    <2>2. PartsOf(graph.model, DrawnNow, Stands(Topology, selected, by, expanded), metric, cut)
      BY CutIs
    <2>3. ASSUME NEW e \in LeftEdges
          PROVE  Cardinality(Ends(e, by, expanded)) = 2 /\ Value(Together(EdgesNow, e), metric) < cut
      <3>1. e \in EdgesNow /\ LinkOf(e) \in CutLinks
        BY <2>3, CutIs
      <3>2. LinkOf(e).edges = Together(EdgesNow, e) /\ LinkOf(e).ends = Ends(e, by, expanded)
        BY <2>1, <3>1, LinksAre
      <3>3. Cardinality(LinkOf(e).ends) = 2 /\ ~ (Value(LinkOf(e).edges, metric) >= cut)
        BY <2>2, <3>1 DEF CutLinks, Two, PartsOf, Links
      <3>4. Value(Together(EdgesNow, e), metric) \in Int
        <4>1. Together(EdgesNow, e) \in SUBSET Topology.edges
          BY <3>1 DEF Together, EdgesNow, Inside
        <4>2. IsFiniteSet(Together(EdgesNow, e)) /\ \A x \in Together(EdgesNow, e) : x[metric] \in Int
          BY <2>1, <4>1, FS_Subset DEF Sound
        <4> QED
          BY <4>2, ValueIsInt
      <3> QED
        BY <2>1, <3>2, <3>3, <3>4
    <2>4. graph.model.hidden = Cardinality({Together(EdgesNow, e) : e \in LeftEdges})
      BY HiddenIsCounted
    <2>5. ASSUME NEW n \in Kept(Topology, selected)
          PROVE  Stand(n, by, expanded) \in graph.model.nodes
                 \/ \E e \in LeftEdges : Stand(n, by, expanded) \in Ends(e, by, expanded)
      <3>1. Stand(n, by, expanded) \in Stands(Topology, selected, by, expanded)
        BY DEF Stands
      <3>2. CASE \E l \in CutLinks : Stand(n, by, expanded) \in l.ends
        <4>1. PICK e \in LeftEdges : Stand(n, by, expanded) \in LinkOf(e).ends
          BY <3>2, CutIs
        <4>2. LinkOf(e).ends = Ends(e, by, expanded)
          BY <2>1, LinksAre DEF LeftEdges
        <4> QED
          BY <4>1, <4>2
      <3> QED
        BY <2>2, <3>1, <3>2 DEF PartsOf, CutLinks
    <2>6. \A l \in graph.model.links : l.ends \subseteq graph.model.nodes /\ (cut = 0 \/ Value(l.edges, metric) >= cut)
      BY <2>1, <2>2 DEF GraphFacts, PartsOf, Links
    <2>7. ASSUME Whole, NEW l \in graph.model.links \cup graph.model.selfs, NEW x, NEW y, l.ends = {x, y}
          PROVE  Value(l.edges, metric) = IF x = y THEN CellOf(x, y) ELSE CellOf(x, y) + CellOf(y, x)
      <3>1. l \in DrawnNow
        BY <2>2, <2>7 DEF PartsOf, Links
      <3> QED
        BY <2>7, <3>1, LinkIsCells
    <2> QED
      BY <2>3, <2>4, <2>5, <2>6, <2>7 DEF ViewsAgree, EdgesNow, Inside, LeftEdges, CellOf
  <1> QED
    BY <1>1, PageInvariance, PTL

-----------------------------------------------------------------------------
(* The login.                                                              *)

USE ViewerAssumption, LoginNoneAssumption DEF ViewerAssumption, LoginNoneAssumption

TabAt == Resting \cup {"start", "hosted", "callback"}

\* What a tab knows at each page: a login of its own while it is away, and the
\* cookies it sent while the callback is at work.
Held == [at : TabAt, login : Logins \cup {None}, trio : Logins \cup {None}, marker : BOOLEAN]

AwayOK ==
    /\ tab \in [Tabs -> Held]
    /\ \A t \in Tabs : /\ tab[t].at = "hosted" => tab[t].login # None
                       /\ tab[t].at \notin {"hosted", "callback"} => tab[t].login = None

CookiesOK ==
    /\ trio \in Logins \cup {None} /\ marker \in BOOLEAN /\ session \in BOOLEAN
    /\ disturbed \in BOOLEAN /\ visits \in Nat /\ expiries \in Nat

TabsOK == AwayOK /\ CookiesOK

\* A tab that will start a login again, or has cookies that match.
OnItsWay(t) ==
    \/ tab[t].at = "start"
    \/ tab[t].at = "hosted" /\ (tab[t].login = trio \/ ~marker)
    \/ tab[t].at = "callback" /\ (StateMatches(t) \/ ~tab[t].marker)

\* Until someone is in, somebody who went to log in is on the way: a tab that
\* takes the cookies of another one away, or sets its marker, is on the way
\* itself or takes the marker away with them.
SomebodyComes ==
    visits > 0 /\ ~disturbed => session \/ \E t \in Tabs : OnItsWay(t)

LoginInv == TabsOK /\ SomebodyComes

LEMMA InitLogin == LoginInit => LoginInv
  <1> SUFFICES ASSUME LoginInit PROVE LoginInv
    OBVIOUS
  <1>1. At("page") \in Held /\ At("page").at = "page" /\ At("page").login = None
    BY DEF At, Held, TabAt, Resting
  <1>2. tab = [t \in Tabs |-> At("page")]
    BY DEF LoginInit
  <1>3. AwayOK
    <2>1. tab \in [Tabs -> Held]
      BY <1>1, <1>2
    <2>2. \A t \in Tabs : tab[t] = At("page")
      BY <1>2
    <2> QED
      BY <1>1, <2>1, <2>2 DEF AwayOK
  <1>4. CookiesOK
    BY DEF LoginInit, CookiesOK
  <1>5. ~(visits > 0)
    BY DEF LoginInit
  <1> QED
    BY <1>3, <1>4, <1>5, Zenon DEF LoginInv, TabsOK, SomebodyComes

\* A tab at the start finds a login that nobody is in.
LEMMA FreshIsALogin ==
    ASSUME TabsOK, NEW t \in Tabs, tab[t].at = "start" PROVE FreshLogin \in Logins
  <1> DEFINE taken == [u \in Tabs |-> IF u = t THEN trio ELSE tab[u].login]
  <1>1. taken \in [Tabs -> Logins \cup {None}]
    BY DEF TabsOK, AwayOK, CookiesOK, Held
  <1>2. PICK l \in Logins : \A u \in Tabs : l # taken[u]
    BY <1>1, LoginsAssumption DEF LoginsAssumption
  <1>3. l # trio /\ \A u \in Tabs : l # tab[u].login
    BY <1>2 DEF TabsOK, AwayOK
  <1> QED
    BY <1>3 DEF FreshLogin

\* A tab that goes to a page of its own forgets its login.
LEMMA GoesOK ==
    ASSUME TabsOK, NEW t \in Tabs, NEW p \in {"page", "login", "start", "error"}, Goes(t, p)
    PROVE  AwayOK'
  <1>1. At(p) \in Held /\ At(p).login = None /\ At(p).at = p
    BY DEF At, Held, TabAt, Resting
  <1>2. tab' \in [Tabs -> Held]
    BY <1>1 DEF TabsOK, AwayOK, Goes
  <1>3. tab'[t] = At(p) /\ \A u \in Tabs \ {t} : tab'[u] = tab[u]
    BY DEF TabsOK, AwayOK, Goes
  <1> QED
    BY <1>1, <1>2, <1>3 DEF TabsOK, AwayOK

LEMMA TabsStayOK == ASSUME TabsOK, NEW t \in Tabs, TabStep(t) PROVE TabsOK'
  <1> USE DEF cookies, counts
  <1>1. CASE Navigate(t) \/ Visit(t) \/ Logout(t) \/ SignIn(t) \/ Restart(t) \/ Surface(t) \/ Rejected(t)
    <2>1. \E p \in {"page", "login", "start", "error"} : Goes(t, p)
      BY <1>1 DEF Navigate, Visit, Logout, SignIn, Restart, Surface, Rejected
    <2>3. AwayOK'
      BY <2>1, GoesOK
    <2>2. CookiesOK'
      <3>1. CASE Navigate(t) \/ Visit(t)
        BY <3>1 DEF TabsOK, CookiesOK, Navigate, Visit
      <3>2. CASE Logout(t) \/ SignIn(t)
        BY <3>2 DEF TabsOK, CookiesOK, Logout, SignIn
      <3>3. CASE Restart(t) \/ Surface(t) \/ Rejected(t)
        BY <3>3 DEF TabsOK, CookiesOK, Restart, Surface, Rejected
      <3> QED
        BY <1>1, <3>1, <3>2, <3>3
    <2> QED
      BY <2>2, <2>3 DEF TabsOK
  <1>2. CASE Start(t)
    <2>1. FreshLogin \in Logins
      BY <1>2, FreshIsALogin DEF Start
    <2> QED
      BY <1>2, <2>1 DEF TabsOK, CookiesOK, AwayOK, Held, At, TabAt, Start
  <1>3. CASE Return(t)
    <2>1. tab[t] \in Held /\ tab[t].login # None
      BY <1>3 DEF TabsOK, AwayOK, Return
    <2>2. [tab[t] EXCEPT !.at = "callback", !.trio = trio, !.marker = marker] \in Held
      BY <2>1 DEF TabsOK, CookiesOK, Held, TabAt
    <2>3. \A x \in Tabs : tab'[x] = IF x = t THEN [tab[t] EXCEPT !.at = "callback", !.trio = trio, !.marker = marker]
                                            ELSE tab[x]
      BY <1>3 DEF TabsOK, AwayOK, Return
    <2>4. tab' \in [Tabs -> Held]
      BY <1>3, <2>2, <2>3 DEF TabsOK, AwayOK, Return
    <2>5. tab'[t].at = "callback" /\ tab'[t].login = tab[t].login
      BY <2>1, <2>3 DEF Held
    <2>6. AwayOK'
      BY <2>1, <2>3, <2>4, <2>5 DEF TabsOK, AwayOK
    <2>7. CookiesOK'
      BY <1>3 DEF TabsOK, CookiesOK, Return
    <2> QED
      BY <2>6, <2>7 DEF TabsOK
  <1>4. CASE ReturnRefused(t)
    BY <1>4 DEF TabsOK, CookiesOK, AwayOK, Held, TabAt, At, ReturnRefused
  <1> QED
    BY <1>1, <1>2, <1>3, <1>4 DEF TabStep, Answering

LEMMA SomebodyStillComes == ASSUME LoginInv, NEW t \in Tabs, TabStep(t) PROVE SomebodyComes'
  <1> USE DEF At, TabAt, Resting, Goes, cookies, counts
  <1> SUFFICES ASSUME visits' > 0, ~disturbed', ~session' PROVE \E u \in Tabs : OnItsWay(u)'
    BY DEF SomebodyComes
  <1>1. TabsOK /\ TabsOK'
    BY TabsStayOK DEF LoginInv
  <1>2. CASE Visit(t) \/ Start(t) \/ Restart(t)
    <2>1. OnItsWay(t)'
      BY <1>1, <1>2 DEF Visit, Start, Restart, OnItsWay, TabsOK, AwayOK, CookiesOK, Held
    <2> QED
      BY <2>1
  <1>3. CASE Navigate(t) \/ Return(t) \/ Surface(t)
    <2>1. PICK u \in Tabs : OnItsWay(u)
      BY <1>3 DEF LoginInv, SomebodyComes, Navigate, Return, Surface
    <2>2. OnItsWay(u)'
      BY <1>1, <1>3, <2>1 DEF Navigate, Return, Surface, OnItsWay, StateMatches, TabsOK, AwayOK, CookiesOK, Held
    <2> QED
      BY <2>2
  <1>4. CASE SignIn(t) \/ ReturnRefused(t) \/ Rejected(t) \/ Logout(t)
    BY <1>4 DEF SignIn, ReturnRefused, Rejected, Logout
  <1> QED
    BY <1>2, <1>3, <1>4 DEF TabStep, Answering

LEMMA ExpireLogin == ASSUME LoginInv, Expire PROVE LoginInv'
  <1>1. AwayOK'
    BY DEF LoginInv, TabsOK, AwayOK, Expire
  <1>3. CookiesOK'
    <2>1. expiries' \in Nat /\ visits' \in Nat /\ disturbed' \in BOOLEAN
      BY DEF LoginInv, TabsOK, CookiesOK, Expire
    <2>2. /\ trio' = trio \/ trio' = None
          /\ marker' = marker \/ marker' = FALSE
          /\ session' = session \/ session' = FALSE
      BY Zenon DEF Expire
    <2> QED
      BY <2>1, <2>2 DEF LoginInv, TabsOK, CookiesOK
  <1>2. disturbed'
    BY DEF Expire
  <1> QED
    BY <1>1, <1>2, <1>3 DEF LoginInv, TabsOK, SomebodyComes

LEMMA IdleLogin == ASSUME LoginInv, UNCHANGED loginVars PROVE LoginInv'
  BY DEF LoginInv, TabsOK, AwayOK, CookiesOK, SomebodyComes, loginVars, OnItsWay, StateMatches

LEMMA NextLogin == ASSUME LoginInv, [Next]_vars PROVE LoginInv'
  <1>1. ASSUME NEW t \in Tabs, Login(t) PROVE LoginInv'
    BY <1>1, TabsStayOK, SomebodyStillComes DEF Login, LoginInv
  <1>2. CASE Ages
    BY <1>2, ExpireLogin DEF Ages
  <1>3. CASE UNCHANGED loginVars
    BY <1>3, IdleLogin
  <1>4. ASSUME NEW url \in Urls, Restarts(url) \/ Pause(url) PROVE UNCHANGED loginVars
    BY <1>4 DEF Restarts, Pause
  <1>5. Tick \/ Answers \/ UNCHANGED vars => UNCHANGED loginVars
    BY DEF Tick, Answers, Answer, vars
  <1> QED
    BY <1>1, <1>2, <1>3, <1>4, <1>5 DEF Next

\* However many tabs log in at once and take each other's cookies away, when all
\* have come to rest undisturbed the browser is signed in if one went to log in.
THEOREM OneLoginSucceeds == Spec => []SomebodyGetsIn
  <1>1. Init => LoginInv
    BY InitLogin DEF Init
  <1>2. LoginInv => SomebodyGetsIn
    BY DEF LoginInv, SomebodyComes, SomebodyGetsIn, OnItsWay, Resting
  <1> QED
    BY <1>1, <1>2, NextLogin, PTL DEF Spec
-----------------------------------------------------------------------------
(* The polled page.                                                        *)

\* A page polls exactly while it is there.
PollOK == /\ poll \in Polls \cup {None}
          /\ Mounted <=> tab[Viewer].at = "page"

\* The fetches of the present run are of the url the page is at.
MineAreOfUrl == Mounted => \A i \in DOMAIN poll.out : poll.out[i].mine => poll.out[i].url = poll.url

PollInv == PollOK /\ MineAreOfUrl /\ LoadingHasFetch

\* What RemoveAt leaves of a sequence.
LEMMA Removed ==
    ASSUME NEW S, NEW s \in Seq(S), NEW i \in DOMAIN s
    PROVE  /\ RemoveAt(s, i) \in Seq(S)
           /\ \A j \in DOMAIN RemoveAt(s, i) : \E k \in DOMAIN s : RemoveAt(s, i)[j] = s[k]
           /\ \A k \in DOMAIN s \ {i} : \E j \in DOMAIN RemoveAt(s, i) : RemoveAt(s, i)[j] = s[k]
  <1> DEFINE u == SubSeq(s, 1, i - 1)
             v == SubSeq(s, i + 1, Len(s))
  <1>1. i \in 1 .. Len(s) /\ Len(s) \in Nat
    OBVIOUS
  <1>2. u \in Seq(S) /\ Len(u) = i - 1 /\ \A j \in 1 .. i - 1 : u[j] = s[j]
    BY <1>1, SubSeqProperties
  <1>3. v \in Seq(S) /\ Len(v) = Len(s) - i /\ \A j \in 1 .. Len(s) - i : v[j] = s[i + j]
    BY <1>1, SubSeqProperties
  <1> HIDE DEF u, v
  <1>4. /\ u \o v \in Seq(S) /\ Len(u \o v) = Len(s) - 1
        /\ \A j \in 1 .. Len(s) - 1 : (u \o v)[j] = IF j < i THEN s[j] ELSE s[j + 1]
    BY <1>1, <1>2, <1>3
  <1>5. \A k \in DOMAIN s \ {i} : \E j \in DOMAIN (u \o v) : (u \o v)[j] = s[k]
    <2> SUFFICES ASSUME NEW k \in DOMAIN s \ {i} PROVE \E j \in DOMAIN (u \o v) : (u \o v)[j] = s[k]
      OBVIOUS
    <2>1. CASE k < i
      <3>1. k \in 1 .. Len(s) - 1
        BY <1>1, <2>1
      <3>2. k \in DOMAIN (u \o v)
        BY <1>4, <3>1
      <3>3. (u \o v)[k] = s[k]
        BY <1>4, <2>1, <3>1
      <3> QED
        BY <3>2, <3>3, Zenon
    <2>2. CASE k > i
      <3>1. k - 1 \in DOMAIN (u \o v) /\ (u \o v)[k - 1] = s[k]
        <4>1. k \in 1 .. Len(s) /\ k - 1 \in 1 .. Len(s) - 1 /\ ~(k - 1 < i) /\ (k - 1) + 1 = k
          BY <1>1, <2>2
        <4>2. DOMAIN (u \o v) = 1 .. Len(s) - 1
          BY <1>1, <1>4
        <4> QED
          BY <1>4, <4>1, <4>2
      <3> QED
        BY <3>1
    <2> QED
      BY <1>1, <2>1, <2>2
  <1>6. \A j \in DOMAIN (u \o v) : \E k \in DOMAIN s : (u \o v)[j] = s[k]
    <2> SUFFICES ASSUME NEW j \in DOMAIN (u \o v) PROVE \E k \in DOMAIN s : (u \o v)[j] = s[k]
      OBVIOUS
    <2>1. j \in 1 .. Len(s) - 1
      BY <1>1, <1>4
    <2>2. j \in DOMAIN s /\ j + 1 \in DOMAIN s
      BY <1>1, <2>1
    <2> QED
      BY <1>4, <2>1, <2>2
  <1>7. RemoveAt(s, i) = u \o v
    BY DEF RemoveAt, u, v
  <1>8. RemoveAt(s, i) \in Seq(S)
    BY <1>4, <1>7
  <1>9. \A j \in DOMAIN RemoveAt(s, i) : \E k \in DOMAIN s : RemoveAt(s, i)[j] = s[k]
    BY <1>6, <1>7
  <1>10. \A k \in DOMAIN s \ {i} : \E j \in DOMAIN RemoveAt(s, i) : RemoveAt(s, i)[j] = s[k]
    BY <1>5, <1>7
  <1> QED
    BY <1>8, <1>9, <1>10

LEMMA CancelledOK ==
    ASSUME NEW out \in Seq(Fetches)
    PROVE  /\ Cancelled(out) \in Seq(Fetches) /\ Len(Cancelled(out)) = Len(out)
           /\ \A i \in DOMAIN Cancelled(out) : ~Cancelled(out)[i].mine
  <1>1. Len(out) \in Nat /\ DOMAIN out = 1 .. Len(out)
    OBVIOUS
  <1>2. ASSUME NEW i \in 1 .. Len(out)
        PROVE  [out[i] EXCEPT !.mine = FALSE] \in Fetches /\ ~[out[i] EXCEPT !.mine = FALSE].mine
    <2>1. out[i] \in Fetches
      OBVIOUS
    <2> QED
      BY <2>1 DEF Fetches
  <1>3. Cancelled(out) = [i \in 1 .. Len(out) |-> [out[i] EXCEPT !.mine = FALSE]]
    BY <1>1 DEF Cancelled
  <1>4. Cancelled(out) \in [1 .. Len(out) -> Fetches]
    BY <1>2, <1>3
  <1>5. Cancelled(out) \in Seq(Fetches) /\ Len(Cancelled(out)) = Len(out)
    BY <1>1, <1>4
  <1> QED
    BY <1>2, <1>3, <1>5

LEMMA BlankOK ==
    ASSUME NEW url \in Urls, NEW in \in BOOLEAN,
           NEW out, out = <<[url |-> url, mine |-> TRUE, admitted |-> in]>>
    PROVE  /\ out \in Seq(Fetches) /\ Len(out) = 1 /\ out[1].mine /\ out[1].url = url
           /\ [url |-> url, enabled |-> TRUE, data |-> None, error |-> FALSE, loading |-> TRUE,
               out |-> out] \in Polls
  <1>1. [url |-> url, mine |-> TRUE, admitted |-> in] \in Fetches
    BY DEF Fetches
  <1>2. out \in Seq(Fetches) /\ Len(out) = 1
    BY <1>1
  <1>3. out[1].mine /\ out[1].url = url
    OBVIOUS
  <1>4. ASSUME NEW o \in Seq(Fetches)
        PROVE  [url |-> url, enabled |-> TRUE, data |-> None, error |-> FALSE, loading |-> TRUE,
                out |-> o] \in Polls
    BY DEF Polls
  <1> QED
    BY <1>2, <1>3, <1>4

USE PollNoneAssumption DEF PollNoneAssumption

\* What the page shows when the hook is first run.
LEMMA BlankInv ==
    ASSUME tab'[Viewer].at = "page", NEW url \in Urls, NEW in \in BOOLEAN,
           poll' = [url |-> url, enabled |-> TRUE, data |-> None, error |-> FALSE, loading |-> TRUE,
                    out |-> <<[url |-> url, mine |-> TRUE, admitted |-> in]>>]
    PROVE  PollInv'
  <1> DEFINE out == <<[url |-> url, mine |-> TRUE, admitted |-> in]>>
  <1>1. /\ out \in Seq(Fetches) /\ Len(out) = 1 /\ out[1].mine /\ out[1].url = url
        /\ [url |-> url, enabled |-> TRUE, data |-> None, error |-> FALSE, loading |-> TRUE,
            out |-> out] \in Polls
    BY BlankOK
  <1>2. poll'.url = url /\ poll'.out = out
    OBVIOUS
  <1>3. poll' \in Polls
    BY <1>1
  <1>4. DOMAIN out = {1}
    BY <1>1
  <1> QED
    BY <1>1, <1>2, <1>3, <1>4 DEF PollInv, PollOK, MineAreOfUrl, LoadingHasFetch, Mounted

\* The page that is there at first; an expired session does not show yet.
LEMMA InitPoll == Init => PollInv
  <1> SUFFICES ASSUME Init PROVE PollInv
    OBVIOUS
  <1>1. PICK url \in Urls : poll = Blank(url, session)
    BY DEF Init
  <1>2. tab[Viewer].at = "page" /\ session = FALSE
    BY DEF Init, LoginInit, At
  <1> DEFINE out == <<[url |-> url, mine |-> TRUE, admitted |-> FALSE]>>
  <1>3. /\ out \in Seq(Fetches) /\ Len(out) = 1 /\ out[1].mine /\ out[1].url = url
        /\ [url |-> url, enabled |-> TRUE, data |-> None, error |-> FALSE, loading |-> TRUE,
            out |-> out] \in Polls
    BY BlankOK
  <1>4. poll = [url |-> url, enabled |-> TRUE, data |-> None, error |-> FALSE, loading |-> TRUE,
                out |-> out]
    BY <1>1, <1>2 DEF Blank
  <1>5. poll \in Polls /\ poll.url = url /\ poll.out = out
    BY <1>3, <1>4
  <1>6. DOMAIN out = {1}
    BY <1>3
  <1> QED
    BY <1>2, <1>3, <1>5, <1>6 DEF PollInv, PollOK, MineAreOfUrl, LoadingHasFetch, Mounted

\* Only a finished login leads to the page; only a page without a session, and
\* a logout, lead away from it.
LEMMA LoginPoll == ASSUME LoginInv, PollInv, NEW t \in Tabs, Login(t) PROVE PollInv'
  <1>1. tab \in [Tabs -> Held] /\ tab' \in [Tabs -> Held] /\ session' \in BOOLEAN
    BY TabsStayOK DEF LoginInv, TabsOK, AwayOK, CookiesOK, Login
  <1>2. CASE t = Viewer /\ tab[t].at = "page"
    <2>1. poll' = None
      BY <1>2 DEF Login
    <2>2. tab'[Viewer].at # "page"
      <3>1. Navigate(t) \/ Logout(t)
        BY <1>2 DEF Login, TabStep, Visit, Answering, Start, Return, ReturnRefused, SignIn, Restart,
                    Surface, Rejected
      <3>2. tab'[t] = At("login")
        BY <1>1, <3>1 DEF Navigate, Logout, Goes
      <3> QED
        BY <1>2, <3>2 DEF At
    <2> QED
      BY <2>1, <2>2 DEF PollInv, PollOK, MineAreOfUrl, LoadingHasFetch, Mounted
  <1>3. CASE t = Viewer /\ tab[t].at # "page" /\ tab'[t].at = "page"
    <2>1. PICK url \in Urls : poll' = Blank(url, session')
      BY <1>3 DEF Login
    <2>2. poll' = [url |-> url, enabled |-> TRUE, data |-> None, error |-> FALSE, loading |-> TRUE,
                   out |-> <<[url |-> url, mine |-> TRUE, admitted |-> session']>>]
      BY <2>1 DEF Blank
    <2> QED
      BY <1>1, <1>3, <2>2, BlankInv
  <1>4. CASE t = Viewer /\ tab[t].at # "page" /\ tab'[t].at # "page"
    <2>1. UNCHANGED poll
      BY <1>4 DEF Login
    <2> QED
      BY <1>4, <2>1 DEF PollInv, PollOK, MineAreOfUrl, LoadingHasFetch, Mounted
  <1>5. CASE t # Viewer
    <2>1. UNCHANGED poll
      BY <1>5 DEF Login
    <2>2. tab'[Viewer] = tab[Viewer]
      BY <1>1, <1>5 DEF Login, TabStep, Answering, Navigate, Visit, Start, Return, ReturnRefused, SignIn,
                        Restart, Surface, Rejected, Logout, Goes
    <2> QED
      BY <2>1, <2>2 DEF PollInv, PollOK, MineAreOfUrl, LoadingHasFetch, Mounted
  <1> QED
    BY <1>2, <1>3, <1>4, <1>5

\* The first fetch of a run is of its url, and the ones before are cancelled.
LEMMA RestartsPoll == ASSUME LoginInv, PollInv, NEW url \in Urls, Restarts(url) PROVE PollInv'
  <1> DEFINE old == Cancelled(poll.out)
             out == Append(old, Fetch(url))
  <1>1. poll \in Polls /\ poll.out \in Seq(Fetches) /\ UNCHANGED tab /\ Mounted
    BY DEF PollInv, PollOK, Restarts, Room, Mounted, Polls, loginVars
  <1>2. /\ old \in Seq(Fetches) /\ Len(old) \in Nat /\ DOMAIN old = 1 .. Len(old)
        /\ \A i \in 1 .. Len(old) : ~old[i].mine
    BY <1>1, CancelledOK
  <1>3. Fetch(url) \in Fetches /\ Fetch(url).mine /\ Fetch(url).url = url
    BY DEF Fetch, Fetches, LoginInv, TabsOK, CookiesOK
  <1>4. poll' = [poll EXCEPT !.url = url, !.enabled = TRUE, !.loading = TRUE, !.out = out]
    BY DEF Restarts, Effect
  <1> HIDE DEF old
  <1>5. /\ out \in Seq(Fetches) /\ DOMAIN out = 1 .. Len(old) + 1
        /\ \A i \in 1 .. Len(old) : out[i] = old[i]
        /\ out[Len(old) + 1] = Fetch(url)
    BY <1>2, <1>3
  <1> HIDE DEF out
  <1>6. poll' \in Polls /\ poll'.url = url /\ poll'.out = out
    BY <1>1, <1>4, <1>5 DEF Polls
  <1>7. MineAreOfUrl'
    BY <1>2, <1>3, <1>5, <1>6 DEF MineAreOfUrl
  <1>8. LoadingHasFetch'
    BY <1>2, <1>3, <1>5, <1>6 DEF LoadingHasFetch
  <1> QED
    BY <1>1, <1>6, <1>7, <1>8 DEF PollInv, PollOK, Mounted

\* A page that polls no more shows no indicator.
LEMMA PausePoll == ASSUME PollInv, NEW url \in Urls, Pause(url) PROVE PollInv'
  <1>1. poll \in Polls /\ poll.out \in Seq(Fetches) /\ UNCHANGED tab /\ Mounted
    BY DEF PollInv, PollOK, Pause, Mounted, Polls, loginVars
  <1> DEFINE out == Cancelled(poll.out)
  <1>2. out \in Seq(Fetches) /\ \A i \in DOMAIN out : ~out[i].mine
    BY <1>1, CancelledOK
  <1>3. poll' = [poll EXCEPT !.url = url, !.enabled = FALSE, !.loading = FALSE, !.out = out]
    BY DEF Pause
  <1> HIDE DEF out
  <1>4. poll' \in Polls /\ poll'.out = out /\ ~poll'.loading
    BY <1>1, <1>2, <1>3 DEF Polls
  <1> QED
    BY <1>1, <1>2, <1>4 DEF PollInv, PollOK, MineAreOfUrl, LoadingHasFetch, Mounted

\* A fetch of the interval belongs to the run that is going on.
LEMMA TickPoll == ASSUME LoginInv, PollInv, Tick PROVE PollInv'
  <1>1. poll \in Polls /\ poll.out \in Seq(Fetches) /\ poll.url \in Urls /\ UNCHANGED tab /\ Mounted
    BY DEF PollInv, PollOK, Tick, Room, Mounted, Polls, loginVars
  <1> DEFINE f == Fetch(poll.url)
             out == Append(poll.out, f)
  <1>2. f \in Fetches /\ f.mine /\ f.url = poll.url
    BY <1>1 DEF Fetch, Fetches, LoginInv, TabsOK, CookiesOK
  <1>3. poll' = [poll EXCEPT !.out = out]
    BY DEF Tick
  <1> HIDE DEF f
  <1>4. /\ out \in Seq(Fetches) /\ Len(poll.out) \in Nat
        /\ DOMAIN poll.out = 1 .. Len(poll.out) /\ DOMAIN out = 1 .. Len(poll.out) + 1
        /\ \A i \in 1 .. Len(poll.out) : out[i] = poll.out[i]
        /\ out[Len(poll.out) + 1] = f
    BY <1>1, <1>2
  <1> HIDE DEF out
  <1>5. poll' \in Polls /\ poll'.url = poll.url /\ poll'.out = out /\ poll'.loading = poll.loading
    BY <1>1, <1>3, <1>4 DEF Polls
  <1>6. MineAreOfUrl'
    BY <1>1, <1>2, <1>4, <1>5 DEF MineAreOfUrl, PollInv
  <1>7. LoadingHasFetch'
    BY <1>1, <1>2, <1>4, <1>5 DEF LoadingHasFetch, PollInv
  <1> QED
    BY <1>1, <1>5, <1>6, <1>7 DEF PollInv, PollOK, Mounted

\* The fetch that ends the loading is the one that answers; the others stay.
LEMMA AnswerPoll ==
    ASSUME PollInv, Mounted, NEW i \in DOMAIN poll.out, Answer(i)
    PROVE  PollInv' /\ (poll'.data # poll.data => poll'.data = poll'.url)
  <1> DEFINE f == poll.out[i]
             out == RemoveAt(poll.out, i)
             now == poll.loading /\ ~f.mine
  <1>1. /\ poll \in Polls /\ poll.out \in Seq(Fetches) /\ poll.url \in Urls
        /\ f \in Fetches /\ f.url \in Urls /\ f.mine \in BOOLEAN /\ UNCHANGED tab
    <2>1. poll \in Polls /\ UNCHANGED tab
      BY DEF PollInv, PollOK, Mounted, Answer, loginVars
    <2>2. poll.out \in Seq(Fetches) /\ poll.url \in Urls
      BY <2>1 DEF Polls
    <2>3. poll.out[i] \in Fetches
      BY <2>2
    <2> QED
      BY <2>1, <2>2, <2>3 DEF Fetches
  <1>2. /\ out \in Seq(Fetches)
        /\ \A j \in DOMAIN out : \E k \in DOMAIN poll.out : out[j] = poll.out[k]
        /\ \A k \in DOMAIN poll.out \ {i} : \E j \in DOMAIN out : out[j] = poll.out[k]
    BY <1>1, Removed
  <1>3. \/ poll' = [poll EXCEPT !.out = out, !.loading = now]
        \/ poll' = [poll EXCEPT !.out = out, !.loading = now, !.error = TRUE]
        \/ f.mine /\ poll' = [poll EXCEPT !.out = out, !.loading = now, !.data = f.url, !.error = FALSE]
    BY <1>1 DEF Answer, Polls
  <1> HIDE DEF out, f, now
  <1>4. now \in BOOLEAN
    BY DEF now
  <1>5. /\ poll' \in Polls /\ poll'.out = out /\ poll'.url = poll.url /\ poll'.loading = now
        /\ poll'.data # poll.data => f.mine /\ poll'.data = f.url
    <2>1. CASE poll' = [poll EXCEPT !.out = out, !.loading = now]
      BY <1>1, <1>2, <1>4, <2>1 DEF Polls
    <2>2. CASE poll' = [poll EXCEPT !.out = out, !.loading = now, !.error = TRUE]
      BY <1>1, <1>2, <1>4, <2>2 DEF Polls
    <2>3. CASE f.mine /\ poll' = [poll EXCEPT !.out = out, !.loading = now, !.data = f.url, !.error = FALSE]
      BY <1>1, <1>2, <1>4, <2>3 DEF Polls
    <2> QED
      BY <1>3, <2>1, <2>2, <2>3
  <1>6. f.mine => f.url = poll.url
    BY DEF PollInv, MineAreOfUrl, f
  <1>7. MineAreOfUrl'
    BY <1>2, <1>5 DEF PollInv, MineAreOfUrl
  <1>8. LoadingHasFetch'
    <2> SUFFICES ASSUME now PROVE \E j \in DOMAIN out : out[j].mine
      BY <1>5 DEF LoadingHasFetch
    <2>1. PICK k \in DOMAIN poll.out : poll.out[k].mine
      BY DEF PollInv, LoadingHasFetch, now
    <2>2. k # i
      BY <2>1 DEF now, f
    <2> QED
      BY <1>2, <2>1, <2>2
  <1> QED
    BY <1>1, <1>5, <1>6, <1>7, <1>8 DEF PollInv, PollOK, Mounted

LEMMA NextPoll == ASSUME LoginInv, PollInv, [Next]_vars PROVE PollInv'
  <1>1. CASE UNCHANGED <<tab, poll>>
    BY <1>1 DEF PollInv, PollOK, MineAreOfUrl, LoadingHasFetch, Mounted
  <1>2. Ages \/ UNCHANGED vars => UNCHANGED <<tab, poll>>
    BY DEF Ages, Expire, vars, loginVars
  <1>3. CASE Answers
    BY <1>3, AnswerPoll DEF Answers
  <1> QED
    BY <1>1, <1>2, <1>3, LoginPoll, RestartsPoll, PausePoll, TickPoll DEF Next

LEMMA Polling == Spec => [](LoginInv /\ PollInv)
  <1>1. Init => LoginInv /\ PollInv
    BY InitLogin, InitPoll DEF Init
  <1>2. LoginInv /\ PollInv /\ [Next]_vars => (LoginInv /\ PollInv)'
    BY NextLogin, NextPoll
  <1> QED
    BY <1>1, <1>2, PTL DEF Spec

(* A page that shows it is loading has a fetch out that ends that, however *)
(* many fetches overlap (use-polling.ts).                                  *)
THEOREM LoadingEnds == Spec => []LoadingHasFetch
  <1>1. LoginInv /\ PollInv => LoadingHasFetch
    BY DEF PollInv
  <1> QED
    BY <1>1, Polling, PTL

(* An answer to a url that was left never shows: the data of a page is     *)
(* replaced only by the data of the url it is at (use-polling.ts:14).      *)
THEOREM DataIsOfItsUrl == Spec => NoForeignData
  <1> DEFINE Own == (Mounted /\ poll' # None /\ poll'.data # poll.data) => poll'.data = poll'.url
  <1>1. ASSUME LoginInv, PollInv, Next, Mounted, poll' # None, poll'.data # poll.data
        PROVE  poll'.data = poll'.url
    <2>1. poll \in Polls
      BY <1>1 DEF PollInv, PollOK, Mounted
    <2>2. CASE Answers
      BY <1>1, <2>2, AnswerPoll DEF Answers
    <2>3. ASSUME NEW t \in Tabs, Login(t) PROVE FALSE
      <3>1. poll' = None \/ tab[Viewer].at # "page" \/ poll' = poll
        BY <2>3 DEF Login
      <3> QED
        BY <1>1, <3>1 DEF PollInv, PollOK, Mounted
    <2>4. ASSUME NEW url \in Urls, Restarts(url) PROVE FALSE
      <3>1. poll'.data = poll.data
        BY <2>1, <2>4 DEF Restarts, Effect, Polls
      <3> QED
        BY <1>1, <3>1
    <2>5. CASE Ages
      BY <1>1, <2>5 DEF Ages
    <2>6. CASE Tick \/ \E url \in Urls : Pause(url)
      <3>1. poll'.data = poll.data
        BY <2>1, <2>6 DEF Pause, Tick, Polls
      <3> QED
        BY <1>1, <3>1
    <2> QED
      BY <1>1, <2>2, <2>3, <2>4, <2>5, <2>6 DEF Next
  <1>2. LoginInv /\ PollInv /\ [Next]_vars => [Own]_vars
    BY <1>1
  <1>3. [][Own]_vars => NoForeignData
    BY DEF NoForeignData
  <1> QED
    BY <1>2, <1>3, Polling, PTL DEF Spec
=============================================================================
