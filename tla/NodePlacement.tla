---------------------------- MODULE NodePlacement ----------------------------
(***************************************************************************)
(* Where the graph puts its nodes: the layout state of                     *)
(* app/src/components/topology/NetworkGraph.tsx.                           *)
(*                                                                         *)
(* A node has the place 0 when the simulation put it somewhere, and the    *)
(* number of a drag when the user last left it there.  The simulation      *)
(* never moves a node whose place it knows (computeLayout pins it).  A     *)
(* graph is a record with the nodes of its model, its layout key, the ids  *)
(* that are live and the nodes it shows.                                   *)
(***************************************************************************)
EXTENDS Integers, FiniteSets

CONSTANT MaxPersisted   \* MAX_PERSISTED_NODES
ASSUME PersistedAssumption == MaxPersisted \in Nat

VARIABLES
    cache,      \* positionCacheRef: the remembered place of a node
    stored,     \* the copy in localStorage
    positions,  \* the memo of computeLayout
    rf          \* where React Flow shows each node

placeVars == <<cache, stored, positions, rf>>

Empty == [n \in {} |-> 0]

\* computeLayout.
Placed(nodes, known) == [n \in nodes |-> IF n \in DOMAIN known THEN known[n] ELSE 0]

\* persistPositions.
Persist(places) ==
    stored' = IF Cardinality(DOMAIN places) \in 1 .. MaxPersisted THEN places ELSE stored

\* Mutation of Merge: nothing is evicted.
MergeForever(places, known, live) ==
    [n \in DOMAIN places \cup DOMAIN known |-> IF n \in DOMAIN places THEN places[n] ELSE known[n]]

\* The merge effect with evictStalePositions.
Merge(places, known, live) ==
    [n \in (DOMAIN places \cup DOMAIN known) \cap live |->
        IF n \in DOMAIN places THEN places[n] ELSE known[n]]

\* The component mounts: the cache is read back and everything is placed.
Mount(graph) ==
    LET places == Placed(graph.model.nodes, stored)
        merged == Merge(places, stored, graph.live)
    IN /\ positions' = places
       /\ cache' = merged
       /\ Persist(merged)
       /\ rf' = [n \in graph.shown |-> places[n]]

\* A render of the mounted component: a structural change computes the layout
\* again, and the effect runs when the layout or the live ids changed.
Relayout(before, after) ==
    LET structural == before.key # after.key
        places == IF structural THEN Placed(after.model.nodes, cache) ELSE positions
        merged == Merge(places, cache, after.live)
    IN /\ positions' = places
       /\ IF structural \/ before.live # after.live
          THEN cache' = merged /\ Persist(merged)
          ELSE UNCHANGED <<cache, stored>>
       /\ rf' = [n \in after.shown |->
                    IF ~structural /\ n \in DOMAIN rf THEN rf[n] ELSE places[n]]

Unmount ==
    /\ cache' = Empty /\ positions' = Empty /\ rf' = Empty
    /\ UNCHANGED stored

\* handleNodeDragStop.
DropAt(n, place) ==
    LET dropped == [m \in DOMAIN cache \cup {n} |-> IF m = n THEN place ELSE cache[m]]
    IN /\ cache' = dropped
       /\ Persist(dropped)
       /\ rf' = [rf EXCEPT ![n] = place]
       /\ UNCHANGED positions
=============================================================================
