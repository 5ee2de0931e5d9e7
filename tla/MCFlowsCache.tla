---------------------------- MODULE MCFlowsCache ----------------------------
EXTENDS FlowsCache, TLC

\* Every lens of the instance reads its one window.
MCWindowOf == [l \in Lenses |-> CHOOSE w \in Windows : TRUE]

\* Requests are interchangeable.
Symmetry == Permutations(Requests)
=============================================================================
