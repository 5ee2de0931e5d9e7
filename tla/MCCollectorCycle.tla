-------------------------- MODULE MCCollectorCycle --------------------------
EXTENDS CollectorCycle, TLC

\* Slots and entities are interchangeable.
Symmetry == Permutations(Invocations) \cup Permutations(Entities)
=============================================================================
