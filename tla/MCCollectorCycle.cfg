SPECIFICATION Spec
CONSTANTS
    Invocations = {i1, i2}
    Entities = {k1, k2}
    Every = 2
    MaxStarts = 3
SYMMETRY Symmetry
INVARIANTS NoSlotSkipped RowsFollowStatus BreachesAreAnnounced AlertsAlternate
CHECK_DEADLOCK FALSE
