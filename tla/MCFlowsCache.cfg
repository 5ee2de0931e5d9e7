SPECIFICATION Spec
CONSTANTS
    Requests = {r1, r2}
    Entries = {e1, e2, e3, e4}
    Probes = {p1, p2, p3}
    Windows = {w}
    Lenses = {l}
    WindowOf <- MCWindowOf
    Cap = 1
    MaxCycle = 1
    MaxGrid = 1
    Null = Null
SYMMETRY Symmetry
INVARIANTS OneFetchPerKey WindowsAreFresh
PROPERTIES OnlyPendingAboveCap
