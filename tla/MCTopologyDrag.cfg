SPECIFICATION PageSpec
CONSTANTS
    Cluster <- MCCluster
    Namespace <- MCNamespace
    Service <- MCService
    Az <- MCAz
    All = All
    Snapshots <- MCSnapshots
    Clusters = {1}
    Categories = {}
    Groupings = {"none", "namespace"}
    Metrics = {"data", "retrans"}
    MaxSelected = 1
    MaxDrags = 1
    MaxPersisted = 9
INVARIANTS
    DragsPersist
CHECK_DEADLOCK FALSE
