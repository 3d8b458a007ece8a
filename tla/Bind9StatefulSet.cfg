\* Edits of the CR, renders, scaling and bind's writes to its PVCs: is the
\* StatefulSet well formed, is the init container's output where bind reads
\* it?
CONSTANTS
    InstanceName = "designate-backendbind9"
    StorageRequests <- MCStorageRequests
    Quantity <- MCQuantity
    NoSelector = NoSelector
    sel = sel
    Selectors <- MCSelectors
    zoneAffinity = zoneAffinity
    TopologyAffinities = {zoneAffinity}
    MaxReplicas = 2
SPECIFICATION Spec
INVARIANTS
    TypeOK
    VolumesDeclared
    InitOutputReachesService
