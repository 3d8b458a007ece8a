\* A Topology with an affinity: does it decide the pods' affinity?
CONSTANTS
    InstanceName = "designate-backendbind9"
    StorageRequests <- MCStorageRequests
    Quantity <- MCQuantity
    NoSelector = NoSelector
    sel = sel
    Selectors <- MCSelectors
    zoneAffinity = zoneAffinity
    TopologyAffinities = {zoneAffinity}
    MaxReplicas = 2
SPECIFICATION Spec
INVARIANT TopologyAffinityKept
