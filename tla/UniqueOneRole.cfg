\* One StatefulSet with ordinals 0 and 1: do its two pods get distinct addresses?
CONSTANTS
    RangeStart = 1
    RangeEnd = 3
    NoIP = NoIP
    b9 = b9
    mdns = mdns
    o0 = o0
    o1 = o1
    Roles <- MCRolesOne
    Ordinals <- MCOrdinalsTwo
    MaxRetries = 5
    MaxReplicas = 2
SYMMETRY MCSymmetry
SPECIFICATION Spec
INVARIANT UniqueAddresses
