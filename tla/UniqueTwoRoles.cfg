\* The bind9 and mdns StatefulSets, one pod each: do pods of two roles get distinct addresses?
CONSTANTS
    RangeStart = 1
    RangeEnd = 3
    NoIP = NoIP
    b9 = b9
    mdns = mdns
    o0 = o0
    o1 = o1
    Roles <- MCRolesTwo
    Ordinals <- MCOrdinalsOne
    MaxRetries = 5
    MaxReplicas = 2
SYMMETRY MCSymmetry
SPECIFICATION Spec
INVARIANT UniqueAddresses
