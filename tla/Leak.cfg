\* One pod under fairness: is the address of a deleted pod released?
CONSTANTS
    RangeStart = 1
    RangeEnd = 3
    NoIP = NoIP
    b9 = b9
    mdns = mdns
    o0 = o0
    o1 = o1
    Roles <- MCRolesOne
    Ordinals <- MCOrdinalsOne
    MaxRetries = 2
    MaxReplicas = 1
SPECIFICATION FairSpec
PROPERTY ReleaseOnDeletion
