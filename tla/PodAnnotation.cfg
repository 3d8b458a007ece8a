\* One pod of one StatefulSet, two addresses, bind/mdns maps of up to two
\* replicas each, two attempts of the conflict loop (a retry, then the
\* loop exhausted; the code's 5 adds only longer chains of conflicts);
\* fairness of the worker and
\* the informers (no symmetry: it is unsound for liveness).
CONSTANTS
    RangeStart = 1
    RangeEnd = 3
    NoIP = NoIP
    b9 = b9
    mdns = mdns
    o0 = o0
    o1 = o1
    Roles <- MCRolesOne
    Ordinals <- MCOrdinalsOne
    MaxRetries = 2
    MaxReplicas = 2
SPECIFICATION FairSpec
INVARIANT TypeOK NoLostRequest
PROPERTY StoreRefinement ReconcileTerminates
