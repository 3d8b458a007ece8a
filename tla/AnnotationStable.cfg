\* One pod: does it keep the address it was annotated with?
CONSTANTS
    RangeStart = 1
    RangeEnd = 3
    NoIP = NoIP
    b9 = b9
    mdns = mdns
    o0 = o0
    o1 = o1
    Roles <- MCRolesOne
    Ordinals <- MCOrdinalsOne
    MaxRetries = 5
    MaxReplicas = 2
SYMMETRY MCSymmetry
SPECIFICATION Spec
PROPERTY AnnotationStable
