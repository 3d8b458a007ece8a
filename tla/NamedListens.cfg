\* Is named configured on the predictable IP when the init container is done?
CONSTANTS
    ip1 = ip1
    ip2 = ip2
    IPs <- MCIPs
    NoIP = NoIP
    Absent = Absent
    KeyInit <- MCKeyLate
    MaxKills = 2
SYMMETRY Symmetry
SPECIFICATION Spec
INVARIANTS
    NamedListensOnIP
CHECK_DEADLOCK FALSE
