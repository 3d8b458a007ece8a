\* Restarts, kills and a late rndc key: what the completed init container holds.
CONSTANTS
    ip1 = ip1
    ip2 = ip2
    IPs <- MCIPs
    NoIP = NoIP
    Absent = Absent
    KeyInit <- MCKeyLate
    MaxKills = 2
SYMMETRY Symmetry
SPECIFICATION Spec
INVARIANTS
    TypeOK
    CompletesWithAnnotatedIP
CHECK_DEADLOCK FALSE
