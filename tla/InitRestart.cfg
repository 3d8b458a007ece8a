\* Does an init container that is restarted after mkdir still complete?
CONSTANTS
    ip1 = ip1
    ip2 = ip2
    IPs <- MCIPs
    NoIP = NoIP
    Absent = Absent
    KeyInit <- MCKeyReady
    MaxKills = 1
SPECIFICATION Spec
PROPERTIES
    InitCompletes
CHECK_DEADLOCK FALSE
