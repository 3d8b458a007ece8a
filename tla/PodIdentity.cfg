\* Pods of designate StatefulSets: the reconciler and the init scripts agree.
CONSTANTS
    OtherHeads <- MCOtherHeads
    Malformed = Malformed
    MaxTail = 3
SPECIFICATION Spec
INVARIANTS
    StatefulSetPodsAgree
CHECK_DEADLOCK FALSE
