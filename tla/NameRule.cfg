\* Pods admitted by their name alone: do they have an ordinal?
CONSTANTS
    OtherHeads <- MCOtherHeads
    Malformed = Malformed
    MaxTail = 3
SPECIFICATION Spec
INVARIANTS
    NameRuleHasOrdinal
CHECK_DEADLOCK FALSE
