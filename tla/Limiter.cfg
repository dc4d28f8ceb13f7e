SPECIFICATION Spec
CONSTANTS
    p = p
    q = q
    Senders <- TwoSenders
    Limit = 2
    Interval = 3
    MaxTime = 9
INVARIANTS
    TypeOK
    NeverAboveLimit
    RefusedOnlyAtLimit
