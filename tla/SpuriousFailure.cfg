SPECIFICATION Spec
CONSTANTS
    s1 = s1
    s2 = s2
    s3 = s3
    s4 = s4
    Statements = {s1, s2}
    Limit = 2
    DAY = 2
    MaxTime = 3
CHECK_DEADLOCK FALSE
INVARIANT NoSpuriousFailure
