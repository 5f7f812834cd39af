SPECIFICATION PlanSpec
CONSTANTS
    k1 = k1
    k2 = k2
    p1 = p1
    bad = bad
    sock = sock
    NULL = NULL
    File <- MCFile
    Sock <- MCSock
    Content <- MCContent
    Auths <- MCAuths
CHECK_DEADLOCK FALSE
INVARIANT NoneOnlyIfIncluded
