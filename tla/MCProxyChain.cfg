SPECIFICATION Spec
CONSTANTS
    na = na
    nb = nb
    nc = nc
    me = me
    NULL = NULL
    Name <- MCName
    User <- MCUser
    Port <- MCPort
    Confs <- MCConfs
    Queries <- MCQueries
    Expansion <- MCExpansion
    MaxBastions <- MCMaxBastions
CHECK_DEADLOCK FALSE
INVARIANTS
    RouteIsExpansion
    IterLinks
    FailsIffUnresolved
PROPERTY AcyclicReturns
