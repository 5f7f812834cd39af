SPECIFICATION Spec
CONSTANTS
    NULL = NULL
    me = me
    other = other
    alias = alias
    real = real
    k = k
    s = s
    var = var
    User <- MCUser
    Name <- MCName
    Rest <- MCRest
    Var <- MCVar
    File <- MCFile
    Sock <- MCFile
    Content <- MCContent
    Hosts <- MCHosts
    Systems <- MCSystems
    Targets <- MCTargets
    MaxCalls = 3
CHECK_DEADLOCK FALSE
INVARIANTS
    OnlyConfigured
    NothingConfiguredIsLost
    PartsMakeHost
