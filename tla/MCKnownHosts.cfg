SPECIFICATION Spec
CONSTANTS
    n1 = n1
    n2 = n2
    Longest = 3
    NULL = NULL
    HostName <- MCHostName
    Port <- MCPort
    Digest <- MCDigest
    Builds = {TRUE, FALSE}
    ConfigKey <- MCConfigKey
    Files <- MCFiles
    Servers <- MCServers
    Certs <- MCCerts
CHECK_DEADLOCK FALSE
INVARIANTS
    RevocationWins
    AcceptedIsVouched
    VouchedIsAccepted
    MismatchMeansKnown
    KnownFirst
    NoFalseMismatch
