SPECIFICATION FairSpec
CONSTANTS
    k1 = k1
    k2 = k2
    p2 = p2
    c1 = c1
    sock = sock
    h1 = h1
    h2 = h2
    h3 = h3
    key1 = key1
    key2 = key2
    key3 = key3
    NULL = NULL
    File <- MCFile
    Sock <- MCSock
    Host <- MCHost
    Key <- MCKey
    Content <- MCContent
    PublicOf <- MCPublicOf
    Identity <- MCIdentity
    Calls <- MCCalls
CHECK_DEADLOCK FALSE
INVARIANTS
    OffersBelongToHop
    IdentitiesOnlyOnTheWire
    AskedInTurn
    ChainKeptAlive
    FailureIsExhaustion
    LocalRefusalStops
PROPERTIES
    KeepsPromise
    Finishes
    AllSessionsEnd
