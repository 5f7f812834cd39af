SPECIFICATION Spec
CONSTANTS
    MaxSent = 3
    Cap = 1
CHECK_DEADLOCK FALSE
INVARIANTS
    EndIsWhole
PROPERTIES
    CarriesStreams
    EndPassesOn
    Ends
