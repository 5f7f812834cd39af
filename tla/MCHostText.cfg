SPECIFICATION TextSpec
CONSTANTS
    NONE = NONE
    Typed <- MCTyped
    Fields <- MCFields
CHECK_DEADLOCK FALSE
INVARIANTS
    MatchesAsDocumented
    KnownAsTyped
