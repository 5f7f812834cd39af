SPECIFICATION Spec
CONSTANTS
    Texts <- MCTexts
    Numbers <- MCNumbers
    Pieces <- MCPieces
    Lists <- MCLists
    Levels <- MCLevels
    Keys <- MCKeys
    Args <- MCArgs
    Redirects <- MCRedirects
    OddKeys <- MCOddKeys
    OddArgs <- MCOddArgs
    OddRedirects <- MCOddRedirects
    ArgLists <- MCArgLists
    EnvLists <- MCEnvLists
    Raws <- MCRaws
    OddCost = 4
    MaxCost = 7
CHECK_DEADLOCK FALSE
INVARIANTS
    ReadsAsMeant
    Grammatical
