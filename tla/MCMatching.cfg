SPECIFICATION Matcher
CONSTANTS
    Char <- MCChar
    Space <- MCSpace
    Texts <- MCTexts
    Masks <- MCMasks
CHECK_DEADLOCK FALSE
INVARIANTS MatchesAreReal ClearMasksMatch
PROPERTY EveryCallReturns
