CONSTANTS
    ByteMod = 8
    WordLen = 2
    Sources <- AllSources
SPECIFICATION Spec
CHECK_DEADLOCK FALSE
INVARIANTS
    CodeMatchesSource
    CodeDecodes
