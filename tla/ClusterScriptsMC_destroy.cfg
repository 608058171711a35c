CONSTANTS
    NodeCount = 2
    MaxTrouble = 2
SPECIFICATION Spec
INVARIANTS
    DestroyedIsGone
