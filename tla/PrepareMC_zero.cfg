CONSTANTS
    PoolSize = 1
    ParentRows <- MCApart
    HotKeys <- MCSmallHot
    DefaultRows = 6
    DefaultHotKeys = 2
    RunScenarios <- MCFew
SPECIFICATION Spec
INVARIANTS
    PlanIsRecorded
