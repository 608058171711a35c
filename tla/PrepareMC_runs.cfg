CONSTANTS
    PoolSize = 2
    ParentRows <- MCSizes
    HotKeys <- MCHot
    DefaultRows = 6
    DefaultHotKeys = 2
    RunScenarios <- MCRuns
SPECIFICATION Spec
INVARIANTS
    TypeOK
    PrepareSucceeds
    PlanIsGrounded
    PlanSlotsApart
PROPERTIES
    RunsFailOnLeftovers
