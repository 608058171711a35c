CONSTANTS
    GenericWorkers = 1
    BillingWorkers = 0
    FailureProbeWorkers = 1
    ScenarioCount <- MCTwoGeneric
    RunDurations <- MCDurations
    ProgressIntervals <- MCProgress
    DbErrors <- MCNoFaults
    MaxExecuted = 2
SPECIFICATION Spec
INVARIANTS
    Quiescent
PROPERTIES
    SnapshotsAdvance
    NothingAfterReturn
    RunReturns
    ImplementsContract
