CONSTANTS
    GenericWorkers = 1
    BillingWorkers = 0
    FailureProbeWorkers = 0
    ScenarioCount <- MCTwoGeneric
    RunDurations <- MCDurations
    ProgressIntervals <- MCNoProgress
    DbErrors <- MCNoFaults
    MaxExecuted = 1
SPECIFICATION Spec
INVARIANTS
    CleanStop
