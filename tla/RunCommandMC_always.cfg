CONSTANTS
    GenericWorkers = 1
    BillingWorkers = 0
    FailureProbeWorkers = 0
    ScenarioCount <- MCOneEach
    RunDurations <- MCDuration
    ProgressIntervals <- MCNoProgress
    DbErrors <- MCNoFaults
    MaxExecuted = 1
    StageFaults <- MCNoStageFaults
SPECIFICATION CmdSpec
INVARIANTS
    NormalRunChecked
