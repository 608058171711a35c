CONSTANTS
    NodeCount = 2
    MaxTrouble = 3
SPECIFICATION Spec
INVARIANTS
    RolesInOrder
    UpgradeIsWhole
    CreateIsReady
    ToggleIsSeen
PROPERTIES
    UpgradeFailsForCause
    RepairEnds
