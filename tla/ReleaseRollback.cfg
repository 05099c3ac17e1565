SPECIFICATION UpgradeSpec
CONSTANT
    MaxSets = 3
CHECK_DEADLOCK FALSE
INVARIANTS
    RolledBackRestored
