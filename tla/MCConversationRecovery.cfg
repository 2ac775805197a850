SPECIFICATION FairSpec
CONSTANTS
    None = None
    Key = {k1, k2}
    MaxMessages = 2
    MaxSteps = 1
    Faults = {"decision", "turn", "file", "raised", "crash"}
    MaxFaults = 3
INVARIANT EffectsAreRecorded
PROPERTIES
    RecoveryCompletes
