SPECIFICATION Spec
CONSTANTS
    k1 = k1
    k2 = k2
    None = None
    Key = {k1, k2}
    MaxMessages = 3
    MaxSteps = 2
    Faults = {"turn", "file", "raised", "failed", "decision", "crash"}
    MaxFaults = 3
INVARIANTS
    LoadedIsCurrent
    EffectsAreAccounted
    ToldIsTrue
PROPERTIES
    NoForkPastMarker
SYMMETRY AnyKey
