SPECIFICATION Spec
CONSTANTS
    Thread = {t1, t2}
    Session = {s1, s2, s3}
    Gen = {g1, g2, g3, g4}
    Object = {1, 2, 3, 4, 5}
    Policies = {"m3"}
    MaxSessions = 2
    Faults = {"disk", "remove", "read", "load", "turn", "crash"}
    MaxFaults = 2
    None = None
SYMMETRY Symmetry
INVARIANTS GenerationsAreKept WorkIsCurrent
PROPERTY OnlyResetsLose
CHECK_DEADLOCK TRUE
