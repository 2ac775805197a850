SPECIFICATION FairSpec
CONSTANTS
    Thread = {t1, t2}
    Session = {s1}
    Gen = {g1, g2, g3}
    Object = {1, 2, 3}
    Policies = {"m3", "stage6"}
    MaxSessions = 1
    Faults = {"crash"}
    MaxFaults = 1
    None = None
INVARIANTS PolicyIsBound
PROPERTIES RegistryIsReleased StartupRecovers
CHECK_DEADLOCK TRUE
