SPECIFICATION GuardSpec
CONSTANTS
    r1 = r1
    r2 = r2
    q1 = q1
    x1 = x1
    h1 = h1
    h2 = h2
    i1 = i1
    s1 = s1
    w1 = w1
    w2 = w2
    None = None
    Item = {i1}
    Intent <- MCIntent
    Category <- MCCategory
    Rulebook <- MCRulebook
    Key = {r1, x1, q1, h1, h2}
    StaffCase = {s1}
    Worker = {w1}
    Failures = {}
    Builds = {"b1", "b2"}
    Risk <- MCRisk
    OrderStates = {"delivered", "absent"}
    ParcelStates <- AllParcels
    StockStates = {"enough", "insufficient"}
    MaxVersion = 2
    MaxDay = 2
INVARIANTS
    GuardKeepsTheIndexes
    EffectsAreAllowed
    SnapshotCoversTheGuard
    CaseIsJudged
SYMMETRY Handoffs
CHECK_DEADLOCK FALSE
