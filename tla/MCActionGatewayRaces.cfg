SPECIFICATION RacesSpec
CONSTANTS
    r1 = r1
    r2 = r2
    q1 = q1
    x1 = x1
    h1 = h1
    h2 = h2
    i1 = i1
    s1 = s1
    w1 = w1
    w2 = w2
    None = None
    Item = {i1}
    Intent <- MCIntent
    Category <- MCCategory
    Rulebook <- MCRulebook
    Key = {r1, r2, x1}
    StaffCase = {s1}
    Worker = {w1, w2}
    Failures = {"write_failed"}
    Builds = {"b2"}
    Risk <- OneRelease
    OrderStates = {"delivered"}
    ParcelStates <- OnlyDelivered
    StockStates = {"enough"}
    MaxVersion = 1
    MaxDay = 0
INVARIANTS
    RowsAreWellFormed
    EffectsAreReceipted
    AnswersAreFirm
PROPERTIES
    RequestsOnlyAdvance
    FollowsLifecycle
SYMMETRY Callers
CHECK_DEADLOCK FALSE
