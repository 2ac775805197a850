SPECIFICATION ApiSpec
CONSTANTS
    Request = {r1, r2}
    Conversation = {c}
    Client = {alice, bob}
    Drops = TRUE
    MaxVersion = 2
    MaxExchanges = 2
    None = None
    Business = {"tool_call"}
    MaxSpans = 3
    MaxExceptions = 2
    Nothing = Nothing
INVARIANTS StoredIsCurrent TracesBlameTheCulprit
PROPERTIES CommitsExtendWhatWasRead LocksAreReleased
CHECK_DEADLOCK FALSE
