SPECIFICATION LoopSpec
CONSTANTS
    o1 = o1  o2 = o2  i1 = i1  i2 = i2
    None = None
    Order = {o1, o2}
    Item = {i1, i2}
    OrderOf <- Linked
    MaxMessages = 3
    MaxSteps = 4
    RetryCap = 2
    Recent = 1
    Questions <- AllQuestions
    Fallbacks <- AnyFallback
    Replies = {"ok", "empty", "error", "misuse"}
INVARIANTS
    ActionsAreGrounded
    RunsKeepTheProtocol
    AnswersAreDue
CHECK_DEADLOCK FALSE
