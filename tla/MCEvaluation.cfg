CONSTANTS
    A1 = A1  A2 = A2  B1 = B1  s1 = s1  s2 = s2
    answer = answer  refuse = refuse  o1 = o1  o2 = o2  i1 = i1
    Call <- MCCall  Foreign = Foreign  Slot <- MCSlot  Disposition <- MCDisposition
    Turns <- MCTurns  Plans <- MCPlans  MaxSteps = 4  None = None
    Responses <- MCResponses  RetryCap = 2  Refuse = refuse
SPECIFICATION EvaluationSpec
INVARIANTS
    RecordIsSound
    RecordsAreSound
PROPERTY RunsReachAVerdict
CHECK_DEADLOCK FALSE
