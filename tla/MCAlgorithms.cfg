SPECIFICATION AlgorithmsSpec
CONSTANTS
    None = None
    Absent = Absent
    Opener = {1, 2}
    Dataset = {"d1", "bad"}
    Valid = {"d1"}
    Frozen = 1
    MaxEdits = 5
INVARIANTS EvidenceIsJudged RepliesAreFounded OpensOnce
CHECK_DEADLOCK FALSE
