CONSTANTS
    Selections = {s1, s2}
    Leaders = {s1}
    Plans <- MCPlans
    None = None
    Unreadable = Unreadable
    Limits = {2}
    MaxQuestions = 2
    MaxTurns = 3
    MaxCommits = 3
    MaxEdits = 2
SPECIFICATION Spec
INVARIANTS DraftHonoursUser DraftOfOneCommit RoundsInOrder
CHECK_DEADLOCK FALSE
