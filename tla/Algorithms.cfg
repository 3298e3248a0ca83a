CONSTANTS
    Target = 2
    MaxTokens = 4
    Overlap = 1
    LongWord = 5
    ShortLines = 4
    LongLines = 7
    MaxTasks = 3
    Plans <- MCPlans
SPECIFICATION Spec
INVARIANTS  PlansSound
CHECK_DEADLOCK FALSE
