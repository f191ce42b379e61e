SPECIFICATION LiveSpec
CONSTANTS
    StepLimit = 3
    CostLimit = 2
    MaxPaid = 4
    NumProblems = 3
    OrigWall = 0
    ProblemWall = 2
    Interrupts = TRUE
    DiffFails = TRUE
    CheckTimesOut = TRUE
INVARIANT CallsMatched
INVARIANT ConversationWellFormed
INVARIANT BudgetOwn
PROPERTY RepairEnds
