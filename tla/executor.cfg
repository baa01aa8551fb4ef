\* Two attempts; four turns of two calls, one deliverable turn, both executors.
SPECIFICATION ExecutorSpec
CONSTANTS
    None = None
    Executors <- TwoExecutors
    Bases <- TwoBases
    MaxToolTurns = 4
    MaxSilentTurns = 2
    MaxIdleTestRuns = 2
    DeliverableTurns = 1
    MaxCalls = 2
    MaxAttempts = 2
INVARIANTS
    ExecutorTypeOK
    CandidateWasRedThenGreen
    IdlingWasIdle
    ReviewedIsWork
PROPERTIES
    CandidatesOutliveTrees
    RunsEnd
CHECK_DEADLOCK FALSE
