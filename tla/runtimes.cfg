\* Two local runtimes and a premium one, two saves of the registry, one run.
SPECIFICATION RuntimesSpec
CONSTANTS
    qwen = qwen
    mistral = mistral
    claude = claude
    None = None
    Runtime = {qwen, mistral, claude}
    Preference <- CheapestFirst
    Family <- Families3
    Probing <- ProbedHow
    Endpoints = {qwen, mistral}
    FirstFile <- Reserved
    TrialResults <- FewResults
    Packages <- FewPackages
    WorkClasses <- FewWork
    MaxSaves = 2
    MaxRuns = 1
INVARIANTS
    RuntimesTypeOK
    EverySlotBound
    ReviewersIndependent
    ReserveSpent
    SwitchLeavesNoTrace
    DecisionsKept
CHECK_DEADLOCK FALSE
