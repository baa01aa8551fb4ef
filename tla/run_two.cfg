\* Two processes, one package, one candidate between them; nobody is killed.
SPECIFICATION CommissionSpec
CONSTANTS
    w1 = w1
    w2 = w2
    c1 = c1
    c2 = c2
    p1 = p1
    p2 = p2
    p3 = p3
    None = None
    WP = {w1}
    Proc = {p1, p2}
    Candidate = {c1}
    Catalogue <- SoleCatalogue
    Actor = {"implementer", "architect", "spec_reviewer", "code_reviewer", "verifier", "operator"}
    Reviewer <- RoleReviewer
    Implementer = {"implementer"}
    Attestor = {}
    Severity = {"HIGH"}
    MaxEvidence <- Room
    Attestations = {}
    MaxRetry = 1
    RetryLimit = 1
    OperatorTargets = {"READY"}
    MaxIncidents = 0
SYMMETRY ProcessesInterchangeable
INVARIANTS
    LockNamesLiveRun
CHECK_DEADLOCK FALSE
