\* One process and an operator who puts packages back, blocks, accepts; one process
\* is killed, one answer of the relay unreadable, or one answer appended by hand.
SPECIFICATION CommissionSpec
CONSTANTS
    w1 = w1
    w2 = w2
    c1 = c1
    c2 = c2
    p1 = p1
    p2 = p2
    p3 = p3
    None = None
    WP = {w1}
    Proc = {p1}
    Candidate = {c1, c2}
    Catalogue <- SoleCatalogue
    Actor = {"implementer", "architect", "spec_reviewer", "code_reviewer", "verifier", "operator"}
    Reviewer <- RoleReviewer
    Implementer = {"implementer"}
    Attestor = {}
    Severity = {"HIGH"}
    MaxEvidence <- Room
    Attestations <- VerifiedByHand
    MaxRetry = 0
    RetryLimit = 0
    OperatorTargets = {"READY", "ACCEPTED"}
    MaxIncidents = 1
SYMMETRY CandidatesInterchangeable
INVARIANTS
    CommissionTypeOK
    RunOwnsCandidate
    OneAnswerPerCandidate
    EligibleNeverRefused
PROPERTIES
    UnattributedVetoStands
CHECK_DEADLOCK FALSE
