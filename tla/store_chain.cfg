\* Two packages, the second depending on the first; findings with and without a
\* candidate.
SPECIFICATION Spec
CONSTANTS
    w1 = w1
    w2 = w2
    c1 = c1
    c2 = c2
    producerA = producerA
    reviewerA = reviewerA
    verifierA = verifierA
    None = None
    WP = {w1, w2}
    Actor = {producerA, reviewerA, verifierA}
    Candidate = {c1}
    Catalogue <- ChainCatalogue
    Reviewer <- AssignedReviewer
    Implementer = {producerA}
    Attestor = {}
    Severity = {"HIGH"}
    MaxEvidence <- FirstOnly
    MaxRetry = 0
INVARIANTS
    ReadyOnAccepted
CHECK_DEADLOCK FALSE
