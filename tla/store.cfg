\* One package, two candidates, two identities that produce by turns, and evidence
\* appended outside a run.
SPECIFICATION Spec
CONSTANTS
    w1 = w1
    w2 = w2
    c1 = c1
    c2 = c2
    producerA = producerA
    reviewerA = reviewerA
    verifierA = verifierA
    None = None
    WP = {w1}
    Actor = {producerA, reviewerA, verifierA}
    Candidate = {c1, c2}
    Catalogue <- SoleCatalogue
    Reviewer <- AssignedReviewer
    Implementer = {producerA, verifierA}
    Attestor = {producerA}
    Severity = {}
    MaxEvidence <- ThreeEach
    MaxRetry = 0
SYMMETRY CandidatesInterchangeable
INVARIANTS
    AcceptedOnVerified
PROPERTIES
    ImplementsLifecycle
CHECK_DEADLOCK FALSE
