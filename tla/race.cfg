\* One package and one process, or two of them, each free to write between the other's
\* reads and its write.
SPECIFICATION RunSpec
CONSTANTS
    w1 = w1
    c1 = c1
    c2 = c2
    producerA = producerA
    reviewerA = reviewerA
    verifierA = verifierA
    p1 = p1
    p2 = p2
    None = None
    WP = {w1}
    Process = {p1, p2}
    Actor = {producerA, reviewerA, verifierA}
    Candidate = {c1}
    Catalogue <- SoleCatalogue
    Reviewer <- AssignedReviewer
    Implementer = {producerA, verifierA}
    Attestor = {producerA}
    Severity = {"HIGH"}
    MaxEvidence <- ThreeEach
    MaxRetry = 0
SYMMETRY Interchangeable
INVARIANTS
    RaceTypeOK
    CompletionIndependent
PROPERTIES
    AloneIsAtomic
CHECK_DEADLOCK FALSE
