\* Two actors, two commands to a window of two seconds, nonces that last one second.
SPECIFICATION GatewaySpec
CONSTANTS
    a1 = a1
    a2 = a2
    None = None
    Actor = {a1, a2}
    Text <- FewTexts
    Granted = {"DANGEROUS_ACTION"}
    RateLimit = 2
    WindowSeconds = 2
    TTL = 1
    MaxCalls = 4
    MaxTime = 3
SYMMETRY ActorsInterchangeable
INVARIANTS
    GatewayTypeOK
    RateBounded
    RateRefusalEarned
    ConfirmedOnceByItsRequester
CHECK_DEADLOCK FALSE
