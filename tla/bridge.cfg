\* Two updates, two deaths of the process, one change of the authorised senders.
SPECIFICATION BridgeSpec
CONSTANTS
    owner = owner
    guest = guest
    None = None
    Actor = {owner, guest}
    Text <- NoText
    Granted = {"CONTROL"}
    RateLimit = 2
    WindowSeconds = 1
    TTL = 1
    MaxCalls = 0
    MaxTime = 0
    Update <- FewUpdates
    FirstGrants <- OwnerOnly
    MaxUpdates = 2
    MaxDeaths = 2
    MaxGrants = 1
INVARIANTS
    BridgeTypeOK
    ForgottenWereHandled
    HandledOncePerProcess
    ForwardedMovesNothing
    LastWordStands
PROPERTY
    UpdatesHandled
CHECK_DEADLOCK FALSE
