\* Two accounts and one admission under way; two deployments of one package for a role
\* with two slots, one standing channel.
SPECIFICATION CollaborationSpec
CONSTANTS
    ann = ann
    bob = bob
    v1 = v1
    d1 = d1
    d2 = d2
    wp = wp
    Login = {ann, bob}
    Visit = {v1}
    Deployment = {d1, d2}
    Package <- Twice
    Roles <- TwoVerifiers
    Space = {"control"}
    Operator = "operator"
    Corrupt = Corrupt
    None = None
INVARIANTS
    CollaborationTypeOK
    ApprovedIsAdmitted
    NoErrorIsSilent
PROPERTIES
    DenialsStand
CHECK_DEADLOCK FALSE
