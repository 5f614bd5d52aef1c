\* Calls race on two grants while the emergency stop changes.
CONSTANTS
    g1 = g1  g2 = g2
    Calls = {c1, c2}
    Grants = {g1, g2}
    Times = {0, 1, 2}
    GrantExpires <- TwoGrants
    IdentityExpires = 2
    WindowEnd = 3
    MaxLease = 1
    MaxLeases = 2
    MaxStops = 2
    MaxDecisions = 1
SPECIFICATION Spec
INVARIANTS OneRequestPerGrant TrustedWereUndisturbed TrustedAnswersOwnRequest
SYMMETRY Symmetry
CHECK_DEADLOCK FALSE
