\* An older allowance after the policy engine has denied the proposal.
CONSTANTS
    g1 = g1  g2 = g2
    Calls = {c1, c2}
    Grants = {g1, g2}
    Times = {0, 1, 2}
    GrantExpires <- TwoGrants
    IdentityExpires = 2
    WindowEnd = 3
    MaxLease = 1
    MaxLeases = 2
    MaxStops = 0
    MaxDecisions = 2
SPECIFICATION Spec
PROPERTIES StalePolicyFailsClosed
CHECK_DEADLOCK FALSE
