\* Controlled executions on the network, against pauses and each other.
CONSTANTS
    e1 = e1  e2 = e2  req = req  bo = bo  ct = ct  ea = ea
    inspect = inspect  probe = probe  s1 = s1  s2 = s2
    Engagements = {e1}
    Actors = {req, bo, ct, ea}
    Contents = {probe, inspect}
    Sessions = {s1, s2}
    Times = {0, 1, 2}
    Minute = 2
    Terms <- RaceTerms
    Controlled = {probe}
    InPolicy <- RaceInPolicy
    Ballots <- RaceBallots
    Plans = {}
    RunnerEnabled = TRUE
    Planners = {req}
    MaxEvents = 15
    MaxApprovals = 8
SPECIFICATION RaceSpec
INVARIANTS ControlledThreeApprovers RateCeiling PermissionInChain
PROPERTIES StoppedIsInert CallsReturn
CHECK_DEADLOCK FALSE
