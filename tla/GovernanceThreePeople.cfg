\* Are the three approvals of a controlled execution from three people?
CONSTANTS
    e1 = e1  e2 = e2  req = req  bo = bo  ct = ct  ea = ea
    inspect = inspect  probe = probe  s1 = s1  s2 = s2
    Engagements = {e1}
    Actors = {req, bo, ct, ea}
    Contents = {probe, inspect}
    Sessions = {s1}
    Times = {0}
    Minute = 2
    Terms <- RaceTerms
    Controlled = {probe}
    InPolicy <- RaceInPolicy
    Ballots <- HatsBallots
    Plans <- HatsPlans
    RunnerEnabled = TRUE
    Planners = {req}
    MaxEvents = 12
    MaxApprovals = 6
SPECIFICATION Spec
INVARIANTS ControlledPersonPerRole
CHECK_DEADLOCK FALSE
