\* Who may activate an engagement and allow a simulated execution.
CONSTANTS
    e1 = e1  e2 = e2  req = req  bo = bo  ct = ct  ea = ea
    inspect = inspect  probe = probe  s1 = s1  s2 = s2
    Engagements = {e1}
    Actors = {req, bo, ct}
    Contents = {inspect}
    Sessions = {s1}
    Times = {0, 1}
    Minute = 2
    Terms <- AuthTerms
    Controlled = {}
    InPolicy <- AuthInPolicy
    Ballots <- AuthBallots
    Plans <- AuthPlans
    RunnerEnabled = FALSE
    Planners = {req}
    MaxEvents = 9
    MaxApprovals = 4
SPECIFICATION Spec
INVARIANTS ActivationDualControl SimulationDualControl OneVoicePerRole
PROPERTIES StopIsFinal
CHECK_DEADLOCK FALSE
