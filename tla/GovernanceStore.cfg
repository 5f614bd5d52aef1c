\* Two processes of one institution on one database, new or of an older schema.
CONSTANTS
    default = default  bank = bank  e1 = e1  e2 = e2  a = a  b = b  h1 = h1  h2 = h2
    key = key  r1 = r1  r2 = r2
    Institutions = {default}
    Engagements = {e1}
    Ids = {a, b}
    Handles = {h1, h2}
    Bound <- BothDefault
    Encrypting = {h1}
    Keys = {key}
    Requests = {r1, r2}
    StartVersions = {0, 1, 2}
    LegacyChain <- OneEvent
    LegacyEngagement = e1
    LegacySnapshots <- OneSnapshot
    LegacyRequests <- OneRequest
    ExclusiveUpgrade = TRUE
    MaxChain = 2
SPECIFICATION Spec
INVARIANTS SnapshotsAreCovered RevisionsNumberSnapshots LabelsAreTrue
PROPERTIES AuditIsAppendOnly KeyKeepsFirstRequest
CHECK_DEADLOCK FALSE
