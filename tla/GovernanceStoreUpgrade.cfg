\* Two processes of two institutions open a version-1 database at once.
CONSTANTS
    default = default  bank = bank  e1 = e1  e2 = e2  a = a  b = b  h1 = h1  h2 = h2
    key = key  r1 = r1  r2 = r2
    Institutions = {default, bank}
    Engagements = {e1}
    Ids = {a}
    Handles = {h1, h2}
    Bound <- TwoInstitutions
    Encrypting = {}
    Keys = {}
    Requests = {}
    StartVersions = {1}
    LegacyChain <- NoEvents
    LegacyEngagement = e1
    LegacySnapshots <- NoSnapshots
    LegacyRequests <- NoRequests
    ExclusiveUpgrade = FALSE
    MaxChain = 1
SPECIFICATION Spec
PROPERTIES RecordsKeepTheirInstitution
CHECK_DEADLOCK FALSE
