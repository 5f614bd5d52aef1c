CONSTANTS
    ana = ana  bo = bo  p = p  q = q
    s1 = s1  s2 = s2  e1 = e1  e2 = e2  r1 = r1
    NONE = NONE
    Subjects = {ana, bo}
    Bundle <- ThreeKeys
    Proposals <- SomeProposals
    Times = {0, 1, 2}
    CLOCK_SKEW = 0
    MAX_REQUEST_WINDOW = 1
    MAX_SIGNATURE_WINDOW = 1
    Policies <- SomePolicies
    Contexts <- SomeContexts
    Verifications <- SomeVerifications
    Accounts = {"account"}
    Processes = {p, q}
    Operations <- SomeOperations
SPECIFICATION Spec
INVARIANTS NobodyConfiguresAlone TablesStayOrdered
PROPERTIES WritesCrossBothBoundaries
SYMMETRY ProcessSymmetry
CHECK_DEADLOCK FALSE
