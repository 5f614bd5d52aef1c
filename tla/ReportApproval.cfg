\* Three batches, each within its own bounds.
CONSTANTS
    f1 = f1  f2 = f2  ana = ana  bo = bo
    tester = tester  governor = governor  owner = owner  approver = approver
    NONE = NONE
    Findings = {f1, f2}
    People = {ana, bo}
    Drafts <- SomeDrafts
    Times = {0, 1, 2}
    VALIDITY = 1
    CLOCK_SKEW = 0
    ReviewerBundle <- TwoReviewerKeys
    KEY_WINDOW = {0, 1, 2}
    Bounds <- ThreeBatches
    ApprovalBundle <- TwoApprovalKeys
    MAX_DAYS = 1
SPECIFICATION Spec
INVARIANTS ResolvesExactlyChains NothingDisappears AssertedTogether AcceptedRiskHasAnOwner ApprovedByTwo
CHECK_DEADLOCK FALSE
