\* Two authority processes whose clocks differ, late and repeated requests, and a
\* ledger that is put back once.
CONSTANTS
    a1 = a1  a2 = a2
    Events = {e1}
    Authorities = {a1, a2}
    Trust <- RotatedKeys
    SigningTimes = {0}
    Times = {0, 1}
    MaxAudit = 2
    MaxCommitments = 3
    MaxReceipts = 3
    MaxRollbacks = 1
SPECIFICATION Spec
INVARIANTS ChainIsAccepted RetriesGetTheReceipt AnchoredWereSigned
PROPERTIES ForksAreNoticed
CHECK_DEADLOCK FALSE
