\* Two callers on one piece of evidence, in a vault and in the vault it is
\* restored to.  Two instants make a day, so only the second one is in the day
\* the retention may be extended to.
CONSTANTS
    v = v  w = w
    Vaults = {v, w}
    Evidence = {ev}
    Holds = {hold}
    Callers = {c1, c2}
    Times = {1, 2}
    Day = 2
    Records <- OneRecord
    Dates = {1}
    NoRecord = NoRecord
    ForeignBundles <- HeldElsewhere
    MaxEvents <- FourEventsInOne
SPECIFICATION Spec
INVARIANTS HistoriesVerify HoldsBlockDeletion RestoredHistoryIsGenuine
PROPERTIES CustodyIsAppendOnly
SYMMETRY CallerSymmetry
CHECK_DEADLOCK FALSE
