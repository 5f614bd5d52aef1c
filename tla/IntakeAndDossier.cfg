CONSTANTS
    EvidenceArtifact <- SmallArtifacts
    Recordable = {"accessed", "disposed"}
    Times = {0, 1}
    NONE = NONE
    MaxEvents = 3
    Profiles <- SmallProfiles
    Reports <- SmallReports
    ApplicabilityContext <- SmallContexts
    EditedApplicability <- SmallEdited
    MaxDeltas = 2
    MaxBundles = 1
    t1 = t1  t2 = t2  t3 = t3
    Runs <- SmallRuns
    Results <- SmallResults
    CaseFold <- Folded
    NOTHING = NOTHING
    MAXIMUM_RUNS = 2
    MAXIMUM_RESULTS = 3
    MAXIMUM_TAGS_PER_FINDING = 2
SPECIFICATION SpecApart
INVARIANTS OnlyRefusalsBreakCustody ReadyMeansReconciled BuiltBundlesVerify QuietDeltasCompose MergedAsOne CountsAgree
PROPERTIES BrokenForGood
CHECK_DEADLOCK FALSE
