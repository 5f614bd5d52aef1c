--------------------------- MODULE ReportComparison ---------------------------
(* The comparison of two revisions of a report (diffing.py).  A report here has    *)
(* findings by identifier, with their severity and status, and conclusions by     *)
(* control; validate_report refuses reports that name one twice.  Changes of the  *)
(* retest status are listed like those of the status and left out.                *)
EXTENDS Naturals

FindingSeverity == {"informational", "low", "medium", "high", "critical"}
FindingStatus == {"open", "risk_accepted", "remediated", "closed"}
ControlConclusion == {"conforms", "not_applicable", "not_tested", "partial", "gap"}

_SEVERITY_RANK ==
    [informational |-> 0, low |-> 1, medium |-> 2, high |-> 3, critical |-> 4]

_CONTROL_RANK ==
    [conforms |-> 0, not_applicable |-> 0, not_tested |-> 1, partial |-> 2, gap |-> 3]

_CLOSED == {"remediated", "closed"}

\* Only reports of one kind and organization are compared, in the order of issue.
comparable(baseline, current) ==
    /\ baseline.assessment_type = current.assessment_type
    /\ baseline.organization = current.organization
    /\ baseline.issued_at <= current.issued_at

findings_in_both(baseline, current) == DOMAIN baseline.findings \cap DOMAIN current.findings

\* Mutant: a control that is no longer concluded is passed over.
control_regressions_of_kept(before, after) ==
    {c \in DOMAIN after :
        IF c \in DOMAIN before
        THEN _CONTROL_RANK[after[c]] > _CONTROL_RANK[before[c]]
        ELSE after[c] \in {"partial", "gap"}}

\* A missing conclusion is a regression, and so is a bad one that is new.
control_regressions(before, after) ==
    (DOMAIN before \ DOMAIN after) \cup
    {c \in DOMAIN after :
        IF c \in DOMAIN before
        THEN _CONTROL_RANK[after[c]] > _CONTROL_RANK[before[c]]
        ELSE after[c] \in {"partial", "gap"}}

control_improvements(before, after) ==
    {c \in DOMAIN before \cap DOMAIN after :
        _CONTROL_RANK[after[c]] < _CONTROL_RANK[before[c]]}

compare_reports(baseline, current) ==
    LET before == baseline.findings
        after == current.findings
        both == findings_in_both(baseline, current)
    IN  [baseline |-> baseline,
         current |-> current,
         new_findings |-> DOMAIN after \ DOMAIN before,
         missing_findings |-> DOMAIN before \ DOMAIN after,
         closed_findings |->
            {f \in both : before[f].status \notin _CLOSED /\ after[f].status \in _CLOSED},
         reopened_findings |->
            {f \in both : before[f].status \in _CLOSED /\ after[f].status = "open"},
         severity_increases |->
            {f \in both : _SEVERITY_RANK[after[f].severity] > _SEVERITY_RANK[before[f].severity]},
         severity_decreases |->
            {f \in both : _SEVERITY_RANK[after[f].severity] < _SEVERITY_RANK[before[f].severity]},
         status_changes |-> {f \in both : before[f].status # after[f].status},
         control_regressions |->
            control_regressions(baseline.conclusions, current.conclusions),
         control_improvements |->
            control_improvements(baseline.conclusions, current.conclusions)]

has_regressions(delta) ==
    \/ delta.new_findings # {}
    \/ delta.missing_findings # {}
    \/ delta.reopened_findings # {}
    \/ delta.severity_increases # {}
    \/ delta.control_regressions # {}
=============================================================================
