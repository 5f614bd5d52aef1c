----------------------------- MODULE AuditDossier -----------------------------
(***************************************************************************)
(* The dossier of an assessment: report, applicability of the controls,    *)
(* evidence manifest and audit chain in one bundle, which is built by one  *)
(* person and verified later by others, offline and with the regulatory    *)
(* profile that is installed where they are (bundle.py, applicability.py,  *)
(* diffing.py, validate_report of reporting.py).                           *)
(*                                                                         *)
(* Reports and the answers about an institution are documents that exist;  *)
(* deltas are derived from them.  So is applicability, but no one derives  *)
(* it again: a document with other decisions is as good (from_dict).  A    *)
(* digest stands for what it covers.  The manifest is that of the registry at the time of    *)
(* building.  Inside a bundle everything is covered by a digest of it, so  *)
(* a bundle is either intact or refused; only intact ones are modelled.    *)
(***************************************************************************)
EXTENDS CustodyRegistry, ReportComparison

CONSTANTS
    Profiles,   \* the controls in each release of the regulatory profile
    Reports,    \* report documents, drafts and issued ones
    ApplicabilityContext, \* answers about an institution, confirmed or not
    EditedApplicability,  \* assessments with decisions that were not derived
    MaxDeltas,  \* bounds for TLC: on the comparisons
    MaxBundles  \*   and the bundles

ReportStatus == {"draft", "human_review", "approved", "issued"}

BundlePurpose == {"human_review", "regulatory_submission", "archive"}

ApplicabilityDecision == {"applicable", "not_applicable", "requires_confirmation"}

ASSUME DossierAssumptions ==
    /\ {MaxDeltas, MaxBundles} \subseteq Nat
    /\ \A b, c \in Reports : NONE # compare_reports(b, c)
    /\ \A report \in Reports :
          /\ report.status \in ReportStatus
          /\ \A f \in DOMAIN report.findings :
                /\ report.findings[f].severity \in FindingSeverity
                /\ report.findings[f].status \in FindingStatus
          /\ \A c \in DOMAIN report.conclusions : report.conclusions[c] \in ControlConclusion
    /\ \A context \in ApplicabilityContext, p \in DOMAIN Profiles : \A c \in Profiles[p] :
          /\ c.authority \in DOMAIN context.in_scope
          /\ context.in_scope[c.authority] \in {"unanswered", "in_scope", "out_of_scope"}
    /\ \A a \in EditedApplicability :
          /\ a.context \in ApplicabilityContext /\ a.profile \in DOMAIN Profiles
          /\ \A c \in DOMAIN a.decisions : a.decisions[c] \in ApplicabilityDecision

VARIABLES
    profile, \* the installed release
    deltas,  \* the comparisons made of reports (a bundle may have NONE)
    bundles  \* the dossiers built

vars == <<_artifacts, _custody, _disposed, profile, deltas, bundles>>

Init ==
    /\ CustodyInit
    /\ profile \in DOMAIN Profiles
    /\ deltas = {}
    /\ bundles = {}

-----------------------------------------------------------------------------
(* Reports and applicability *)

controls_for(p, assessment_type) == {c \in Profiles[p] : assessment_type \in c.assessment_types}

control_ids(controls) == {c.control_id : c \in controls}

\* Exactly the controls of its kind are concluded.  `complete` is what the report's
\* own content is checked for: coverage, owners, retests, qualifications.
report_valid(report, p) ==
    /\ report.profile = p
    /\ report.complete
    /\ DOMAIN report.conclusions = control_ids(controls_for(p, report.assessment_type))
    /\ report.status \in {"approved", "issued"} => Cardinality(report.human_approvals) >= 2

ready_for_issue(report, p) ==
    report_valid(report, p) /\ Cardinality(report.human_approvals) >= 2

decision(flag) ==
    CASE flag = "unanswered" -> "requires_confirmation"
      [] flag = "in_scope" -> "applicable"
      [] flag = "out_of_scope" -> "not_applicable"

\* Every control of the profile for this kind of assessment gets a decision.
assess_applicability(context, p) ==
    [context |-> context, profile |-> p,
     decisions |-> [c \in controls_for(p, context.assessment_type) |->
                       decision(context.in_scope[c.authority])]]

Derived == {assess_applicability(context, p) : context \in ApplicabilityContext,
                                               p \in DOMAIN Profiles}

human_confirmed(context) ==
    /\ \A authority \in DOMAIN context.in_scope : context.in_scope[authority] # "unanswered"
    /\ context.confirmed_by # ""

ready_for_audit(applicability) ==
    /\ human_confirmed(applicability.context)
    /\ \A c \in DOMAIN applicability.decisions :
          applicability.decisions[c] # "requires_confirmation"

-----------------------------------------------------------------------------
(* Bundles *)

locators(m) == {a.locator : a \in m.artifacts}

\* The decision on a control and the conclusion about it do not go together.
unreconciled(decided, conclusions, control_id) ==
    \/ decided = "requires_confirmation"
    \/ /\ decided = "applicable"
       /\ control_id \in DOMAIN conclusions
       /\ conclusions[control_id] = "not_applicable"
    \/ /\ decided = "not_applicable"
       /\ control_id \in DOMAIN conclusions
       /\ conclusions[control_id] # "not_applicable"

\* What keeps a bundle from being submitted; an invalid audit chain is never bundled.
_submission_blockers(report, applicability, m, p) ==
    LET controls == controls_for(p, report.assessment_type)
        context == applicability.context
    IN  {b \in {"profile", "subject", "confirmation", "issue", "custody", "evidence",
                "coverage", "reconciliation"} :
           \/ b = "profile" /\ (report.profile # p \/ applicability.profile # p)
           \/ b = "subject" /\ \/ context.assessment_type # report.assessment_type
                               \/ context.institution_name # report.organization
           \/ b = "confirmation" /\ ~ ready_for_audit(applicability)
           \/ b = "issue" /\ ~ (ready_for_issue(report, p) /\ report.status = "issued")
           \/ b = "custody" /\ ~ verify(m)
           \/ b = "evidence" /\ ~ report.evidence_refs \subseteq locators(m)
           \/ b = "coverage" /\ \/ control_ids(DOMAIN applicability.decisions)
                                     # control_ids(controls)
                                \/ ~ DOMAIN applicability.decisions \subseteq controls
           \/ b = "reconciliation" /\ \E c \in DOMAIN applicability.decisions :
                 unreconciled(applicability.decisions[c], report.conclusions, c.control_id)}

\* What building does not look at and verification does: entries over _MAX_ENTRY_BYTES,
\* as the audit chain may become, and texts that begin or end in blanks, which are
\* stripped when report, applicability or delta are read back, so that digests differ.
Overlooked == SUBSET {"size", "blanks"}

bundle_of(report, applicability, delta, purpose, overlooked, p) ==
    LET blockers == _submission_blockers(report, applicability, manifest, p)
    IN  [report |-> report, applicability |-> applicability, evidence |-> manifest,
         delta |-> delta, purpose |-> purpose, profile |-> p, overlooked |-> overlooked,
         submission_blockers |-> blockers, ready_for_submission |-> blockers = {}]

\* The delta, if there is one, ends in the report.
delta_matches(delta, report) == delta # NONE => delta.current = report

\* Mutant: the delta may be one of other revisions of the report.
build_with_any_delta(report, applicability, delta, purpose, overlooked) ==
    LET bundle == bundle_of(report, applicability, delta, purpose, overlooked, profile)
    IN  /\ Cardinality(bundles) < MaxBundles
        /\ report_valid(report, profile)
        /\ verify(bundle.evidence)
        /\ purpose = "regulatory_submission" => bundle.ready_for_submission
        /\ bundles' = bundles \cup {bundle}
        /\ UNCHANGED <<custodyVars, profile, deltas>>

\* Built for the installed profile, for human review even if there are blockers, and
\* whatever is overlooked.
build_audit_bundle(report, applicability, delta, purpose, overlooked) ==
    LET bundle == bundle_of(report, applicability, delta, purpose, overlooked, profile)
    IN  /\ Cardinality(bundles) < MaxBundles
        /\ report_valid(report, profile)
        /\ delta_matches(delta, report)
        /\ verify(bundle.evidence)
        /\ purpose = "regulatory_submission" => bundle.ready_for_submission
        /\ bundles' = bundles \cup {bundle}
        /\ UNCHANGED <<custodyVars, profile, deltas>>

\* Mutant: the bundle is checked against the profile it names.
verify_with_own_profile(bundle) ==
    LET blockers == _submission_blockers(bundle.report, bundle.applicability,
                                         bundle.evidence, bundle.profile)
    IN  /\ bundle.overlooked = {}
        /\ verify(bundle.evidence)
        /\ report_valid(bundle.report, bundle.profile)
        /\ delta_matches(bundle.delta, bundle.report)
        /\ bundle.submission_blockers = blockers
        /\ bundle.ready_for_submission = (blockers = {})
        /\ bundle.purpose = "regulatory_submission" => blockers = {}

\* Everything that follows from the documents is derived again, with the profile
\* that is installed now.
verify_audit_bundle(bundle) ==
    LET blockers == _submission_blockers(bundle.report, bundle.applicability,
                                         bundle.evidence, profile)
    IN  /\ bundle.overlooked = {}
        /\ verify(bundle.evidence)
        /\ report_valid(bundle.report, profile)
        /\ bundle.profile = profile
        /\ delta_matches(bundle.delta, bundle.report)
        /\ bundle.submission_blockers = blockers
        /\ bundle.ready_for_submission = (blockers = {})
        /\ bundle.purpose = "regulatory_submission" => blockers = {}

-----------------------------------------------------------------------------

Custody ==
    /\ CustodyNext
    /\ UNCHANGED <<profile, deltas, bundles>>

\* A new release of the program, or an older one again, brings its own profile.
Install(p) ==
    /\ p # profile
    /\ profile' = p
    /\ UNCHANGED <<custodyVars, deltas, bundles>>

Compare(baseline, current) ==
    /\ Cardinality(deltas) < MaxDeltas
    /\ comparable(baseline, current)
    /\ deltas' = deltas \cup {compare_reports(baseline, current)}
    /\ UNCHANGED <<custodyVars, profile, bundles>>

\* The applicability may have been assessed under any release.
Build ==
    \E report \in Reports, applicability \in Derived \cup EditedApplicability,
       delta \in deltas \cup {NONE}, purpose \in BundlePurpose, overlooked \in Overlooked :
       build_audit_bundle(report, applicability, delta, purpose, overlooked)

Next ==
    \/ Custody
    \/ \E p \in DOMAIN Profiles : Install(p)
    \/ \E baseline, current \in Reports : Compare(baseline, current)
    \/ Build

Spec == Init /\ [][Next]_vars

-----------------------------------------------------------------------------
(* Properties *)

TypeOK ==
    /\ CustodyTypeOK
    /\ profile \in DOMAIN Profiles
    /\ \A d \in deltas : /\ {d.baseline, d.current} \subseteq Reports
                          /\ comparable(d.baseline, d.current)
                          /\ d = compare_reports(d.baseline, d.current)
    /\ \A b \in bundles : /\ b.report \in Reports
                          /\ b.applicability \in Derived \cup EditedApplicability

\* A bundle that verifies as ready, wherever and whenever that is, has under the
\* profile installed there: an issued report with two approvals; evidence under
\* custody for each of its references, from its registration on; somebody's
\* confirmation of all answers; and for every control of its kind a conclusion that
\* agrees with the decision about it, and with the answer about its authority if the
\* decision was derived from that.  For the gates of two documents made at different
\* times with different releases.
ReadyMeansReconciled ==
    \A b \in bundles : verify_audit_bundle(b) /\ b.ready_for_submission =>
       LET context == b.applicability.context
           decisions == b.applicability.decisions
       IN  /\ b.report.status = "issued" /\ Cardinality(b.report.human_approvals) >= 2
           /\ b.report.organization = context.institution_name
           /\ context.confirmed_by # ""
           /\ \A ref \in b.report.evidence_refs : \E a \in b.evidence.artifacts :
                 /\ a.locator = ref
                 /\ begins_with_registration(a, b.evidence.custody_events)
           /\ \A c \in controls_for(profile, b.report.assessment_type) :
                 /\ c.control_id \in DOMAIN b.report.conclusions
                 /\ LET excluded == b.report.conclusions[c.control_id] = "not_applicable"
                    IN  /\ \E d \in DOMAIN decisions :
                              /\ d.control_id = c.control_id
                              /\ decisions[d] = IF excluded THEN "not_applicable"
                                                ELSE "applicable"
                        /\ b.applicability \in Derived =>
                              context.in_scope[c.authority] =
                                 IF excluded THEN "out_of_scope" ELSE "in_scope"

\* A built bundle verifies exactly where the release it was built with is installed,
\* unless something is overlooked: building refuses all else that verification would.
\* For two lists of checks in two functions.
BuiltBundlesVerify ==
    \A b \in bundles : verify_audit_bundle(b) <=> b.profile = profile /\ b.overlooked = {}

quiet(delta) == ~ has_regressions(delta)

\* Two successive comparisons without regressions hide none between the first and the
\* last report, except a closed finding that was opened again by way of an accepted
\* risk.  For comparisons that see two revisions only.
QuietDeltasCompose ==
    \A d, e \in deltas : d.current = e.baseline /\ quiet(d) /\ quiet(e) =>
       LET whole == compare_reports(d.baseline, e.current)
       IN  /\ ~ has_regressions([whole EXCEPT !.reopened_findings = {}])
           /\ \A f \in whole.reopened_findings :
                 d.current.findings[f].status = "risk_accepted"
=============================================================================
