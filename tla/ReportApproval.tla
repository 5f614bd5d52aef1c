---------------------------- MODULE ReportApproval ----------------------------
(***************************************************************************)
(* From reviewed findings to an approved report.  Reviews are resolved     *)
(* (ReviewTrust), risk owners accept risks and sign the acceptances, a     *)
(* complete set of authoritative reviews is promoted to a draft report     *)
(* with a manifest, and two people sign the approval of that draft.        *)
(*                                                                         *)
(* Each step is a command of its own, run by anyone at any time on the     *)
(* documents the operator gives it: any of those that exist.  A signature  *)
(* is made outside by the holder of a key, for a request that a signing    *)
(* command makes: the signatures given to a command are inputs, any that   *)
(* could have been requested.                                              *)
(***************************************************************************)
EXTENDS ReviewTrust

CONSTANTS
    ApprovalBundle, \* the roles each approval key is trusted for
    MAX_DAYS        \* for how long a risk may be accepted

ASSUME ApprovalAssumptions ==
    /\ MAX_DAYS \in Nat
    /\ \A key \in DOMAIN ApprovalBundle :
          ApprovalBundle[key] \subseteq {"business_risk_owner", "report_approver"}

VARIABLES
    acceptances, \* the finalized risk acceptances
    manifests,   \* the trusted promotions, each with its draft report
    approved     \* the approved reports

trustVars == <<reviews, events>>
vars == <<batch, reviews, events, acceptances, manifests, approved>>

Acceptance == [review: Review, accepted_by: People, approved_at: Times, expires_on: Nat]

\* A finding of a report, with the review it is taken from.
Finding == [review: Review, status: {"open", "risk_accepted"}]

\* A draft cites the digest of the review summary it is made from.
Report == [findings: SUBSET Finding, reviews: SUBSET Review,
           acceptances: SUBSET Acceptance, as_of: Times]

RiskSignature == [subject: People, key_id: DOMAIN ApprovalBundle, object: Acceptance,
                  context: Resolution, issued_at: Times, expires_at: Nat]

Manifest == [report: Report, resolution: Resolution, signatures: SUBSET RiskSignature]

ReportSignature == [subject: People, key_id: DOMAIN ApprovalBundle, object: Report,
                    context: Manifest, issued_at: Times, expires_at: Nat]

Approved == [report: Report, manifest: Manifest, approvals: SUBSET ReportSignature]

Init ==
    /\ batch \in DOMAIN Bounds
    /\ reviews = {}
    /\ events = {}
    /\ acceptances = {}
    /\ manifests = {}
    /\ approved = {}

-----------------------------------------------------------------------------
(* Risk acceptance *)

\* Mutant: a reviewer may accept the risk of the own finding.
binding_of_anyone(acceptance) ==
    /\ acceptance.review.disposition = "confirmed"
    /\ acceptance.approved_at >= acceptance.review.reviewed_at

validate_risk_acceptance_binding(acceptance) ==
    /\ acceptance.review.disposition = "confirmed"
    /\ acceptance.accepted_by # acceptance.review.reviewer_id
    /\ acceptance.approved_at >= acceptance.review.reviewed_at

risk_acceptance_from_draft(acceptance) ==
    /\ Cardinality(acceptances) < Bounds[batch].acceptances
    /\ acceptance.review \in reviews
    /\ validate_risk_acceptance_binding(acceptance)
    /\ acceptances' = acceptances \cup {acceptance}
    /\ UNCHANGED <<trustVars, manifests, approved>>

signed(subject, key, object, context, issued_at) ==
    [subject |-> subject, key_id |-> key, object |-> object, context |-> context,
     issued_at |-> issued_at, expires_at |-> issued_at + VALIDITY]

\* A request is made for a resolution in which the acceptance's review is current,
\* and names the person who accepted the risk: the one at hand, or an earlier one.
RiskSignatures(accepted, resolution) ==
    UNION {{signed(a.accepted_by, key, a, context, t) :
               a \in {a \in accepted : a.review \in context.reviews},
               key \in DOMAIN ApprovalBundle, t \in Times} :
           context \in {resolution} \cup {m.resolution : m \in manifests}}

\* Mutant: the context is not compared.
verify_without_context(signature, role, object, context, subject, as_of) ==
    /\ role \in ApprovalBundle[signature.key_id]
    /\ signature.object = object
    /\ signature.subject = subject
    /\ in_force(signature, as_of)

verify_approval_signature(signature, role, object, context, subject, as_of) ==
    /\ role \in ApprovalBundle[signature.key_id]
    /\ signature.object = object
    /\ signature.context = context
    /\ signature.subject = subject
    /\ in_force(signature, as_of)

verified_risk(accepted, resolution, as_of) ==
    {s \in RiskSignatures(accepted, resolution) :
        verify_approval_signature(s, "business_risk_owner", s.object, resolution,
                                  s.object.accepted_by, as_of)}

\* Each acceptance is of a current review and has one signature, and there are no
\* others.
verify_signed_risk_acceptances(accepted, signatures, resolution) ==
    /\ {s.object : s \in signatures} = accepted
    /\ \A s, t \in signatures : s.object = t.object => s = t
    /\ \A a \in accepted : a.review \in resolution.reviews

-----------------------------------------------------------------------------
(* Promotion *)

\* Mutant: any review of the other finding will do.
duplicates_reviewed(current) ==
    \A r \in current : r.disposition = "duplicate" =>
       \E primary \in current : primary.finding_id = r.duplicate_of

\* A duplicate points to a finding whose own review confirms it.
validate_duplicate_graph(current) ==
    \A r \in current : r.disposition = "duplicate" =>
       \E primary \in current :
          /\ primary.finding_id = r.duplicate_of
          /\ primary.disposition = "confirmed"

\* Nothing in the summary is later than its time, and no finding is twice in it.
build_review_summary(current, accepted, as_of) ==
    /\ \A r \in current : r.reviewed_at <= as_of
    /\ \A r, s \in current : r.finding_id = s.finding_id => r = s
    /\ validate_duplicate_graph(current)
    /\ \A a \in accepted :
          /\ a.review \in current
          /\ validate_risk_acceptance_binding(a)
          /\ a.approved_at <= as_of
    /\ \A a, b \in accepted : a.review.finding_id = b.review.finding_id => a = b

complete(current) == reviewed(current) = batch

\* Accepted until the end of the day of expiry.
status(review, accepted, as_of) ==
    IF \E a \in accepted : a.review = review /\ a.expires_on >= as_of
    THEN "risk_accepted" ELSE "open"

report_of(current, accepted, as_of) ==
    [findings |-> {[review |-> r, status |-> status(r, accepted, as_of)] :
                      r \in {r \in current : r.disposition = "confirmed"}},
     reviews |-> current, acceptances |-> accepted, as_of |-> as_of]

manifest_of(resolution, accepted, signatures, as_of) ==
    [report |-> report_of(resolution.reviews, accepted, as_of),
     resolution |-> resolution, signatures |-> signatures]

\* promote-trusted-reviewed-report, which is blocked while a finding is revoked.
promote(R, E, accepted, as_of) ==
    /\ Cardinality(manifests) < Bounds[batch].manifests
    /\ \E resolution \in resolve_trusted_reviews(R, E, as_of) :
       /\ resolution.revoked = {}
       /\ complete(resolution.reviews)
       /\ build_review_summary(resolution.reviews, accepted, as_of)
       /\ \E signatures \in SUBSET verified_risk(accepted, resolution, as_of) :
             /\ verify_signed_risk_acceptances(accepted, signatures, resolution)
             /\ manifests' = manifests \cup
                   {manifest_of(resolution, accepted, signatures, as_of)}
    /\ UNCHANGED <<trustVars, acceptances, approved>>

-----------------------------------------------------------------------------
(* Approval *)

\* A request is made for a promotion and its draft, and names any person.
ReportSignatures ==
    {signed(p, key, m.report, m, t) :
        p \in People, key \in DOMAIN ApprovalBundle, m \in manifests, t \in Times}

verified_approvals(manifest, as_of) ==
    {s \in ReportSignatures :
        verify_approval_signature(s, "report_approver", manifest.report, manifest,
                                  s.subject, as_of)}

\* Mutant: two signatures may be of one person.
two_signatures(signatures) ==
    \E s, t \in signatures : s # t /\ signatures = {s, t}

\* Exactly two signatures, by two people.
two_people(signatures) ==
    \E s, t \in signatures : s.subject # t.subject /\ signatures = {s, t}

approve_report_with_signatures(manifest, as_of) ==
    /\ Cardinality(approved) < Bounds[batch].approved
    /\ \E signatures \in SUBSET verified_approvals(manifest, as_of) :
          /\ two_people(signatures)
          /\ approved' = approved \cup {[report |-> manifest.report, manifest |-> manifest,
                                         approvals |-> signatures]}
    /\ UNCHANGED <<trustVars, acceptances, manifests>>

-----------------------------------------------------------------------------

ReviewStep ==
    /\ \/ \E r \in Drafts : review_from_draft(r)
       \/ \E prior \in reviews, action \in {"supersede", "revoke"},
             replacement \in reviews \cup {NONE}, t \in Times :
             lifecycle_event_from_draft([action |-> action, prior |-> prior,
                                         replacement |-> replacement, event_at |-> t])
    /\ UNCHANGED <<acceptances, manifests, approved>>

AcceptRisk ==
    \E r \in reviews, p \in People, t \in Times, days \in 1..MAX_DAYS :
       risk_acceptance_from_draft([review |-> r, accepted_by |-> p,
                                   approved_at |-> t, expires_on |-> t + days])

Promote ==
    \E R \in SUBSET reviews, E \in SUBSET events, accepted \in SUBSET acceptances,
       as_of \in Times : promote(R, E, accepted, as_of)

Approve ==
    \E m \in manifests, as_of \in Times : approve_report_with_signatures(m, as_of)

Next ==
    /\ ReviewStep \/ AcceptRisk \/ Promote \/ Approve
    /\ UNCHANGED batch

Spec == Init /\ [][Next]_vars

-----------------------------------------------------------------------------
(* Properties *)

TypeOK ==
    /\ batch \in DOMAIN Bounds
    /\ reviews \subseteq {r \in Drafts : valid_review(r)}
    /\ events \subseteq Event
    /\ acceptances \subseteq Acceptance
    /\ manifests \subseteq Manifest
    /\ approved \subseteq Approved

reported(report) == {item.review.finding_id : item \in report.findings}

\* No candidate is lost on the way to a report: it is reported, or its current
\* review dismisses it, or says that it is a duplicate of one that is reported.
\* For what promotion leaves out, and for supersessions of a primary finding.
NothingDisappears ==
    \A m \in manifests : \A f \in batch \ reported(m.report) :
       \E r \in m.resolution.reviews :
          /\ r.finding_id = f
          /\ \/ r.disposition \in {"false_positive", "not_applicable"}
             \/ r.disposition = "duplicate" /\ r.duplicate_of \in reported(m.report)

\* Everything a promotion rests on was asserted with a key for its role, and all of
\* it within one validity period and the skew at either end: old assertions cannot
\* be completed with new ones.  For verify_assertion.
AssertedTogether ==
    \A m \in manifests :
       /\ \A r \in m.resolution.reviews : \E a \in m.resolution.assertions :
             a.object = r /\ "qualified_tester" \in ReviewerBundle[a.key_id]
       /\ \A e \in m.resolution.events : \E a \in m.resolution.assertions :
             a.object = e /\ "review_governor" \in ReviewerBundle[a.key_id]
       /\ \A a, b \in m.resolution.assertions :
             a.issued_at <= b.issued_at + VALIDITY + CLOCK_SKEW + CLOCK_SKEW

\* A risk is reported as accepted only while somebody's acceptance of it lasts, who
\* is not the current reviewer, accepted it knowing that review, and signed for the
\* very history that is promoted.  For the chain of bindings from review to summary.
AcceptedRiskHasAnOwner ==
    \A m \in manifests : \A item \in m.report.findings : item.status = "risk_accepted" =>
       \E s \in m.signatures :
          /\ s.object.review = item.review
          /\ s.context = m.resolution
          /\ "business_risk_owner" \in ApprovalBundle[s.key_id]
          /\ s.subject # item.review.reviewer_id
          /\ item.review.reviewed_at <= s.object.approved_at
          /\ s.object.approved_at <= m.report.as_of
          /\ m.report.as_of <= s.object.expires_on

\* An approved report is a promoted draft, and two people with approver keys signed
\* it, together with its promotion, within one validity period and the skew at
\* either end.  For approve_report_with_signatures.
ApprovedByTwo ==
    \A x \in approved :
       /\ x.manifest \in manifests
       /\ x.report = x.manifest.report
       /\ \E s, t \in x.approvals :
             /\ s.subject # t.subject
             /\ \A u \in {s, t} :
                   /\ u.object = x.report
                   /\ u.context = x.manifest
                   /\ "report_approver" \in ApprovalBundle[u.key_id]
             /\ s.issued_at <= t.issued_at + VALIDITY + CLOCK_SKEW + CLOCK_SKEW
             /\ t.issued_at <= s.issued_at + VALIDITY + CLOCK_SKEW + CLOCK_SKEW
=============================================================================
