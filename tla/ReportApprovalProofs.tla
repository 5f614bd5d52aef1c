------------------------- MODULE ReportApprovalProofs -------------------------
(***************************************************************************)
(* Proofs about ReportApproval for any findings, people, drafts, keys and  *)
(* times: types, what a promotion and an approval vouch for, and which     *)
(* histories of reviews are resolved, however long they are.               *)
(***************************************************************************)
EXTENDS ReportApproval, FiniteSetTheorems, WellFoundedInduction, TLAPS

-----------------------------------------------------------------------------
(* Resolution *)

\* The walk of a linear history ends at one of its reviews, or at NONE: what it
\* passes is the whole history, and its last step is one of its steps.
LEMMA HeadInHistory ==
    ASSUME NEW history, NEW E, IsFiniteSet(history), linear(history, E)
    PROVE  head(history, E) \in history \cup {NONE}
<1>1. PICK root \in roots(history, E) :
         /\ roots(history, E) = {root}
         /\ {walk(root, history, E)[n] : n \in 0..Cardinality(history)} \ {NONE} = history
  BY DEF linear
<1>2. Cardinality(history) \in 0..Cardinality(history)
  BY FS_CardinalityType
<1>3. (CHOOSE r \in roots(history, E) : TRUE) = root
  BY <1>1
<1>4. head(history, E) = walk(root, history, E)[Cardinality(history)]
  BY <1>3 DEF head
<1>5. walk(root, history, E)[Cardinality(history)]
         \in {walk(root, history, E)[n] : n \in 0..Cardinality(history)}
  BY <1>2
<1> QED
  BY <1>1, <1>4, <1>5

\* The authoritative reviews are among those supplied.
LEMMA HeadsAreReviews ==
    ASSUME NEW R, NEW E, IsFiniteSet(R), lifecycles_linear(R, E)
    PROVE  heads(R, E) \ {NONE} \subseteq R
<1> SUFFICES ASSUME NEW f \in reviewed(R)
             PROVE  head(of_finding(R, f), events_of(E, f)) \in R \cup {NONE}
  BY DEF heads
<1>1. of_finding(R, f) \subseteq R
  BY DEF of_finding
<1>2. IsFiniteSet(of_finding(R, f))
  BY <1>1, FS_Subset
<1>3. linear(of_finding(R, f), events_of(E, f))
  BY DEF lifecycles_linear
<1> QED
  BY <1>1, <1>2, <1>3, HeadInHistory

LEMMA AssertionTypes ==
    ASSUME NEW R \in SUBSET Review, NEW E \in SUBSET Event
    PROVE  AssertionsOf(R \cup E) \subseteq Assertion
<1> SUFFICES ASSUME NEW d \in R \cup E, NEW key \in DOMAIN ReviewerBundle, NEW t \in Times
             PROVE  [object |-> d, key_id |-> key, issued_at |-> t,
                     expires_at |-> t + VALIDITY] \in Assertion
  BY DEF AssertionsOf
<1>1. t + VALIDITY \in Nat
  BY ReviewAssumptions
<1> QED
  BY <1>1 DEF Assertion

\* A resolution is well-typed, and its reviews are among those supplied.
LEMMA ResolutionOfDocuments ==
    ASSUME NEW R \in SUBSET Review, NEW E \in SUBSET Event, NEW as_of, IsFiniteSet(R),
           NEW resolution \in resolve_trusted_reviews(R, E, as_of)
    PROVE  /\ resolution \in Resolution
           /\ resolution.reviews \subseteq R
           /\ resolution.events = E
           /\ resolution.assertions \subseteq verified(R, E, as_of)
           /\ assertions_cover(R, E, resolution.assertions)
<1>1. lifecycles_linear(R, E)
  BY DEF resolve_trusted_reviews
<1>2. PICK A \in SUBSET verified(R, E, as_of) :
         assertions_cover(R, E, A) /\ resolution = resolution_of(R, E, A)
  BY <1>1 DEF resolve_trusted_reviews
<1>3. heads(R, E) \ {NONE} \subseteq R
  BY <1>1, HeadsAreReviews
<1>4. A \subseteq Assertion
  BY AssertionTypes DEF verified
<1>5. reviewed(R) \subseteq Findings
  BY DEF reviewed, Review
<1>6. resolution = [reviews |-> heads(R, E) \ {NONE},
                    revoked |-> reviewed(R) \ reviewed(heads(R, E) \ {NONE}),
                    assertions |-> A, events |-> E]
  BY <1>2 DEF resolution_of
<1>7. resolution \in Resolution
  BY <1>3, <1>4, <1>5, <1>6 DEF Resolution
<1> QED
  BY <1>2, <1>3, <1>6, <1>7

-----------------------------------------------------------------------------
(* Types *)

\* Reviews are finalized one by one.
Finite == IsFiniteSet(reviews)

LEMMA RiskSignatureTypes ==
    ASSUME TypeOK, NEW accepted \in SUBSET acceptances, NEW resolution \in Resolution
    PROVE  RiskSignatures(accepted, resolution) \subseteq RiskSignature
<1> SUFFICES ASSUME NEW context \in {resolution} \cup {m.resolution : m \in manifests},
                    NEW a \in accepted, NEW key \in DOMAIN ApprovalBundle, NEW t \in Times
             PROVE  signed(a.accepted_by, key, a, context, t) \in RiskSignature
  BY DEF RiskSignatures
<1>1. context \in Resolution
  BY DEF TypeOK, Manifest
<1>2. a \in Acceptance /\ a.accepted_by \in People
  BY DEF TypeOK, Acceptance
<1>3. t + VALIDITY \in Nat
  BY ReviewAssumptions
<1> QED
  BY <1>1, <1>2, <1>3 DEF signed, RiskSignature

LEMMA ReportTypes ==
    ASSUME NEW current \in SUBSET Review, NEW accepted \in SUBSET Acceptance,
           NEW as_of \in Times
    PROVE  report_of(current, accepted, as_of) \in Report
<1>1. \A r \in current : status(r, accepted, as_of) \in {"open", "risk_accepted"}
  BY DEF status
<1>2. \A r \in current : [review |-> r, status |-> status(r, accepted, as_of)] \in Finding
  BY <1>1 DEF Finding
<1>3. {[review |-> r, status |-> status(r, accepted, as_of)] :
          r \in {r \in current : r.disposition = "confirmed"}} \subseteq Finding
  BY <1>2
<1> QED
  BY <1>3 DEF report_of, Report

\* What the command has checked of what it promotes.
Checked(resolution, signatures, R, E, accepted, as_of) ==
    /\ resolution \in resolve_trusted_reviews(R, E, as_of)
    /\ resolution \in Resolution
    /\ resolution.reviews \subseteq R
    /\ complete(resolution.reviews)
    /\ build_review_summary(resolution.reviews, accepted, as_of)
    /\ signatures \subseteq verified_risk(accepted, resolution, as_of)
    /\ verify_signed_risk_acceptances(accepted, signatures, resolution)

\* A promotion adds one manifest, of what was checked.
LEMMA Promoted ==
    ASSUME TypeOK, Finite, NEW R \in SUBSET reviews, NEW E \in SUBSET events,
           NEW accepted \in SUBSET acceptances, NEW as_of \in Times,
           promote(R, E, accepted, as_of)
    PROVE  \E resolution, signatures :
              /\ Checked(resolution, signatures, R, E, accepted, as_of)
              /\ manifests' = manifests \cup
                    {manifest_of(resolution, accepted, signatures, as_of)}
<1>1. PICK resolution \in resolve_trusted_reviews(R, E, as_of) :
         /\ complete(resolution.reviews)
         /\ build_review_summary(resolution.reviews, accepted, as_of)
         /\ \E signatures \in SUBSET verified_risk(accepted, resolution, as_of) :
               /\ verify_signed_risk_acceptances(accepted, signatures, resolution)
               /\ manifests' = manifests \cup
                     {manifest_of(resolution, accepted, signatures, as_of)}
  BY DEF promote
<1>2. R \in SUBSET Review /\ E \in SUBSET Event /\ IsFiniteSet(R)
  BY ReviewAssumptions, FS_Subset DEF TypeOK, Finite
<1>3. resolution \in Resolution /\ resolution.reviews \subseteq R
  BY <1>2, ResolutionOfDocuments
<1> QED
  BY <1>1, <1>3 DEF Checked

LEMMA PromotionTypes ==
    ASSUME TypeOK, Finite, NEW R \in SUBSET reviews, NEW E \in SUBSET events,
           NEW accepted \in SUBSET acceptances, NEW as_of \in Times,
           promote(R, E, accepted, as_of)
    PROVE  manifests' \subseteq Manifest
<1>1. PICK resolution, signatures :
         /\ Checked(resolution, signatures, R, E, accepted, as_of)
         /\ manifests' = manifests \cup
               {manifest_of(resolution, accepted, signatures, as_of)}
  BY Promoted
<1>2. resolution.reviews \in SUBSET Review /\ accepted \in SUBSET Acceptance
  BY <1>1, ReviewAssumptions DEF TypeOK, Checked
<1>3. report_of(resolution.reviews, accepted, as_of) \in Report
  BY <1>2, ReportTypes
<1>4. signatures \subseteq RiskSignature
  BY <1>1, RiskSignatureTypes DEF verified_risk, Checked
<1>5. manifest_of(resolution, accepted, signatures, as_of) \in Manifest
  BY <1>1, <1>3, <1>4 DEF Manifest, manifest_of, Checked
<1> QED
  BY <1>1, <1>5 DEF TypeOK

LEMMA ApprovalTypes ==
    ASSUME TypeOK, NEW m \in manifests, NEW as_of \in Times,
           approve_report_with_signatures(m, as_of)
    PROVE  approved' \subseteq Approved
<1>1. PICK signatures \in SUBSET verified_approvals(m, as_of) :
         approved' = approved \cup {[report |-> m.report, manifest |-> m,
                                     approvals |-> signatures]}
  BY DEF approve_report_with_signatures
<1>2. \A p \in People, key \in DOMAIN ApprovalBundle, n \in manifests, t \in Times :
         signed(p, key, n.report, n, t) \in ReportSignature
  BY ReviewAssumptions DEF TypeOK, Manifest, signed, ReportSignature
<1>3. signatures \subseteq ReportSignature
  BY <1>2 DEF verified_approvals, ReportSignatures
<1>4. m \in Manifest /\ m.report \in Report
  BY DEF TypeOK, Manifest
<1>5. [report |-> m.report, manifest |-> m, approvals |-> signatures] \in Approved
  BY <1>3, <1>4 DEF Approved
<1> QED
  BY <1>1, <1>5 DEF TypeOK

\* Every state is well-typed, and its finalized reviews are drafts that are valid.
THEOREM TypeCorrect == Spec => [](TypeOK /\ Finite)
<1>1. Init => TypeOK /\ Finite
  BY FS_EmptySet DEF Init, TypeOK, Finite
<1>2. TypeOK /\ Finite /\ [Next]_vars => (TypeOK /\ Finite)'
  <2> SUFFICES ASSUME TypeOK, Finite, [Next]_vars
               PROVE  TypeOK' /\ Finite'
    OBVIOUS
  <2>0. batch' = batch
    BY DEF Next, vars
  <2>1. ASSUME NEW r \in Drafts, review_from_draft(r),
               UNCHANGED <<acceptances, manifests, approved>>
        PROVE  TypeOK' /\ Finite'
    BY <2>0, <2>1, FS_AddElement DEF review_from_draft, TypeOK, Finite
  <2>2. ASSUME NEW prior \in reviews, NEW action \in {"supersede", "revoke"},
               NEW replacement \in reviews \cup {NONE}, NEW t \in Times,
               lifecycle_event_from_draft([action |-> action, prior |-> prior,
                                           replacement |-> replacement, event_at |-> t]),
               UNCHANGED <<acceptances, manifests, approved>>
        PROVE  TypeOK' /\ Finite'
    <3>1. prior \in Review /\ replacement \in Review \cup {NONE}
      BY ReviewAssumptions DEF TypeOK
    <3>2. [action |-> action, prior |-> prior,
           replacement |-> replacement, event_at |-> t] \in Event
      BY <3>1 DEF Event
    <3> QED
      BY <2>0, <2>2, <3>2 DEF lifecycle_event_from_draft, TypeOK, Finite
  <2>3. ASSUME NEW r \in reviews, NEW p \in People, NEW t \in Times,
               NEW days \in 1..MAX_DAYS,
               risk_acceptance_from_draft([review |-> r, accepted_by |-> p,
                                           approved_at |-> t, expires_on |-> t + days])
        PROVE  TypeOK' /\ Finite'
    <3>1. r \in Review /\ t + days \in Nat
      BY ReviewAssumptions, ApprovalAssumptions DEF TypeOK
    <3>2. [review |-> r, accepted_by |-> p,
           approved_at |-> t, expires_on |-> t + days] \in Acceptance
      BY <3>1 DEF Acceptance
    <3> QED
      BY <2>0, <2>3, <3>2 DEF risk_acceptance_from_draft, trustVars, TypeOK, Finite
  <2>4. ASSUME NEW R \in SUBSET reviews, NEW E \in SUBSET events,
               NEW accepted \in SUBSET acceptances, NEW as_of \in Times,
               promote(R, E, accepted, as_of)
        PROVE  TypeOK' /\ Finite'
    <3>1. manifests' \subseteq Manifest
      BY <2>4, PromotionTypes
    <3>2. UNCHANGED <<reviews, events, acceptances, approved>>
      BY <2>4 DEF promote, trustVars
    <3> QED
      BY <2>0, <3>1, <3>2 DEF TypeOK, Finite
  <2>5. ASSUME NEW m \in manifests, NEW as_of \in Times,
               approve_report_with_signatures(m, as_of)
        PROVE  TypeOK' /\ Finite'
    <3>1. approved' \subseteq Approved
      BY <2>5, ApprovalTypes
    <3>2. UNCHANGED <<reviews, events, acceptances, manifests>>
      BY <2>5 DEF approve_report_with_signatures, trustVars
    <3> QED
      BY <2>0, <3>1, <3>2 DEF TypeOK, Finite
  <2>6. CASE UNCHANGED vars
    BY <2>6 DEF vars, TypeOK, Finite
  <2> QED
    BY <2>1, <2>2, <2>3, <2>4, <2>5, <2>6
       DEF Next, ReviewStep, AcceptRisk, Promote, Approve
<1> QED
  BY <1>1, <1>2, PTL DEF Spec

-----------------------------------------------------------------------------
(* What a promotion vouches for *)

\* A step that changes the manifests is a promotion.
LEMMA ManifestsGrow ==
    ASSUME TypeOK, Finite, [Next]_vars, manifests' # manifests
    PROVE  \E R \in SUBSET reviews, E \in SUBSET events,
              accepted \in SUBSET acceptances, as_of \in Times : promote(R, E, accepted, as_of)
  BY DEF Next, ReviewStep, AcceptRisk, Promote, Approve, vars,
         risk_acceptance_from_draft, approve_report_with_signatures

\* A duplicate's primary finding is confirmed and thereby reported, and every other
\* finding that is not reported has been dismissed by its current review.
LEMMA NothingLeftOut ==
    ASSUME NEW resolution \in Resolution, NEW accepted, NEW signatures, NEW as_of,
           complete(resolution.reviews),
           build_review_summary(resolution.reviews, accepted, as_of),
           NEW f \in batch \ reported(manifest_of(resolution, accepted, signatures, as_of).report)
    PROVE  \E r \in resolution.reviews :
              /\ r.finding_id = f
              /\ \/ r.disposition \in {"false_positive", "not_applicable"}
                 \/ /\ r.disposition = "duplicate"
                    /\ r.duplicate_of \in
                          reported(manifest_of(resolution, accepted, signatures, as_of).report)
<1> DEFINE current == resolution.reviews
           report == report_of(current, accepted, as_of)
<1>1. manifest_of(resolution, accepted, signatures, as_of).report = report
  BY DEF manifest_of
<1>2. \A r \in current : r.disposition = "confirmed" => r.finding_id \in reported(report)
  <2> SUFFICES ASSUME NEW r \in current, r.disposition = "confirmed"
               PROVE  r.finding_id \in reported(report)
    OBVIOUS
  <2>1. [review |-> r, status |-> status(r, accepted, as_of)] \in report.findings
    BY DEF report_of
  <2> QED
    BY <2>1 DEF reported
<1>3. PICK r \in current : r.finding_id = f
  BY DEF complete, reviewed
<1>4. r.disposition \in Dispositions \ {"confirmed"}
  BY <1>1, <1>2, <1>3 DEF Resolution, Review
<1>5. CASE r.disposition = "duplicate"
  <2>1. PICK primary \in current :
          primary.finding_id = r.duplicate_of /\ primary.disposition = "confirmed"
    BY <1>5 DEF build_review_summary, validate_duplicate_graph
  <2> QED
    BY <1>1, <1>2, <1>3, <1>5, <2>1
<1> QED
  BY <1>3, <1>4, <1>5 DEF Dispositions

\* No finding of the batch disappears on the way to a report, however its reviews
\* were superseded: for what a draft report leaves out.
THEOREM NoFindingDisappears == Spec => []NothingDisappears
<1>1. Init => NothingDisappears
  BY DEF Init, NothingDisappears
<1>2. TypeOK /\ Finite /\ NothingDisappears /\ [Next]_vars => NothingDisappears'
  <2> SUFFICES ASSUME TypeOK, Finite, NothingDisappears, [Next]_vars,
                      manifests' # manifests
               PROVE  NothingDisappears'
    BY DEF NothingDisappears, Next, vars
  <2>1. PICK R \in SUBSET reviews, E \in SUBSET events, accepted \in SUBSET acceptances,
             as_of \in Times : promote(R, E, accepted, as_of)
    BY ManifestsGrow
  <2>2. PICK resolution, signatures :
           /\ Checked(resolution, signatures, R, E, accepted, as_of)
           /\ manifests' = manifests \cup
                 {manifest_of(resolution, accepted, signatures, as_of)}
    BY <2>1, Promoted
  <2>3. manifest_of(resolution, accepted, signatures, as_of).resolution = resolution
    BY DEF manifest_of
  <2>4. \A f \in batch \ reported(manifest_of(resolution, accepted, signatures, as_of).report) :
           \E r \in resolution.reviews :
              /\ r.finding_id = f
              /\ \/ r.disposition \in {"false_positive", "not_applicable"}
                 \/ /\ r.disposition = "duplicate"
                    /\ r.duplicate_of \in
                          reported(manifest_of(resolution, accepted, signatures, as_of).report)
    BY <2>2, NothingLeftOut DEF Checked
  <2>5. batch' = batch
    BY DEF Next, vars
  <2> QED
    BY <2>2, <2>3, <2>4, <2>5 DEF NothingDisappears
<1> QED
  BY <1>1, <1>2, TypeCorrect, PTL DEF Spec

\* An accepted risk in a report has a signed acceptance of the very review.
LEMMA AcceptanceHasSignature ==
    ASSUME NEW resolution, NEW accepted, NEW signatures, NEW as_of,
           build_review_summary(resolution.reviews, accepted, as_of),
           signatures \subseteq verified_risk(accepted, resolution, as_of),
           verify_signed_risk_acceptances(accepted, signatures, resolution),
           NEW item \in report_of(resolution.reviews, accepted, as_of).findings,
           item.status = "risk_accepted"
    PROVE  \E s \in signatures :
              /\ s.object.review = item.review
              /\ s.context = resolution
              /\ "business_risk_owner" \in ApprovalBundle[s.key_id]
              /\ s.subject # item.review.reviewer_id
              /\ item.review.reviewed_at <= s.object.approved_at
              /\ s.object.approved_at <= as_of
              /\ as_of <= s.object.expires_on
<1>1. status(item.review, accepted, as_of) = "risk_accepted"
  BY DEF report_of
<1>2. PICK a \in accepted : a.review = item.review /\ a.expires_on >= as_of
  BY <1>1 DEF status
<1>3. PICK s \in signatures : s.object = a
  BY DEF verify_signed_risk_acceptances
<1>4. verify_approval_signature(s, "business_risk_owner", a, resolution, a.accepted_by, as_of)
  BY <1>3 DEF verified_risk
<1>5. validate_risk_acceptance_binding(a) /\ a.approved_at <= as_of
  BY DEF build_review_summary
<1> QED
  BY <1>2, <1>3, <1>4, <1>5
     DEF verify_approval_signature, validate_risk_acceptance_binding

\* Whoever is named by a report as having accepted a risk did sign for it: knowing
\* the promoted review and history, not being its reviewer, and for that day.
THEOREM AcceptedRisksHaveOwners == Spec => []AcceptedRiskHasAnOwner
<1>1. Init => AcceptedRiskHasAnOwner
  BY DEF Init, AcceptedRiskHasAnOwner
<1>2. TypeOK /\ Finite /\ AcceptedRiskHasAnOwner /\ [Next]_vars => AcceptedRiskHasAnOwner'
  <2> SUFFICES ASSUME TypeOK, Finite, AcceptedRiskHasAnOwner, [Next]_vars,
                      manifests' # manifests
               PROVE  AcceptedRiskHasAnOwner'
    BY DEF AcceptedRiskHasAnOwner
  <2>1. PICK R \in SUBSET reviews, E \in SUBSET events, accepted \in SUBSET acceptances,
             as_of \in Times : promote(R, E, accepted, as_of)
    BY ManifestsGrow
  <2>2. PICK resolution, signatures :
           /\ Checked(resolution, signatures, R, E, accepted, as_of)
           /\ manifests' = manifests \cup
                 {manifest_of(resolution, accepted, signatures, as_of)}
    BY <2>1, Promoted
  <2>3. PICK m : m = manifest_of(resolution, accepted, signatures, as_of)
    OBVIOUS
  <2>4. /\ m.report = report_of(resolution.reviews, accepted, as_of)
        /\ m.resolution = resolution
        /\ m.signatures = signatures
        /\ m.report.as_of = as_of
    BY <2>3 DEF manifest_of, report_of
  <2>5. ASSUME NEW item \in m.report.findings, item.status = "risk_accepted"
        PROVE  \E s \in m.signatures :
                  /\ s.object.review = item.review
                  /\ s.context = m.resolution
                  /\ "business_risk_owner" \in ApprovalBundle[s.key_id]
                  /\ s.subject # item.review.reviewer_id
                  /\ item.review.reviewed_at <= s.object.approved_at
                  /\ s.object.approved_at <= m.report.as_of
                  /\ m.report.as_of <= s.object.expires_on
    <3>1. item \in report_of(resolution.reviews, accepted, as_of).findings
      BY <2>4
    <3>2. /\ build_review_summary(resolution.reviews, accepted, as_of)
          /\ signatures \subseteq verified_risk(accepted, resolution, as_of)
          /\ verify_signed_risk_acceptances(accepted, signatures, resolution)
      BY <2>2 DEF Checked
    <3>3. \E s \in signatures :
             /\ s.object.review = item.review
             /\ s.context = resolution
             /\ "business_risk_owner" \in ApprovalBundle[s.key_id]
             /\ s.subject # item.review.reviewer_id
             /\ item.review.reviewed_at <= s.object.approved_at
             /\ s.object.approved_at <= as_of
             /\ as_of <= s.object.expires_on
      BY <2>5, <3>1, <3>2, AcceptanceHasSignature
    <3> QED
      BY <2>4, <3>3
  <2> QED
    BY <2>2, <2>3, <2>5 DEF AcceptedRiskHasAnOwner
<1> QED
  BY <1>1, <1>2, TypeCorrect, PTL DEF Spec

\* A review and an event are different documents.
LEMMA DocumentsDiffer ==
    ASSUME NEW r \in Review, NEW e \in Event
    PROVE  r # e
<1>1. DOMAIN r = {"finding_id", "disposition", "duplicate_of", "reviewer_id", "reviewed_at"}
  BY DEF Review
<1>2. DOMAIN e = {"action", "prior", "replacement", "event_at"}
  BY DEF Event
<1>3. "finding_id" \in DOMAIN r /\ "finding_id" \notin DOMAIN e
  BY <1>1, <1>2
<1> QED
  BY <1>3

\* What the assertions of a resolution say when they cover it.
LEMMA AssertionsVerified ==
    ASSUME NEW R \in SUBSET Review, NEW E \in SUBSET Event, NEW as_of \in Times,
           NEW A \in SUBSET verified(R, E, as_of), assertions_cover(R, E, A)
    PROVE  /\ \A r \in R : \E a \in A :
                 a.object = r /\ "qualified_tester" \in ReviewerBundle[a.key_id]
           /\ \A e \in E : \E a \in A :
                 a.object = e /\ "review_governor" \in ReviewerBundle[a.key_id]
           /\ \A a, b \in A : a.issued_at <= b.issued_at + VALIDITY + CLOCK_SKEW + CLOCK_SKEW
<1>1. \A d \in R \cup E : \E a \in A : a.object = d
  BY DEF assertions_cover
<1>2. \A a \in A : role_of(a.object, R) \in ReviewerBundle[a.key_id] /\ in_force(a, as_of)
  BY DEF verified, verify_assertion
<1>3. \A r \in R : role_of(r, R) = "qualified_tester"
  BY DEF role_of
<1>4. \A e \in E : role_of(e, R) = "review_governor"
  BY DocumentsDiffer DEF role_of
<1>5. \A a \in A : a.issued_at \in Nat /\ a.expires_at = a.issued_at + VALIDITY
  BY ReviewAssumptions DEF verified, AssertionsOf
<1>6. VALIDITY \in Nat /\ CLOCK_SKEW \in Nat /\ as_of \in Nat
  BY ReviewAssumptions
<1>7. ASSUME NEW a \in A, NEW b \in A
      PROVE  a.issued_at <= b.issued_at + VALIDITY + CLOCK_SKEW + CLOCK_SKEW
  <2>1. as_of + CLOCK_SKEW >= a.issued_at
    BY <1>2 DEF in_force
  <2>2. as_of <= b.expires_at + CLOCK_SKEW
    BY <1>2 DEF in_force
  <2> QED
    BY <1>5, <1>6, <2>1, <2>2
<1> QED
  BY <1>1, <1>2, <1>3, <1>4, <1>7

\* Whatever a promotion rests on was asserted in its role and together: for
\* resolve_trusted_reviews, which verifies every assertion at the same time.
THEOREM PromotionsAreAssertedTogether == Spec => []AssertedTogether
<1>1. Init => AssertedTogether
  BY DEF Init, AssertedTogether
<1>2. TypeOK /\ Finite /\ AssertedTogether /\ [Next]_vars => AssertedTogether'
  <2> SUFFICES ASSUME TypeOK, Finite, AssertedTogether, [Next]_vars,
                      manifests' # manifests
               PROVE  AssertedTogether'
    BY DEF AssertedTogether
  <2>1. PICK R \in SUBSET reviews, E \in SUBSET events, accepted \in SUBSET acceptances,
             as_of \in Times : promote(R, E, accepted, as_of)
    BY ManifestsGrow
  <2>2. PICK resolution, signatures :
           /\ Checked(resolution, signatures, R, E, accepted, as_of)
           /\ manifests' = manifests \cup
                 {manifest_of(resolution, accepted, signatures, as_of)}
    BY <2>1, Promoted
  <2>3. PICK m : m = manifest_of(resolution, accepted, signatures, as_of)
    OBVIOUS
  <2>4. m.resolution = resolution
    BY <2>3 DEF manifest_of
  <2>5. R \in SUBSET Review /\ E \in SUBSET Event /\ IsFiniteSet(R)
    BY ReviewAssumptions, FS_Subset DEF TypeOK, Finite
  <2>6. /\ resolution.reviews \subseteq R
        /\ resolution.events = E
        /\ resolution.assertions \subseteq verified(R, E, as_of)
        /\ assertions_cover(R, E, resolution.assertions)
    BY <2>2, <2>5, ResolutionOfDocuments DEF Checked
  <2>7. PICK A : A = resolution.assertions
    OBVIOUS
  <2>8. /\ \A r \in R : \E a \in A :
              a.object = r /\ "qualified_tester" \in ReviewerBundle[a.key_id]
        /\ \A e \in E : \E a \in A :
              a.object = e /\ "review_governor" \in ReviewerBundle[a.key_id]
        /\ \A a, b \in A : a.issued_at <= b.issued_at + VALIDITY + CLOCK_SKEW + CLOCK_SKEW
    <3>1. A \in SUBSET verified(R, E, as_of) /\ assertions_cover(R, E, A)
      BY <2>6, <2>7
    <3>2. R \in SUBSET Review /\ E \in SUBSET Event
      BY <2>5
    <3> QED
      BY <3>1, <3>2, AssertionsVerified
  <2>9. manifests' = manifests \cup {m}
    BY <2>2, <2>3
  <2>10. ASSUME NEW n \in manifests', n # m
         PROVE  n \in manifests
    BY <2>9, <2>10
  <2>11. /\ \A r \in m.resolution.reviews : \E a \in m.resolution.assertions :
               a.object = r /\ "qualified_tester" \in ReviewerBundle[a.key_id]
         /\ \A e \in m.resolution.events : \E a \in m.resolution.assertions :
               a.object = e /\ "review_governor" \in ReviewerBundle[a.key_id]
    <3>1. /\ m.resolution.reviews \subseteq R
          /\ m.resolution.events = E
          /\ m.resolution.assertions = A
      BY <2>4, <2>6, <2>7
    <3> QED
      BY <2>8, <3>1
  <2>12. \A a, b \in m.resolution.assertions :
            a.issued_at <= b.issued_at + VALIDITY + CLOCK_SKEW + CLOCK_SKEW
    BY <2>4, <2>7, <2>8
  <2> SUFFICES ASSUME NEW n \in manifests'
               PROVE  /\ \A r \in n.resolution.reviews : \E a \in n.resolution.assertions :
                            a.object = r /\ "qualified_tester" \in ReviewerBundle[a.key_id]
                      /\ \A e \in n.resolution.events : \E a \in n.resolution.assertions :
                            a.object = e /\ "review_governor" \in ReviewerBundle[a.key_id]
                      /\ \A a, b \in n.resolution.assertions :
                            a.issued_at <= b.issued_at + VALIDITY + CLOCK_SKEW + CLOCK_SKEW
    BY DEF AssertedTogether
  <2>13. CASE n = m
    BY <2>11, <2>12, <2>13
  <2>14. CASE n # m
    BY <2>10, <2>14 DEF AssertedTogether
  <2> QED
    BY <2>13, <2>14
<1> QED
  BY <1>1, <1>2, TypeCorrect, PTL DEF Spec

-----------------------------------------------------------------------------
(* What an approval vouches for *)

\* Two signatures accepted at one time were issued within a validity period and
\* the skew at either end.
LEMMA AcceptedAtOneTime ==
    ASSUME NEW m, NEW as_of \in Times, NEW s \in verified_approvals(m, as_of),
           NEW t \in verified_approvals(m, as_of)
    PROVE  s.issued_at <= t.issued_at + VALIDITY + CLOCK_SKEW + CLOCK_SKEW
<1>1. s.issued_at \in Nat /\ t.issued_at \in Nat /\ t.expires_at = t.issued_at + VALIDITY
  BY ReviewAssumptions DEF verified_approvals, ReportSignatures, signed
<1>2. as_of + CLOCK_SKEW >= s.issued_at /\ as_of <= t.expires_at + CLOCK_SKEW
  BY DEF verified_approvals, verify_approval_signature, in_force
<1>3. VALIDITY \in Nat /\ CLOCK_SKEW \in Nat /\ as_of \in Nat
  BY ReviewAssumptions
<1> QED
  BY <1>1, <1>2, <1>3

\* What is approved is a promoted draft, and two people signed it with its promotion,
\* at about the same time: for approve_report_with_signatures.
THEOREM ApprovalsAreDual == Spec => []ApprovedByTwo
<1>1. Init => ApprovedByTwo
  BY DEF Init, ApprovedByTwo
<1>2. TypeOK /\ ApprovedByTwo /\ [Next]_vars => ApprovedByTwo'
  <2> SUFFICES ASSUME TypeOK, ApprovedByTwo, [Next]_vars
               PROVE  ApprovedByTwo'
    OBVIOUS
  <2>1. manifests \subseteq manifests'
    BY DEF Next, ReviewStep, AcceptRisk, Promote, Approve, vars, promote,
           risk_acceptance_from_draft, approve_report_with_signatures
  <2>2. CASE approved' = approved
    BY <2>1, <2>2 DEF ApprovedByTwo
  <2>3. CASE approved' # approved
    <3>1. PICK m \in manifests, as_of \in Times : approve_report_with_signatures(m, as_of)
      BY <2>3 DEF Next, ReviewStep, AcceptRisk, Promote, Approve, vars, promote,
                  risk_acceptance_from_draft
    <3>2. PICK signatures \in SUBSET verified_approvals(m, as_of) :
             /\ two_people(signatures)
             /\ approved' = approved \cup {[report |-> m.report, manifest |-> m,
                                            approvals |-> signatures]}
      BY <3>1 DEF approve_report_with_signatures
    <3>3. PICK s \in signatures, t \in signatures : s.subject # t.subject
      BY <3>2 DEF two_people
    <3>4. /\ s.issued_at <= t.issued_at + VALIDITY + CLOCK_SKEW + CLOCK_SKEW
          /\ t.issued_at <= s.issued_at + VALIDITY + CLOCK_SKEW + CLOCK_SKEW
      BY AcceptedAtOneTime
    <3>5. \A u \in {s, t} : /\ u.object = m.report
                            /\ u.context = m
                            /\ "report_approver" \in ApprovalBundle[u.key_id]
      BY DEF verified_approvals, verify_approval_signature
    <3>6. PICK x : x = [report |-> m.report, manifest |-> m, approvals |-> signatures]
      OBVIOUS
    <3>7. x.report = m.report /\ x.manifest = m /\ x.approvals = signatures
      BY <3>6
    <3>8. \A y \in approved' : y \in approved \/ y = x
      BY <3>2, <3>6
    <3> QED
      BY <2>1, <3>3, <3>4, <3>5, <3>7, <3>8 DEF ApprovedByTwo
  <2> QED
    BY <2>2, <2>3
<1> QED
  BY <1>1, <1>2, TypeCorrect, PTL DEF Spec
-----------------------------------------------------------------------------
(* Which histories the resolver accepts *)

\* Induction for a set: otherwise there would be a smallest number that is not in it.
LEMMA SetInduction ==
    ASSUME NEW S, 0 \in S, \A n \in Nat : n \in S => n + 1 \in S
    PROVE  Nat \subseteq S
<1> DEFINE T == Nat \ S
<1>1. SUFFICES ASSUME T # {} PROVE FALSE
  OBVIOUS
<1>2. \E x \in T : \A y \in T : ~(<<y, x>> \in OpToRel(<, Nat))
  BY <1>1, NatLessThanWellFounded, WFMin
<1>3. PICK x \in T : \A y \in T : ~(y < x)
  BY <1>2 DEF OpToRel
<1>4. x \in Nat /\ x # 0 /\ x - 1 \in Nat /\ x - 1 < x
  BY <1>3
<1>5. x - 1 \in S
  BY <1>3, <1>4
<1>6. (x - 1) + 1 = x
  BY <1>4
<1> QED
  BY <1>3, <1>4, <1>5, <1>6

LEMMA IntervalSize ==
    ASSUME NEW a \in Int, NEW b \in Int, a <= b + 1
    PROVE  IsFiniteSet(a..b) /\ Cardinality(a..b) = b - a + 1
<1>1. IsFiniteSet(a..b) /\ Cardinality(a..b) = IF a > b THEN 0 ELSE b - a + 1
  BY FS_Interval, Zenon
<1>2. (IF a > b THEN 0 ELSE b - a + 1) = b - a + 1
  OBVIOUS
<1> QED
  BY <1>1, <1>2, Zenon

\* A recursive function by steps exists, so that a walk is what its equation says.
LEMMA WalkSteps ==
    ASSUME NEW root, NEW history, NEW E, IsFiniteSet(history)
    PROVE  /\ walk(root, history, E)[0] = root
           /\ \A n \in 1..Cardinality(history) :
                 walk(root, history, E)[n] = successor(walk(root, history, E)[n - 1], E)
<1> DEFINE N == Cardinality(history)
           Steps(n, g) == [k \in 0..n |-> IF k = 0 THEN root ELSE successor(g[k - 1], E)]
           Walks == {n \in Nat : \E g : g = Steps(n, g)}
<1>0. N \in Nat
  BY FS_CardinalityType
<1>1. 0 \in Walks
  <2> DEFINE g == [k \in 0..0 |-> root]
  <2>1. g = Steps(0, g)
    OBVIOUS
  <2> QED
    BY <2>1
<1>2. ASSUME NEW n \in Nat, n \in Walks PROVE n + 1 \in Walks
  <2>1. PICK g : g = Steps(n, g)
    BY <1>2
  <2> DEFINE h == [k \in 0..(n + 1) |-> IF k = n + 1 THEN successor(g[n], E) ELSE g[k]]
  <2>2. \A k \in 0..n : g[k] = IF k = 0 THEN root ELSE successor(g[k - 1], E)
    BY <2>1
  <2>3. ASSUME NEW k \in 0..(n + 1)
        PROVE  h[k] = IF k = 0 THEN root ELSE successor(h[k - 1], E)
    <3>1. CASE k = n + 1
      <4>1. k # 0 /\ k - 1 = n /\ n \in 0..(n + 1) /\ n # n + 1
        BY <3>1
      <4> QED
        BY <3>1, <4>1
    <3>2. CASE k # n + 1 /\ k # 0
      <4>1. k \in 0..n /\ k - 1 \in 0..(n + 1) /\ k - 1 # n + 1
        BY <3>2
      <4> QED
        BY <2>2, <3>2, <4>1
    <3>3. CASE k = 0
      <4>1. k # n + 1 /\ k \in 0..n
        BY <3>3
      <4> QED
        BY <2>2, <3>3, <4>1
    <3> QED
      BY <3>1, <3>2, <3>3
  <2>4. h = Steps(n + 1, h)
    <3> HIDE DEF h
    <3>1. h = [k \in 0..(n + 1) |-> h[k]]
      BY DEF h
    <3> QED
      BY <2>3, <3>1
  <2> HIDE DEF h, Steps
  <2> QED
    BY <2>4
<1>3. N \in Walks
  <2> HIDE DEF Walks
  <2> QED
    BY <1>0, <1>1, <1>2, SetInduction
<1>4. walk(root, history, E) = CHOOSE g : g = Steps(N, g)
  BY DEF walk
<1>5. walk(root, history, E) = Steps(N, walk(root, history, E))
  <2>1. \E g : g = Steps(N, g)
    BY <1>3
  <2> HIDE DEF Steps
  <2> QED
    BY <1>4, <2>1, Zenon
<1> QED
  BY <1>0, <1>5

\* Where a walk comes to NONE, or back to where it was, it stays: so as long as it
\* has passed fewer reviews than there are, it does neither.
LEMMA WalkGoesOn ==
    ASSUME NEW history, NEW E, NEW root, IsFiniteSet(history), NONE \notin history,
           \A e \in E : e.prior \in history,
           {walk(root, history, E)[n] : n \in 0..Cardinality(history)} \ {NONE} = history,
           NEW j \in 0..(Cardinality(history) - 1)
    PROVE  /\ walk(root, history, E)[j] \in history
           /\ \A i \in 0..(j - 1) : walk(root, history, E)[i] # walk(root, history, E)[j]
<1> DEFINE N == Cardinality(history)
           at == walk(root, history, E)
           passed == {at[k] : k \in 0..(j - 1)}
<1>0. N \in Nat /\ j \in Nat /\ j < N
  BY FS_CardinalityType
<1>1. at[0] = root /\ \A n \in 1..N : at[n] = successor(at[n - 1], E)
  BY WalkSteps
<1>2. successor(NONE, E) = NONE
  BY DEF successor
<1> HIDE DEF at
<1>3. SUFFICES ASSUME at[j] \in passed \cup {NONE} PROVE FALSE
  <2>1. at[j] \in {at[n] : n \in 0..N}
    BY <1>0
  <2> QED
    BY <2>1 DEF at
<1>4. ASSUME NEW x \in passed \cup {NONE} PROVE successor(x, E) \in passed \cup {NONE}
  <2>1. CASE x = NONE
    BY <1>2, <2>1
  <2>2. CASE x # NONE
    <3>1. PICK k \in 0..(j - 1) : x = at[k]
      BY <2>2
    <3>2. k + 1 \in 1..N /\ (k + 1) - 1 = k /\ (k + 1 = j \/ k + 1 \in 0..(j - 1))
      BY <1>0
    <3>3. at[k + 1] = successor(x, E)
      BY <1>1, <3>1, <3>2
    <3> QED
      BY <1>3, <3>2, <3>3
  <2> QED
    BY <2>1, <2>2
<1>5. \A n \in 0..N : at[n] \in passed \cup {NONE}
  <2> DEFINE S == {d \in Nat : j + d <= N => at[j + d] \in passed \cup {NONE}}
  <2>1. 0 \in S
    BY <1>0, <1>3
  <2>2. ASSUME NEW d \in Nat, d \in S PROVE d + 1 \in S
    <3>1. SUFFICES ASSUME j + (d + 1) <= N PROVE at[j + (d + 1)] \in passed \cup {NONE}
      OBVIOUS
    <3>2. j + (d + 1) \in 1..N /\ (j + (d + 1)) - 1 = j + d /\ j + d <= N
      BY <1>0, <3>1
    <3>3. at[j + (d + 1)] = successor(at[j + d], E)
      BY <1>1, <3>2
    <3>4. at[j + d] \in passed \cup {NONE}
      BY <2>2, <3>2
    <3> HIDE DEF passed
    <3> QED
      BY <1>4, <3>3, <3>4
  <2>3. Nat \subseteq S
    <3> HIDE DEF S
    <3> QED
      BY <2>1, <2>2, SetInduction
  <2>4. ASSUME NEW n \in 0..N PROVE at[n] \in passed \cup {NONE}
    <3>1. CASE n < j
      BY <1>0, <3>1
    <3>2. CASE n >= j
      <4>1. n - j \in Nat /\ j + (n - j) = n /\ n <= N
        BY <1>0, <3>2
      <4>2. j + (n - j) <= N => at[j + (n - j)] \in passed \cup {NONE}
        BY <2>3, <4>1
      <4> HIDE DEF passed
      <4> QED
        BY <4>1, <4>2
    <3> QED
      BY <1>0, <3>1, <3>2
  <2> QED
    BY <2>4
<1>6. history \subseteq passed
  <2> HIDE DEF passed
  <2>1. {at[n] : n \in 0..N} \ {NONE} \subseteq passed
    BY <1>5
  <2> QED
    BY <2>1 DEF at
<1>7. IsFiniteSet(passed) /\ Cardinality(passed) <= j
  <2> DEFINE f == [k \in 0..(j - 1) |-> at[k]]
  <2>1. f \in Surjection(0..(j - 1), passed)
    BY DEF Surjection
  <2>2. IsFiniteSet(0..(j - 1)) /\ Cardinality(0..(j - 1)) = j
    <3>1. 0 \in Int /\ j - 1 \in Int /\ 0 <= (j - 1) + 1 /\ (j - 1) - 0 + 1 = j
      BY <1>0
    <3> QED
      BY <3>1, IntervalSize
  <2> HIDE DEF f, passed
  <2> QED
    BY <2>1, <2>2, FS_Surjection
<1>8. N <= Cardinality(passed) /\ Cardinality(passed) \in Nat
  BY <1>6, <1>7, FS_Subset, FS_CardinalityType
<1> QED
  BY <1>0, <1>7, <1>8

\* A sequence of a finite set has all of its elements, each once.
LEMMA SequenceOfSet ==
    ASSUME NEW S, IsFiniteSet(S), NEW chain \in SetToSeqs(S)
    PROVE  /\ Len(chain) = Cardinality(S)
           /\ chain \in [1..Cardinality(S) -> S]
           /\ \A i, j \in 1..Cardinality(S) : chain[i] = chain[j] => i = j
           /\ \A x \in S : \E i \in 1..Cardinality(S) : chain[i] = x
<1> DEFINE N == Cardinality(S)
<1>1. N \in Nat
  BY FS_CardinalityType
<1>2. chain \in [1..N -> S] /\ \A i, j \in 1..N : i # j => chain[i] # chain[j]
  BY DEF SetToSeqs
<1>3. Len(chain) = N
  BY <1>1, <1>2
<1>4. chain \in Injection(1..N, S)
  BY <1>2 DEF Injection, IsInjective
<1>5. Cardinality(1..N) = N
  <2>1. 1 \in Int /\ N \in Int /\ 1 <= N + 1 /\ N - 1 + 1 = N
    BY <1>1
  <2> QED
    BY <2>1, IntervalSize
<1>6. chain \in Surjection(1..N, S)
  BY <1>4, <1>5, FS_Injection
<1> QED
  BY <1>2, <1>3, <1>6 DEF Surjection

\* What a lifecycle of a finding is, as the events of reviews are made.
Lifecycle(history, E) ==
    /\ history \in SUBSET Review /\ IsFiniteSet(history)
    /\ E \in SUBSET Event /\ IsFiniteSet(E)
    /\ \A e \in E : e.action = "revoke" => e.replacement = NONE

superseding(E) == {e \in E : e.action = "supersede"}
revoking(E) == {e \in E : e.action = "revoke"}

\* The walk of a linear history is a chain: its steps are the events, and it ends
\* where no event leads to another review.
LEMMA LinearIsChain ==
    ASSUME NEW history, NEW E, Lifecycle(history, E), linear(history, E)
    PROVE  \E chain \in SetToSeqs(history) : is_chain(chain, E)
<1> DEFINE N == Cardinality(history)
<1>1. PICK root \in roots(history, E) :
         /\ roots(history, E) = {root}
         /\ {walk(root, history, E)[n] : n \in 0..N} \ {NONE} = history
  BY DEF linear
<1>2. /\ transitions_valid(history, E)
      /\ \A e \in E : e.prior \in history
      /\ \A e \in E : e.action = "supersede" => e.replacement \in history
      /\ \A e \in E : e.action = "supersede" \/ e.action = "revoke"
  BY DEF linear, transitions_valid, Lifecycle, Event
<1>3. NONE \notin history /\ history \subseteq Review /\ IsFiniteSet(history)
  BY ReviewAssumptions DEF Lifecycle
<1> DEFINE at == walk(root, history, E)
           chain == [i \in 1..N |-> at[i - 1]]
<1>4. N \in Nat \ {0}
  <2>1. root \in history
    BY DEF roots
  <2> QED
    BY <1>3, <2>1, FS_EmptySet, FS_CardinalityType
<1>5. at[0] = root /\ \A n \in 1..N : at[n] = successor(at[n - 1], E)
  BY <1>3, WalkSteps
<1>6. /\ \A j \in 0..(N - 1) : at[j] \in history
      /\ \A j \in 0..(N - 1) : \A i \in 0..(j - 1) : at[i] # at[j]
  BY <1>1, <1>2, <1>3, WalkGoesOn
<1> HIDE DEF at
<1>7. chain \in SetToSeqs(history)
  <2>1. ASSUME NEW i \in 1..N, NEW j \in 1..N, i # j PROVE at[i - 1] # at[j - 1]
    <3>1. /\ i - 1 \in 0..(N - 1) /\ j - 1 \in 0..(N - 1)
          /\ i - 1 \in 0..((j - 1) - 1) \/ j - 1 \in 0..((i - 1) - 1)
      BY <1>4, <2>1
    <3> QED
      BY <1>6, <3>1
  <2>2. chain \in [1..N -> history]
    <3>1. \A i \in 1..N : i - 1 \in 0..(N - 1)
      BY <1>4
    <3> QED
      BY <1>6, <3>1
  <2> QED
    BY <2>1, <2>2 DEF SetToSeqs
<1>8. /\ Len(chain) = N
      /\ \A i \in 1..N : chain[i] \in history
      /\ \A i, j \in 1..N : chain[i] = chain[j] => i = j
      /\ \A x \in history : \E i \in 1..N : chain[i] = x
  <2> HIDE DEF chain
  <2> QED
    BY <1>3, <1>7, SequenceOfSet
<1>9. chain[1] = root
  BY <1>4, <1>5
<1>10. ASSUME NEW e \in E, NEW i \in 1..N, e.prior = chain[i]
       PROVE  /\ at[i] = e.replacement
              /\ i < N => chain[i + 1] = e.replacement
  <2>1. successor(e.prior, E) = e.replacement
    BY <1>2 DEF successor, transitions_valid
  <2>2. at[i] = successor(chain[i], E)
    BY <1>5
  <2>3. i < N => i + 1 \in 1..N /\ (i + 1) - 1 = i
    BY <1>4
  <2> QED
    BY <1>10, <2>1, <2>2, <2>3
<1>11. ASSUME NEW i \in 1..(N - 1)
       PROVE  \E e \in superseding(E) : e.prior = chain[i] /\ e.replacement = chain[i + 1]
  <2>1. i \in 1..N /\ i + 1 \in 1..N /\ (i + 1) - 1 = i /\ i + 1 # i
    BY <1>4
  <2>2. chain[i + 1] = successor(chain[i], E)
    BY <1>5, <2>1
  <2>3. chain[i + 1] # chain[i] /\ chain[i + 1] # NONE
    BY <1>3, <1>8, <2>1
  <2>4. PICK e \in E : e.prior = chain[i]
    BY <2>2, <2>3 DEF successor
  <2>5. e.replacement = chain[i + 1]
    <3>1. i < N
      BY <1>4
    <3> HIDE DEF chain
    <3> QED
      BY <1>10, <2>1, <2>4, <3>1
  <2> QED
    BY <1>2, <2>3, <2>4, <2>5 DEF Lifecycle, superseding
<1> HIDE DEF chain
<1>12. ASSUME NEW e \in superseding(E)
       PROVE  \E i \in 1..(N - 1) : e.prior = chain[i] /\ e.replacement = chain[i + 1]
  <2>1. e \in E /\ e.action = "supersede" /\ e.replacement \in history
    BY <1>2 DEF superseding
  <2>2. PICK i \in 1..N : e.prior = chain[i]
    BY <1>2, <1>8, <2>1
  <2>3. CASE i < N
    BY <1>4, <1>10, <2>1, <2>2, <2>3
  <2>4. CASE i = N
    <3>1. PICK k \in 1..N : e.replacement = chain[k]
      BY <1>8, <2>1
    <3>2. k # 1
      BY <1>1, <1>9, <2>1, <3>1 DEF roots
    <3>3. k - 1 \in 1..(N - 1) /\ (k - 1) + 1 = k
      BY <1>4, <3>2
    <3>4. PICK d \in superseding(E) : d.prior = chain[k - 1] /\ d.replacement = chain[k]
      BY <1>11, <3>3
    <3>5. d = e
      BY <1>2, <2>1, <3>1, <3>4 DEF transitions_valid, superseding
    <3>6. k - 1 = N
      BY <1>4, <1>8, <2>2, <2>4, <3>3, <3>4, <3>5
    <3> QED
      BY <1>4, <3>3, <3>6
  <2> QED
    BY <1>4, <2>3, <2>4
<1>13. {<<e.prior, e.replacement>> : e \in superseding(E)}
          = {<<chain[i], chain[i + 1]>> : i \in 1..(N - 1)}
  BY <1>11, <1>12
<1>14. Cardinality(superseding(E)) = N - 1
  <2> DEFINE event == [i \in 1..(N - 1) |->
                         CHOOSE e \in superseding(E) :
                            e.prior = chain[i] /\ e.replacement = chain[i + 1]]
  <2>1. \A i \in 1..(N - 1) :
           event[i] \in superseding(E) /\ event[i].prior = chain[i]
    BY <1>11
  <2>2. event \in [1..(N - 1) -> superseding(E)]
    BY <2>1
  <2>3. \A i \in 1..(N - 1) : i \in 1..N
    BY <1>4
  <2> HIDE DEF event
  <2>4. event \in Injection(1..(N - 1), superseding(E))
    BY <1>8, <2>1, <2>2, <2>3 DEF Injection, IsInjective
  <2>5. event \in Surjection(1..(N - 1), superseding(E))
    <3>1. ASSUME NEW e \in superseding(E) PROVE \E i \in 1..(N - 1) : event[i] = e
      <4>1. PICK i \in 1..(N - 1) : e.prior = chain[i]
        BY <1>12
      <4>2. event[i] = e
        BY <1>2, <2>1, <4>1 DEF transitions_valid, superseding
      <4> QED
        BY <4>2
    <3> QED
      BY <2>2, <3>1 DEF Surjection
  <2>6. IsFiniteSet(1..(N - 1)) /\ Cardinality(1..(N - 1)) = N - 1
    <3>1. /\ 1 \in Int /\ N - 1 \in Int /\ 1 <= (N - 1) + 1
          /\ (N - 1) - 1 + 1 = N - 1
      BY <1>4
    <3> QED
      BY <3>1, IntervalSize
  <2> QED
    BY <2>4, <2>5, <2>6, FS_Surjection
<1>15. /\ \A i \in 1..(N - 1) : chain[i].reviewed_at <= chain[i + 1].reviewed_at
       /\ \A e \in superseding(E) : e.event_at >= e.replacement.reviewed_at
  <2>1. \A e \in superseding(E) :
           /\ e.replacement.reviewed_at >= e.prior.reviewed_at
           /\ e.event_at >= e.replacement.reviewed_at
           /\ e.prior \in Review /\ e.replacement \in Review
    BY <1>2, <1>3 DEF transitions_valid, superseding
  <2>2. \A r \in Review : r.reviewed_at \in Nat
    BY ReviewAssumptions DEF Review
  <2>3. \A e \in superseding(E) : e.prior.reviewed_at <= e.replacement.reviewed_at
    BY <2>1, <2>2
  <2> QED
    BY <1>11, <2>1, <2>3
<1>16. ASSUME NEW e \in revoking(E) PROVE e.prior = chain[N]
  <2>1. e \in E /\ e.replacement = NONE
    BY DEF Lifecycle, revoking
  <2>2. PICK i \in 1..N : e.prior = chain[i]
    BY <1>2, <1>8, <2>1
  <2>3. CASE i < N
    <3>1. chain[i + 1] = NONE /\ i + 1 \in 1..N
      BY <1>4, <1>10, <2>1, <2>2, <2>3
    <3> QED
      BY <1>3, <1>8, <3>1
  <2> QED
    BY <1>4, <2>2, <2>3
<1>17. \A e \in revoking(E) : e.prior = Last(chain) /\ e.event_at >= e.prior.reviewed_at
  BY <1>2, <1>8, <1>16 DEF Last, revoking, transitions_valid
<1>18. Cardinality(revoking(E)) <= 1
  <2>1. \A e, d \in revoking(E) : e = d
    BY <1>2, <1>16 DEF revoking, transitions_valid
  <2>2. CASE revoking(E) = {}
    BY <2>2, FS_EmptySet
  <2>3. CASE revoking(E) # {}
    <3>1. PICK e \in revoking(E) : revoking(E) = {e}
      BY <2>1, <2>3
    <3> QED
      BY <3>1, FS_Singleton
  <2> QED
    BY <2>2, <2>3
<1>19. is_chain(chain, E)
  BY <1>8, <1>13, <1>14, <1>15, <1>17, <1>18 DEF is_chain, superseding, revoking
<1> QED
  BY <1>7, <1>19

\* A chain is a linear history, and the walk along it ends at its last review, or
\* at NONE after a revocation.
LEMMA ChainIsLinear ==
    ASSUME NEW history, history # {}, NEW E, Lifecycle(history, E),
           NEW chain \in SetToSeqs(history), is_chain(chain, E)
    PROVE  /\ linear(history, E)
           /\ head(history, E) =
                 IF \E e \in E : e.action = "revoke" THEN NONE ELSE Last(chain)
<1> DEFINE N == Cardinality(history)
           at == walk(chain[1], history, E)
<1>1. /\ NONE \notin history /\ history \subseteq Review /\ IsFiniteSet(history)
      /\ \A e \in E : e \in superseding(E) \/ e \in revoking(E)
      /\ \A e \in revoking(E) : e \in E /\ e.replacement = NONE
      /\ \A e \in E : e.event_at \in Nat
      /\ \A r \in history : r.reviewed_at \in Nat
  BY ReviewAssumptions DEF Lifecycle, Event, Review, superseding, revoking
<1>2. N \in Nat \ {0}
  BY <1>1, FS_EmptySet, FS_CardinalityType
<1>3. /\ Len(chain) = N
      /\ \A i \in 1..N : chain[i] \in history
      /\ \A i, j \in 1..N : chain[i] = chain[j] => i = j
      /\ \A x \in history : \E i \in 1..N : chain[i] = x
  BY <1>1, SequenceOfSet
<1>4. /\ {<<e.prior, e.replacement>> : e \in superseding(E)}
            = {<<chain[i], chain[i + 1]>> : i \in 1..(N - 1)}
      /\ Cardinality(superseding(E)) = N - 1
      /\ \A i \in 1..(N - 1) : chain[i].reviewed_at <= chain[i + 1].reviewed_at
      /\ \A e \in superseding(E) : e.event_at >= e.replacement.reviewed_at
      /\ \A e \in revoking(E) : e.prior = chain[N] /\ e.event_at >= e.prior.reviewed_at
      /\ Cardinality(revoking(E)) <= 1
  BY <1>3 DEF is_chain, Last, superseding, revoking
<1>5. ASSUME NEW e \in superseding(E)
      PROVE  \E i \in 1..(N - 1) : e.prior = chain[i] /\ e.replacement = chain[i + 1]
  <2>1. <<e.prior, e.replacement>> \in {<<chain[i], chain[i + 1]>> : i \in 1..(N - 1)}
    BY <1>4
  <2> QED
    BY <2>1
<1>6. ASSUME NEW i \in 1..(N - 1)
      PROVE  \E e \in superseding(E) : e.prior = chain[i] /\ e.replacement = chain[i + 1]
  <2>1. <<chain[i], chain[i + 1]>> \in {<<e.prior, e.replacement>> : e \in superseding(E)}
    BY <1>4
  <2> QED
    BY <2>1
<1>7. \A i \in 1..(N - 1) : i \in 1..N /\ i + 1 \in 1..N /\ i # N
  BY <1>2
<1>8. \A e, d \in superseding(E) : e.prior = d.prior => e = d
  <2> DEFINE index == [e \in superseding(E) |->
                         CHOOSE i \in 1..(N - 1) :
                            e.prior = chain[i] /\ e.replacement = chain[i + 1]]
  <2>1. \A e \in superseding(E) :
           /\ index[e] \in 1..(N - 1)
           /\ e.prior = chain[index[e]] /\ e.replacement = chain[index[e] + 1]
    BY <1>5
  <2>2. index \in [superseding(E) -> 1..(N - 1)]
    BY <2>1
  <2> HIDE DEF index
  <2>3. index \in Surjection(superseding(E), 1..(N - 1))
    <3>1. ASSUME NEW i \in 1..(N - 1) PROVE \E e \in superseding(E) : index[e] = i
      <4>1. PICK e \in superseding(E) : e.prior = chain[i]
        BY <1>6
      <4>2. index[e] = i
        BY <1>3, <1>7, <2>1, <4>1
      <4> QED
        BY <4>2
    <3> QED
      BY <2>2, <3>1 DEF Surjection
  <2>4. Cardinality(1..(N - 1)) = N - 1
    <3>1. /\ 1 \in Int /\ N - 1 \in Int /\ 1 <= (N - 1) + 1
          /\ (N - 1) - 1 + 1 = N - 1
      BY <1>2
    <3> QED
      BY <3>1, IntervalSize
  <2>5. IsFiniteSet(superseding(E))
    <3>1. superseding(E) \subseteq E
      BY DEF superseding
    <3> QED
      BY <3>1, FS_Subset DEF Lifecycle
  <2>6. index \in Injection(superseding(E), 1..(N - 1))
    BY <1>4, <2>3, <2>4, <2>5, FS_Surjection
  <2>7. \A e, d \in superseding(E) : index[e] = index[d] => e = d
    BY <2>6 DEF Injection, IsInjective
  <2> QED
    BY <1>3, <1>7, <2>1, <2>7
<1>9. \A e, d \in revoking(E) : e = d
  <2>1. SUFFICES ASSUME NEW e \in revoking(E), NEW d \in revoking(E), e # d PROVE FALSE
    OBVIOUS
  <2>2. {e, d} \subseteq revoking(E) /\ revoking(E) \subseteq E
    BY DEF revoking
  <2>3. IsFiniteSet(revoking(E))
    BY <2>2, FS_Subset DEF Lifecycle
  <2>4. Cardinality({e, d}) = 2
    <3>1. IsFiniteSet({e}) /\ Cardinality({e}) = 1
      BY FS_Singleton
    <3>2. {e} \cup {d} = {e, d} /\ d \notin {e}
      BY <2>1
    <3>3. Cardinality({e} \cup {d}) = Cardinality({e}) + 1
      BY <3>1, <3>2, FS_AddElement
    <3> QED
      BY <3>1, <3>2, <3>3
  <2>5. 2 <= Cardinality(revoking(E)) /\ Cardinality(revoking(E)) \in Nat
    BY <2>2, <2>3, <2>4, FS_Subset, FS_CardinalityType
  <2> QED
    BY <1>4, <2>5
<1>10. transitions_valid(history, E)
  <2>1. \A e \in superseding(E) :
           /\ e.prior \in history /\ e.replacement \in history
           /\ e.replacement.reviewed_at >= e.prior.reviewed_at
           /\ e.event_at >= e.replacement.reviewed_at
    <3>1. ASSUME NEW e \in superseding(E)
          PROVE  /\ e.prior \in history /\ e.replacement \in history
                 /\ e.prior.reviewed_at <= e.replacement.reviewed_at
      BY <1>3, <1>4, <1>5, <1>7
    <3> QED
      BY <1>1, <1>4, <3>1
  <2>2. \A e \in E : e.prior \in history /\ e.event_at >= e.prior.reviewed_at
    <3>1. ASSUME NEW e \in superseding(E) PROVE e.event_at >= e.prior.reviewed_at
      <4>1. e \in E /\ e.event_at \in Nat
        BY <1>1 DEF superseding
      <4> QED
        BY <1>1, <2>1, <4>1
    <3>2. N \in 1..N
      BY <1>2
    <3> QED
      BY <1>1, <1>3, <1>4, <2>1, <3>1, <3>2
  <2>3. \A e, d \in E : e.prior = d.prior => e = d
    <3>1. \A e \in superseding(E), d \in revoking(E) : e.prior # d.prior
      <4>1. N \in 1..N
        BY <1>2
      <4> QED
        BY <1>3, <1>4, <1>5, <1>7, <4>1
    <3> QED
      BY <1>1, <1>8, <1>9, <3>1
  <2>4. \A e \in superseding(E), d \in E : e.replacement = d.replacement => e = d
    <3>1. ASSUME NEW e \in superseding(E), NEW d \in superseding(E),
                 e.replacement = d.replacement
          PROVE  e = d
      <4>1. PICK i \in 1..(N - 1) : e.prior = chain[i] /\ e.replacement = chain[i + 1]
        BY <1>5
      <4>2. PICK j \in 1..(N - 1) : d.prior = chain[j] /\ d.replacement = chain[j + 1]
        BY <1>5
      <4>3. i + 1 = j + 1
        BY <1>3, <1>7, <3>1, <4>1, <4>2
      <4>4. i = j
        BY <4>3
      <4> QED
        BY <1>8, <4>1, <4>2, <4>4
    <3>2. ASSUME NEW e \in superseding(E), NEW d \in revoking(E)
          PROVE  e.replacement # d.replacement
      BY <1>1, <2>1
    <3> QED
      BY <1>1, <3>1, <3>2
  <2> QED
    BY <2>1, <2>2, <2>3, <2>4 DEF transitions_valid, superseding
<1>11. roots(history, E) = {chain[1]}
  <2>1. ASSUME NEW x \in history
        PROVE  (\E e \in E : e.replacement = x) <=> x # chain[1]
    <3>1. PICK i \in 1..N : x = chain[i]
      BY <1>3
    <3>2. CASE i = 1
      <4>1. ASSUME NEW e \in superseding(E) PROVE e.replacement # chain[1]
        <5>1. PICK k \in 1..(N - 1) : e.replacement = chain[k + 1]
          BY <1>5
        <5>2. k + 1 \in 1..N /\ 1 \in 1..N /\ k + 1 # 1
          BY <1>2
        <5> QED
          BY <1>3, <5>1, <5>2
      <4> QED
        BY <1>1, <3>1, <3>2, <4>1
    <3>3. CASE i # 1
      <4>1. i - 1 \in 1..(N - 1) /\ (i - 1) + 1 = i /\ 1 \in 1..N
        BY <1>2, <3>3
      <4>2. \E e \in superseding(E) : e.replacement = chain[i]
        BY <1>6, <4>1
      <4>3. chain[i] # chain[1]
        BY <1>3, <3>3, <4>1
      <4> QED
        BY <3>1, <4>2, <4>3 DEF superseding
    <3> QED
      BY <3>2, <3>3
  <2>2. chain[1] \in history
    BY <1>2, <1>3
  <2> QED
    BY <2>1, <2>2 DEF roots
<1>12. at[0] = chain[1] /\ \A n \in 1..N : at[n] = successor(at[n - 1], E)
  BY <1>1, WalkSteps
<1> HIDE DEF at
<1>13. \A i \in 1..(N - 1) : successor(chain[i], E) = chain[i + 1]
  <2>1. ASSUME NEW i \in 1..(N - 1) PROVE successor(chain[i], E) = chain[i + 1]
    <3>1. PICK e \in superseding(E) : e.prior = chain[i] /\ e.replacement = chain[i + 1]
      BY <1>6
    <3>2. \A d \in E : d.prior = chain[i] => d = e
      BY <1>10, <3>1 DEF transitions_valid, superseding
    <3> QED
      BY <3>1, <3>2 DEF successor, superseding
  <2> QED
    BY <2>1
<1>14. \A n \in 0..(N - 1) : at[n] = chain[n + 1]
  <2> DEFINE S == {n \in Nat : n <= N - 1 => at[n] = chain[n + 1]}
  <2>1. 0 \in S
    BY <1>12
  <2>2. ASSUME NEW n \in Nat, n \in S PROVE n + 1 \in S
    <3>1. SUFFICES ASSUME n + 1 <= N - 1 PROVE at[n + 1] = chain[(n + 1) + 1]
      OBVIOUS
    <3>2. /\ n + 1 \in 1..N /\ (n + 1) - 1 = n /\ n <= N - 1
          /\ n + 1 \in 1..(N - 1)
      BY <1>2, <3>1
    <3>3. at[n] = chain[n + 1]
      BY <2>2, <3>2
    <3> QED
      BY <1>12, <1>13, <3>2, <3>3
  <2>3. Nat \subseteq S
    <3> HIDE DEF S
    <3> QED
      BY <2>1, <2>2, SetInduction
  <2> QED
    BY <1>2, <2>3
<1>15. at[N] = IF \E e \in E : e.action = "revoke" THEN NONE ELSE chain[N]
  <2>1. N \in 1..N /\ N - 1 \in 0..(N - 1) /\ (N - 1) + 1 = N
    BY <1>2
  <2>2. at[N] = successor(chain[N], E)
    BY <1>12, <1>14, <2>1
  <2>3. CASE \E e \in E : e.action = "revoke"
    <3>1. PICK e \in revoking(E) : TRUE
      BY <2>3 DEF revoking
    <3>2. e \in E /\ e.prior = chain[N] /\ e.replacement = NONE
      BY <1>1, <1>4
    <3>3. \A d \in E : d.prior = chain[N] => d = e
      BY <1>10, <3>2 DEF transitions_valid
    <3> QED
      BY <2>2, <2>3, <3>2, <3>3 DEF successor
  <2>4. CASE ~ \E e \in E : e.action = "revoke"
    <3>1. \A e \in E : e \in superseding(E)
      BY <1>1, <2>4 DEF revoking
    <3>2. \A e \in E : e.prior # chain[N]
      BY <1>3, <1>5, <1>7, <2>1, <3>1
    <3> QED
      BY <2>2, <2>4, <3>2 DEF successor
  <2> QED
    BY <2>3, <2>4
<1>16. {at[n] : n \in 0..N} \ {NONE} = history
  <2>1. \A n \in 0..N : at[n] \in history \cup {NONE}
    <3>1. ASSUME NEW n \in 0..N PROVE at[n] \in history \cup {NONE}
      <4>1. CASE n = N
        <5>1. N \in 1..N
          BY <1>2
        <5> QED
          BY <1>3, <1>15, <4>1, <5>1
      <4>2. CASE n # N
        <5>1. n \in 0..(N - 1) /\ n + 1 \in 1..N
          BY <1>2, <4>2
        <5> QED
          BY <1>3, <1>14, <5>1
      <4> QED
        BY <4>1, <4>2
    <3> QED
      BY <3>1
  <2>2. \A x \in history : \E n \in 0..N : at[n] = x
    <3>1. ASSUME NEW x \in history PROVE \E n \in 0..N : at[n] = x
      <4>1. PICK i \in 1..N : chain[i] = x
        BY <1>3
      <4>2. i - 1 \in 0..(N - 1) /\ (i - 1) + 1 = i /\ i - 1 \in 0..N
        BY <1>2
      <4> QED
        BY <1>14, <4>1, <4>2
    <3> QED
      BY <3>1
  <2> QED
    BY <1>1, <2>1, <2>2
<1>17. linear(history, E)
  BY <1>10, <1>11, <1>16 DEF linear, at
<1>18. head(history, E) = at[N]
  <2>1. (CHOOSE r \in roots(history, E) : TRUE) = chain[1]
    BY <1>11
  <2> QED
    BY <2>1 DEF head, at
<1> QED
  BY <1>3, <1>15, <1>17, <1>18 DEF Last

\* Lifecycle events are only made from templates: a revocation has no replacement.
EventsAreMade ==
    /\ IsFiniteSet(events)
    /\ \A e \in events : e.action = "revoke" => e.replacement = NONE

LEMMA Made == Spec => []EventsAreMade
<1>1. Init => EventsAreMade
  BY FS_EmptySet DEF Init, EventsAreMade
<1>2. EventsAreMade /\ [Next]_vars => EventsAreMade'
  <2> SUFFICES ASSUME EventsAreMade, [Next]_vars PROVE EventsAreMade'
    OBVIOUS
  <2>1. ASSUME NEW event, lifecycle_event_from_draft(event) PROVE EventsAreMade'
    <3>1. events' = events \cup {event} /\ (event.action = "revoke" => event.replacement = NONE)
      BY <2>1 DEF lifecycle_event_from_draft
    <3> QED
      BY <3>1, FS_AddElement DEF EventsAreMade
  <2>2. CASE events' = events
    BY <2>2 DEF EventsAreMade
  <2> QED
    BY <2>1, <2>2
       DEF Next, vars, ReviewStep, AcceptRisk, Promote, Approve, review_from_draft,
           risk_acceptance_from_draft, promote, approve_report_with_signatures, trustVars
<1> QED
  BY <1>1, <1>2, PTL DEF Spec

\* For every history, of any length: the resolver's checks of the graph accept
\* exactly the chains, and the walk ends where the chain does.
THEOREM ResolverAcceptsChains == Spec => []ResolvesExactlyChains
<1>1. TypeOK /\ Finite /\ EventsAreMade => ResolvesExactlyChains
  <2> SUFFICES ASSUME TypeOK, Finite, EventsAreMade,
                      NEW R \in SUBSET reviews, NEW E \in SUBSET events, NEW f \in reviewed(R)
               PROVE  LET history == of_finding(R, f)
                          lifecycle == events_of(E, f)
                          chains == {chain \in SetToSeqs(history) : is_chain(chain, lifecycle)}
                      IN  /\ linear(history, lifecycle) <=> chains # {}
                          /\ \A chain \in chains :
                                head(history, lifecycle) =
                                   IF \E e \in lifecycle : e.action = "revoke"
                                   THEN NONE ELSE Last(chain)
    BY DEF ResolvesExactlyChains
  <2> DEFINE history == of_finding(R, f)
             lifecycle == events_of(E, f)
  <2>1. history \subseteq reviews /\ history # {} /\ lifecycle \subseteq events
    BY DEF of_finding, reviewed, events_of
  <2>2. reviews \subseteq Review /\ events \subseteq Event
    BY ReviewAssumptions DEF TypeOK
  <2>3. Lifecycle(history, lifecycle)
    <3>1. IsFiniteSet(history) /\ IsFiniteSet(lifecycle)
      BY <2>1, FS_Subset DEF Finite, EventsAreMade
    <3> QED
      BY <2>1, <2>2, <3>1 DEF Lifecycle, EventsAreMade
  <2> HIDE DEF history, lifecycle
  <2>4. linear(history, lifecycle) <=>
           {chain \in SetToSeqs(history) : is_chain(chain, lifecycle)} # {}
    BY <2>1, <2>3, LinearIsChain, ChainIsLinear
  <2>5. \A chain \in {chain \in SetToSeqs(history) : is_chain(chain, lifecycle)} :
           head(history, lifecycle) =
              IF \E e \in lifecycle : e.action = "revoke" THEN NONE ELSE Last(chain)
    BY <2>1, <2>3, ChainIsLinear
  <2> QED
    BY <2>4, <2>5 DEF history, lifecycle
<1> QED
  BY <1>1, TypeCorrect, Made, PTL
=============================================================================
