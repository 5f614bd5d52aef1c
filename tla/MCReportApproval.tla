--------------------------- MODULE MCReportApproval ---------------------------
(* A small instance of ReportApproval for TLC. *)
EXTENDS ReportApproval, TLC

CONSTANTS f1, f2, ana, bo, tester, governor, owner, approver

review(f, d, target, by, t) ==
    [finding_id |-> f, disposition |-> d, duplicate_of |-> target,
     reviewer_id |-> by, reviewed_at |-> t]

\* One finding is confirmed, twice by different people, or not; the other one is a
\* duplicate of it or confirmed itself.  Two drafts are refused.
SomeDrafts ==
    {review(f1, "confirmed", NONE, ana, 0), review(f1, "confirmed", NONE, bo, 1),
     review(f1, "false_positive", NONE, bo, 1),
     review(f2, "duplicate", f1, ana, 0), review(f2, "confirmed", NONE, ana, 0),
     review(f1, "duplicate", f1, ana, 0), review(f1, "duplicate", NONE, ana, 0)}

AtMost(m, n, a, p, d) ==
    [reviews |-> m, events |-> n, acceptances |-> a, manifests |-> p, approved |-> d]

\* Long histories of two findings up to promotion; short ones of one finding, with an
\* acceptance of its risk and two promotions; and one review with all that follows.
ThreeBatches ==
    ({f1, f2} :> AtMost(3, 2, 0, 1, 0)) @@ ({f1} :> AtMost(2, 1, 1, 2, 0)) @@
    ({f2} :> AtMost(1, 0, 1, 2, 1))

TwoReviewerKeys ==
    [k \in {tester, governor} |->
        IF k = tester THEN {"qualified_tester"} ELSE {"review_governor"}]

TwoApprovalKeys ==
    [k \in {owner, approver} |->
        IF k = owner THEN {"business_risk_owner"} ELSE {"report_approver"}]
=============================================================================
