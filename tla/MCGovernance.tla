---------------------------- MODULE MCGovernance ----------------------------
(* Small instances of Governance for TLC. *)
EXTENDS Governance

CONSTANTS e1, e2, req, bo, ct, ea, inspect, probe, s1, s2

vote(kind, actor, role, decision, decided, expires) ==
    [subject_kind |-> kind, actor |-> actor, role |-> role, decision |-> decision,
     decided_at |-> decided, expires_at |-> expires]

grant(kind, actor, role) == vote(kind, actor, role, "approved", 0, 3)

terms(max_requests, preflight) ==
    [requester |-> req, window_start |-> 0, window_end |-> 2,
     max_requests |-> max_requests, ttl |-> 3, preflight_allowed |-> preflight]

\* One engagement, one passive content, and approvers who hold several roles,
\* vote for themselves, deny, let their vote expire or ask for too long a TTL.
AuthTerms == [e \in {e1} |-> terms(1, TRUE)]
AuthInPolicy == [e \in {e1} |-> {inspect}]
AuthPlans == {<<inspect>>}
AuthBallots ==
    {grant("engagement", bo, "business_owner"), grant("engagement", ct, "control_team"),
     grant("engagement", bo, "control_team"),
     vote("engagement", bo, "control_team", "denied", 1, 3),
     grant("proposal", ct, "control_team"),
     vote("proposal", bo, "execution_approver", "approved", 0, 1)}

\* One engagement whose single plan asks for one controlled and one passive
\* content, with two operators whose calls overlap on the network.  RaceInit is
\* the state after the setup at time 0: the engagement registered, submitted,
\* approved twice and activated, the plan imported, every proposal approved by
\* two people.  The third approval, which only the controlled one needs, races
\* with the executions, and so does a vote of the proposer, which counts against
\* an execution before it and for nothing after it.
RaceTerms == [e \in {e1} |-> terms(1, TRUE)]
RaceInPolicy == [e \in {e1} |-> {probe, inspect}]
RacePlan == <<probe, inspect>>
EngagementBallots ==
    <<grant("engagement", bo, "business_owner"), grant("engagement", ct, "control_team")>>
ProposalBallots ==
    <<grant("proposal", ct, "control_team"), grant("proposal", ea, "execution_approver")>>
RaceBallots ==
    {grant("proposal", bo, "business_owner"), grant("proposal", req, "business_owner")}

RaceProposal(i) == proposalOf(e1, RacePlan[i], req, 0)
approvalEvents(subject, ballots) ==
    [i \in DOMAIN ballots |-> approval_event(subject, ballots[i])]

RaceInit ==
    /\ status = [e \in {e1} |-> "approved"]
    /\ proposals = {RaceProposal(i) : i \in DOMAIN RacePlan}
    /\ approvals = {[subject |-> e1, ballot |-> EngagementBallots[i]] :
                       i \in DOMAIN EngagementBallots}
             \cup {[subject |-> RaceProposal(i), ballot |-> ProposalBallots[j]] :
                       i \in DOMAIN RacePlan, j \in DOMAIN ProposalBallots}
    /\ decisions = <<>>
    /\ receipts = <<>>
    /\ audit = <<event(0, "engagement.registered", e1, e1),
                 event(0, "engagement.submitted", e1, e1)>>
               \o approvalEvents(e1, EngagementBallots)
               \o <<event(0, "engagement.activated", e1, e1)>>
               \o [i \in DOMAIN RacePlan |->
                      event(0, "proposal.imported", e1, RaceProposal(i))]
               \o approvalEvents(RaceProposal(1), ProposalBallots)
               \o approvalEvents(RaceProposal(2), ProposalBallots)
    /\ emergency_stops = {}
    /\ request_times = [e \in {e1} |-> {}]
    /\ calls = [c \in Sessions |-> Idle]

RaceSpec == RaceInit /\ [][Next]_vars /\ \A c \in Sessions : WF_vars(Finish(c))

\* Three approvers of a controlled content, one of whom approves for two roles
\* while the other two approve for the same one.
HatsBallots ==
    {EngagementBallots[1], EngagementBallots[2],
     grant("proposal", bo, "business_owner"), grant("proposal", bo, "execution_approver"),
     grant("proposal", ct, "control_team"), grant("proposal", ea, "control_team")}
HatsPlans == {<<probe>>}
=============================================================================
