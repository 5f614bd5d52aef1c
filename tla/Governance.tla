------------------------------ MODULE Governance ------------------------------
(***************************************************************************)
(* The in-memory governance control plane, FinRedOpsService, with the      *)
(* policy engine that authorises executions, the audit chain every         *)
(* operation appends to, and the controlled runner that leaves the process *)
(* while it waits for the network.                                         *)
(*                                                                         *)
(* Two facts of the code shape the model.  Every operation changes its     *)
(* dictionaries first and appends its audit event last, and the append     *)
(* raises when the caller's timestamp is older than the last event: the    *)
(* change then stays without an event.  And a controlled execution is not  *)
(* atomic: the runner polls is_cancelled before it connects and after the  *)
(* response headers arrive, and other operations run around those polls.   *)
(*                                                                         *)
(* Time is a natural number of ticks supplied by the caller of each        *)
(* operation, as `now` and `decided_at` are in the code: no operation      *)
(* reads a clock, and nothing orders the times two callers supply.         *)
(***************************************************************************)
EXTENDS Naturals, FiniteSets, Sequences

CONSTANTS
    Engagements,   \* engagement ids
    Actors,        \* human actor ids
    Contents,      \* what a plan may ask for: action, target and parameters
    Sessions,      \* operators' concurrent execute_proposal calls
    Times,         \* the timestamps callers supply
    Minute,        \* the rate window, in ticks
    Terms,         \* the immutable fields of each engagement
    Controlled,    \* the contents whose catalog action is of CONTROLLED risk
    InPolicy,      \* [Engagements -> set of contents that pass the static checks]
    Ballots,       \* the approval records approvers may hand in
    Plans,         \* the plan documents the gateway accepts
    RunnerEnabled, \* was a ControlledValidationRunner injected?
    Planners,      \* the actors who hand in plans
    MaxEvents,     \* bound on the audit chain, for TLC
    MaxApprovals   \* bound on the recorded approvals, for TLC

Roles == {"requester", "business_owner", "control_team",
          "execution_approver", "operator", "auditor"}

Ballot == [subject_kind: {"engagement", "proposal"}, actor: Actors, role: Roles,
           decision: {"approved", "denied"}, decided_at: Nat, expires_at: Nat]

Term == [requester: Actors, window_start: Nat, window_end: Nat,
         max_requests: Nat \ {0}, ttl: Nat, preflight_allowed: BOOLEAN]

\* A proposal's id is a digest of its content, proposer and proposal time.
Proposal == [engagement: Engagements, content: Contents, by: Actors, at: Times]

Subject == Engagements \cup Proposal

Approval == [subject: Subject, ballot: Ballot]

ASSUME GovernanceAssumptions ==
    /\ Times \subseteq Nat
    /\ Minute \in Nat \ {0}
    /\ Terms \in [Engagements -> Term]
    /\ Controlled \subseteq Contents
    /\ InPolicy \in [Engagements -> SUBSET Contents]
    /\ Ballots \subseteq {b \in Ballot : b.decided_at < b.expires_at}
    /\ Plans \subseteq Seq(Contents)
    /\ \A plan \in Plans : \A i, j \in DOMAIN plan : plan[i] = plan[j] => i = j
    /\ RunnerEnabled \in BOOLEAN
    /\ Planners \subseteq Actors
    /\ MaxEvents \in Nat
    /\ MaxApprovals \in Nat

VARIABLES
    status,          \* engagements[e].status, "unregistered" before the first call
    proposals,       \* the imported proposals
    approvals,       \* the recorded approvals
    decisions,       \* the last PolicyDecision of each proposal
    receipts,        \* the last ExecutionReceipt of each proposal
    audit,           \* the audit chain, shared by all engagements
    emergency_stops, \* _emergency_stops
    request_times,   \* _controlled_request_times; see ControlledRequests
    calls            \* where each session's controlled execution stands

vars == <<status, proposals, approvals, decisions, receipts, audit,
          emergency_stops, request_times, calls>>

-----------------------------------------------------------------------------
(* The audit chain *)

EventTypes == {"engagement.registered", "engagement.submitted",
               "engagement.approval_recorded", "proposal.approval_recorded",
               "engagement.activated", "engagement.emergency_stopped",
               "proposal.imported", "policy.allowed", "policy.denied",
               "simulation.completed", "validation.completed",
               "validation.failed", "validation.cancelled"}

Event == [at: Nat, type: EventTypes, engagement: Engagements, subject: Subject]

event(at, type, e, subject) ==
    [at |-> at, type |-> type, engagement |-> e, subject |-> subject]

\* Mutant: the chain takes any timestamp.
chronological_unchecked(at) == at = at

\* AuditChain.append raises when the timestamp moves backwards.
chronological(at) == audit = <<>> \/ audit[Len(audit)].at <= at

\* Append the events of one operation, all stamped `at`.  A refused append
\* leaves the chain alone and raises to the caller.
append(at, events) == audit' = IF chronological(at) THEN audit \o events ELSE audit

Room == Len(audit) < MaxEvents

-----------------------------------------------------------------------------
(* The policy engine *)

\* dict[key] = value.
Put(f, key, value) == [x \in DOMAIN f \cup {key} |-> IF x = key THEN value ELSE f[x]]

engagement_roles == {"business_owner", "control_team"}

\* Mutant: a controlled action needs no more approvals than a simulated one.
proposal_roles_two(p) ==
    IF p.content \in Contents THEN {"control_team", "execution_approver"} ELSE {}

\* A controlled action also needs the business owner.
proposal_roles(p) ==
    {"control_team", "execution_approver"}
        \cup (IF p.content \in Controlled THEN {"business_owner"} ELSE {})

\* Mutant: expired approvals still count.
current_approvals_unexpired(subject, now) ==
    {a \in approvals : a.subject = subject /\ a.ballot.decided_at <= now}

current_approvals(subject, now) ==
    {a \in approvals : /\ a.subject = subject
                       /\ a.ballot.decided_at <= now
                       /\ now < a.ballot.expires_at}

\* The approving actors that hold one of the required roles.
approvers(current, required) ==
    {a.ballot.actor : a \in {b \in current : /\ b.ballot.decision = "approved"
                                            /\ b.ballot.role \in required}}

granted_roles(current) ==
    {a.ballot.role : a \in {b \in current : b.ballot.decision = "approved"}}

\* Mutant: the roles are checked, the number of distinct actors is not.
quorum_of_roles(subject, required, barred, ttl, now) ==
    LET current == current_approvals(subject, now)
    IN  /\ \A a \in current : /\ a.ballot.expires_at <= a.ballot.decided_at + ttl
                              /\ a.ballot.decision # "denied"
        /\ required \subseteq granted_roles(current)
        /\ barred \notin approvers(current, required)

\* The approval test of engagement_approval_ready and of evaluate: no current
\* approval outlives its TTL, none is a denial, every required role approved,
\* at least as many actors as roles, and the barred actor not among them.
quorum(subject, required, barred, ttl, now) ==
    LET current == current_approvals(subject, now)
    IN  /\ \A a \in current : /\ a.ballot.expires_at <= a.ballot.decided_at + ttl
                              /\ a.ballot.decision # "denied"
        /\ required \subseteq granted_roles(current)
        /\ Cardinality(approvers(current, required)) >= Cardinality(required)
        /\ barred \notin approvers(current, required)

engagement_approval_ready(e, now) ==
    quorum(e, engagement_roles, Terms[e].requester, Terms[e].ttl, now)

\* PolicyEngine.evaluate: is the decision allowed?
evaluate(p, now, requests_in_last_minute) ==
    LET terms == Terms[p.engagement]
    IN  /\ p.engagement \notin emergency_stops
        /\ status[p.engagement] = "approved"
        /\ now \in terms.window_start .. terms.window_end
        /\ p.at \in terms.window_start .. terms.window_end
        /\ p.content \in InPolicy[p.engagement]
        /\ p.content \in Controlled =>
              RunnerEnabled /\ requests_in_last_minute < terms.max_requests
        /\ quorum(p, proposal_roles(p), p.by, terms.ttl, now)

-----------------------------------------------------------------------------
(* Engagement lifecycle *)

Idle == [phase |-> "idle"]

Init ==
    /\ status = [e \in Engagements |-> "unregistered"]
    /\ proposals = {}
    /\ approvals = {}
    /\ decisions = <<>>
    /\ receipts = <<>>
    /\ audit = <<>>
    /\ emergency_stops = {}
    /\ request_times = [e \in Engagements |-> {}]
    /\ calls = [c \in Sessions |-> Idle]

executionState == <<decisions, receipts, request_times, calls>>

register_engagement(e, now) ==
    /\ status[e] = "unregistered"
    /\ status' = [status EXCEPT ![e] = "draft"]
    /\ append(now, <<event(now, "engagement.registered", e, e)>>)
    /\ UNCHANGED <<proposals, approvals, emergency_stops, executionState>>

submit_engagement(e, now) ==
    /\ status[e] = "draft"
    /\ Terms[e].preflight_allowed
    /\ status' = [status EXCEPT ![e] = "pending_approval"]
    /\ append(now, <<event(now, "engagement.submitted", e, e)>>)
    /\ UNCHANGED <<proposals, approvals, emergency_stops, executionState>>

\* The subject is registered or imported, and its digest is the approval's:
\* engagements and proposals never change what their digest covers.
approvable(kind) ==
    IF kind = "engagement" THEN {e \in Engagements : status[e] # "unregistered"}
                           ELSE proposals

\* Mutant: only an identical decision counts as a duplicate.
duplicate_vote(subject, ballot) ==
    \E a \in approvals : a.subject = subject /\ a.ballot = ballot

\* An active approval of the same actor and role, whatever it decided.
duplicate(subject, ballot) ==
    \E a \in approvals : /\ a.subject = subject
                         /\ a.ballot.actor = ballot.actor
                         /\ a.ballot.role = ballot.role
                         /\ a.ballot.expires_at > ballot.decided_at

engagement_of(kind, subject) ==
    IF kind = "engagement" THEN subject ELSE subject.engagement

approval_event(subject, ballot) ==
    event(ballot.decided_at,
          IF ballot.subject_kind = "engagement" THEN "engagement.approval_recorded"
                                                ELSE "proposal.approval_recorded",
          engagement_of(ballot.subject_kind, subject), subject)

record_approval(subject, ballot) ==
    /\ subject \in approvable(ballot.subject_kind)
    /\ ~duplicate(subject, ballot)
    /\ approvals' = approvals \cup {[subject |-> subject, ballot |-> ballot]}
    /\ append(ballot.decided_at, <<approval_event(subject, ballot)>>)
    /\ UNCHANGED <<status, proposals, emergency_stops, executionState>>

\* Mutant: the status is not checked, so a paused engagement comes back.
activate_from_any_status(e, now) ==
    /\ status[e] # "unregistered"
    /\ engagement_approval_ready(e, now)
    /\ status' = [status EXCEPT ![e] = "approved"]
    /\ append(now, <<event(now, "engagement.activated", e, e)>>)
    /\ UNCHANGED <<proposals, approvals, emergency_stops, executionState>>

activate_engagement(e, now) ==
    /\ status[e] = "pending_approval"
    /\ Terms[e].preflight_allowed
    /\ engagement_approval_ready(e, now)
    /\ status' = [status EXCEPT ![e] = "approved"]
    /\ append(now, <<event(now, "engagement.activated", e, e)>>)
    /\ UNCHANGED <<proposals, approvals, emergency_stops, executionState>>

\* From any status, and again when already paused.
pause_engagement(e, now) ==
    /\ status[e] # "unregistered"
    /\ emergency_stops' = emergency_stops \cup {e}
    /\ status' = [status EXCEPT ![e] = "paused"]
    /\ append(now, <<event(now, "engagement.emergency_stopped", e, e)>>)
    /\ UNCHANGED <<proposals, approvals, executionState>>

-----------------------------------------------------------------------------
(* Plans *)

proposalOf(e, content, by, now) ==
    [engagement |-> e, content |-> content, by |-> by, at |-> now]

\* The proposals are stored and audited one by one: the loop stops before the
\* first that exists already, and after the first whose event the chain refuses,
\* which stays stored without an event.
ingest_plan(e, plan, by, now) ==
    LET item(i) == proposalOf(e, plan[i], by, now)
    IN  /\ status[e] = "approved"
        /\ \E n \in 0..Len(plan) :
              /\ \A i \in 1..n : item(i) \notin proposals
              /\ n < Len(plan) => item(n + 1) \in proposals
              /\ proposals' = proposals \cup
                    {item(i) : i \in IF chronological(now) THEN 1..n ELSE (1..n) \cap {1}}
              /\ append(now, [i \in 1..n |-> event(now, "proposal.imported", e, item(i))])
        /\ UNCHANGED <<status, approvals, emergency_stops, executionState>>

-----------------------------------------------------------------------------
(* Executions *)

\* Mutant: the window is one tick short.
recent_requests_short(e, now) == {i \in request_times[e] : now + 1 < audit[i].at + Minute}

\* The requests of engagement e younger than a minute.  The list of times is
\* kept as the positions in the chain of the events that admitted them.
recent_requests(e, now) == {i \in request_times[e] : now < audit[i].at + Minute}

\* The chain refuses the decision's event: the decision stays, the call raises.
decision_unlogged(e, recent) ==
    /\ request_times' = [request_times EXCEPT ![e] = recent]
    /\ UNCHANGED <<audit, receipts, calls>>

\* Mutant: a denied execution leaves a receipt too.
denied_with_receipt(p, now, recent) ==
    /\ audit' = Append(audit, event(now, "policy.denied", p.engagement, p))
    /\ receipts' = Put(receipts, p, [status |-> "failed", at |-> now])
    /\ request_times' = [request_times EXCEPT ![p.engagement] = recent]
    /\ UNCHANGED calls

denied(p, now, recent) ==
    /\ audit' = Append(audit, event(now, "policy.denied", p.engagement, p))
    /\ request_times' = [request_times EXCEPT ![p.engagement] = recent]
    /\ UNCHANGED <<receipts, calls>>

\* The simulation runner reads a fixture and returns at once.
simulated(p, now, recent) ==
    /\ audit' = audit \o <<event(now, "policy.allowed", p.engagement, p),
                           event(now, "simulation.completed", p.engagement, p)>>
    /\ receipts' = Put(receipts, p, [status |-> "simulated", at |-> now])
    /\ request_times' = [request_times EXCEPT ![p.engagement] = recent]
    /\ UNCHANGED calls

\* The request is counted and handed to the controlled runner.
admitted(c, p, now, recent) ==
    /\ audit' = Append(audit, event(now, "policy.allowed", p.engagement, p))
    /\ request_times' =
          [request_times EXCEPT ![p.engagement] = recent \cup {Len(audit) + 1}]
    /\ calls' = [calls EXCEPT ![c] = [phase |-> "admitted", proposal |-> p, at |-> now]]
    /\ UNCHANGED receipts

\* execute_proposal up to the runner's first poll of is_cancelled.
execute_proposal(c, p, now) ==
    LET recent == recent_requests(p.engagement, now)
        allowed == evaluate(p, now, Cardinality(recent))
    IN  /\ calls[c] = Idle
        /\ p \in proposals
        /\ decisions' = Put(decisions, p, [allowed |-> allowed, at |-> now])
        /\ UNCHANGED <<status, proposals, approvals, emergency_stops>>
        /\ \/ ~chronological(now) /\ decision_unlogged(p.engagement, recent)
           \/ chronological(now) /\ ~allowed /\ denied(p, now, recent)
           \/ /\ chronological(now) /\ allowed /\ p.content \notin Controlled
              /\ simulated(p, now, recent)
           \/ /\ chronological(now) /\ allowed /\ p.content \in Controlled
              /\ admitted(c, p, now, recent)

\* Mutant: the runner never asks.
never_cancelled(e) == e \notin Engagements

is_cancelled(e) == e \in emergency_stops \/ status[e] = "paused"

CompletionType(outcome) ==
    CASE outcome = "validated" -> "validation.completed"
      [] outcome = "failed"    -> "validation.failed"
      [] outcome = "cancelled" -> "validation.cancelled"

\* The runner returned: the receipt is stored, then audited with the time the
\* call started at, which the chain refuses when it has moved on.
complete(c, outcome) ==
    LET p == calls[c].proposal
        at == calls[c].at
    IN  /\ receipts' = Put(receipts, p, [status |-> outcome, at |-> at])
        /\ append(at, <<event(at, CompletionType(outcome), p.engagement, p)>>)
        /\ calls' = [calls EXCEPT ![c] = Idle]
        /\ UNCHANGED <<status, proposals, approvals, decisions, emergency_stops,
                       request_times>>

\* Mutant: a cancelled call is dropped without a receipt and never returns.
cancel_without_receipt(c) ==
    /\ calls[c].phase = "admitted"
    /\ is_cancelled(calls[c].proposal.engagement)
    /\ UNCHANGED vars

cancel_before_connection(c) ==
    /\ calls[c].phase = "admitted"
    /\ is_cancelled(calls[c].proposal.engagement)
    /\ complete(c, "cancelled")

connect(c) ==
    /\ calls[c].phase = "admitted"
    /\ ~is_cancelled(calls[c].proposal.engagement)
    /\ calls' = [calls EXCEPT ![c].phase = "connected"]
    /\ UNCHANGED <<status, proposals, approvals, decisions, receipts, audit,
                   emergency_stops, request_times>>

\* The transport raises ProbeFailure: no second poll.
probe_failure(c) ==
    /\ calls[c].phase = "connected"
    /\ complete(c, "failed")

\* Headers arrive: a stop cancels, a 405 or 501 fails, any other answer counts.
response(c) ==
    /\ calls[c].phase = "connected"
    /\ IF is_cancelled(calls[c].proposal.engagement)
       THEN complete(c, "cancelled")
       ELSE \E outcome \in {"failed", "validated"} : complete(c, outcome)

-----------------------------------------------------------------------------
(* The service *)

Lifecycle ==
    \E e \in Engagements, now \in Times :
        \/ register_engagement(e, now)
        \/ submit_engagement(e, now)
        \/ activate_engagement(e, now)
        \/ pause_engagement(e, now)

Approve == /\ Cardinality(approvals) < MaxApprovals
           /\ \E ballot \in Ballots : \E subject \in approvable(ballot.subject_kind) :
                 record_approval(subject, ballot)

Ingest == \E e \in Engagements, plan \in Plans, by \in Planners, now \in Times :
              ingest_plan(e, plan, by, now)

Execute == \E c \in Sessions, p \in proposals, now \in Times : execute_proposal(c, p, now)

Finish(c) == cancel_before_connection(c) \/ connect(c) \/ probe_failure(c) \/ response(c)

\* MaxEvents and MaxApprovals bound the operations callers start, not the calls
\* in flight.
Next ==
    \/ Room /\ (Lifecycle \/ Approve \/ Ingest \/ Execute)
    \/ \E c \in Sessions : Finish(c)

Spec == Init /\ [][Next]_vars

\* The runner always goes on: the transport answers or times out.
FairSpec == Spec /\ \A c \in Sessions : WF_vars(Finish(c))

-----------------------------------------------------------------------------
(* Properties *)

Statuses == {"unregistered", "draft", "pending_approval", "approved", "paused"}

Decision == [allowed: BOOLEAN, at: Times]

Receipt == [status: {"simulated", "validated", "failed", "cancelled"}, at: Times]

Call == {Idle} \cup [phase: {"admitted", "connected"}, proposal: proposals, at: Times]

\* Every dictionary of the service holds what its annotation says, decisions
\* and receipts only exist for imported proposals, and the request list of an
\* engagement only counts events that are in the chain.
TypeOK ==
    /\ status \in [Engagements -> Statuses]
    /\ proposals \subseteq Proposal
    /\ approvals \subseteq Approval
    /\ decisions \in [DOMAIN decisions -> Decision] /\ DOMAIN decisions \subseteq proposals
    /\ receipts \in [DOMAIN receipts -> Receipt] /\ DOMAIN receipts \subseteq proposals
    /\ audit \in Seq(Event)
    /\ emergency_stops \subseteq Engagements
    /\ request_times \in [Engagements -> SUBSET DOMAIN audit]
    /\ calls \in [Sessions -> Call]

\* Approval `a` of `subject` speaks for its role at time `now`.
speaks(a, subject, ttl, now) ==
    /\ a.subject = subject
    /\ a.ballot.decision = "approved"
    /\ now \in a.ballot.decided_at .. (a.ballot.expires_at - 1)
    /\ a.ballot.expires_at - a.ballot.decided_at <= ttl

\* Separation of duties, stated without the engine's counting: a different
\* person can be named for each required role, none of them the barred one.
PersonPerRole(subject, required, barred, ttl, now) ==
    \E person \in [required -> Actors \ {barred}] :
        /\ \A r1, r2 \in required : person[r1] = person[r2] => r1 = r2
        /\ \A r \in required :
              \E a \in approvals : /\ speaks(a, subject, ttl, now)
                                   /\ a.ballot.role = r
                                   /\ a.ballot.actor = person[r]

AllowedAt(i) == audit[i].type = "policy.allowed"

ControlledAt(i) == AllowedAt(i) /\ audit[i].subject.content \in Controlled

\* An engagement is only ever active when, at some moment, a business owner and
\* another person of the control team, neither of them the requester, had both
\* approved it (activate_engagement, engagement_approval_ready).
ActivationDualControl ==
    \A e \in Engagements : status[e] = "approved" =>
        \E now \in Times : PersonPerRole(e, {"business_owner", "control_team"},
                                         Terms[e].requester, Terms[e].ttl, now)

\* Every simulated execution in the chain was approved for two roles by two
\* different people, neither the proposer, with approvals valid at that moment.
SimulationDualControl ==
    \A i \in DOMAIN audit : AllowedAt(i) /\ ~ControlledAt(i) =>
        LET p == audit[i].subject
        IN  PersonPerRole(p, {"control_team", "execution_approver"}, p.by,
                          Terms[p.engagement].ttl, audit[i].at)

\* Every controlled execution in the chain had, at its moment, each of the three
\* roles approved by somebody else than the proposer, and three different such
\* people.  A vote of the proposer that is dated back and recorded after the
\* execution does not undo this.
ControlledThreeApprovers ==
    \A i \in DOMAIN audit : ControlledAt(i) =>
        LET p == audit[i].subject
            required == {"business_owner", "control_team", "execution_approver"}
            valid == {a \in approvals : /\ speaks(a, p, Terms[p.engagement].ttl, audit[i].at)
                                       /\ a.ballot.actor # p.by}
        IN  /\ \A r \in required : \E a \in valid : a.ballot.role = r
            /\ Cardinality(approvers(valid, required)) >= 3

\* What docs/CONTROLLED_VALIDATION.md promises for a controlled execution:
\* business owner, control team and execution approver are three distinct actors.
\* The engine counts approvers and roles separately, so one person may fill two.
ControlledPersonPerRole ==
    \A i \in DOMAIN audit : ControlledAt(i) =>
        LET p == audit[i].subject
        IN  PersonPerRole(p, {"business_owner", "control_team", "execution_approver"}, p.by,
                          Terms[p.engagement].ttl, audit[i].at)

\* No actor has two approval records for one subject and role that are valid at
\* the same time, whatever the order they were recorded in (record_approval).
OneVoicePerRole ==
    \A a, b \in approvals :
        /\ a.subject = b.subject
        /\ a.ballot.actor = b.ballot.actor
        /\ a.ballot.role = b.ballot.role
        /\ a # b
        => \/ a.ballot.expires_at <= b.ballot.decided_at
           \/ b.ballot.expires_at <= a.ballot.decided_at

\* The controlled requests of j's engagement in the minute that ends with j.
MinuteBefore(j) == {i \in 1..j : /\ ControlledAt(i)
                                 /\ audit[i].engagement = audit[j].engagement
                                 /\ audit[j].at < audit[i].at + Minute}

\* In any minute that ends with a controlled request, the engagement made at
\* most max_requests controlled requests: pruning the list of times with
\* caller-supplied times never forgets a request too early.
RateCeiling ==
    \A j \in DOMAIN audit : ControlledAt(j) =>
        Cardinality(MinuteBefore(j)) <= Terms[audit[j].engagement].max_requests

\* Every receipt, and every controlled call in flight, has its permission in the
\* chain: an allowing decision for that proposal, of the time it carries.
PermissionInChain ==
    LET permitted(p, at) == \E i \in DOMAIN audit : /\ AllowedAt(i)
                                                    /\ audit[i].subject = p
                                                    /\ audit[i].at = at
    IN  /\ \A p \in DOMAIN receipts : permitted(p, receipts[p].at)
        /\ \A c \in Sessions : calls[c] # Idle => permitted(calls[c].proposal, calls[c].at)

\* An emergency stop is final: no sequence of operations brings the engagement
\* back, or into any other status.
StopIsFinal ==
    [][\A e \in emergency_stops : e \in emergency_stops' /\ status'[e] = "paused"]_vars

\* The events a stopped engagement may still cause.
InertEvents == {"engagement.emergency_stopped", "engagement.approval_recorded",
                "proposal.approval_recorded", "policy.denied",
                "validation.failed", "validation.cancelled"}

\* After an emergency stop nothing new is admitted and no call in flight yields
\* a validated or simulated result, even when the stop arrived while the
\* request was on the network.
StoppedIsInert ==
    [][\A e \in emergency_stops :
          /\ \A i \in DOMAIN audit' \ DOMAIN audit :
                audit'[i].engagement = e => audit'[i].type \in InertEvents
          /\ \A p \in DOMAIN receipts' :
                p.engagement = e /\ (p \notin DOMAIN receipts \/ receipts'[p] # receipts[p])
                    => receipts'[p].status \in {"failed", "cancelled"}]_vars

\* Every controlled execution that was admitted returns to its caller, whatever
\* is stopped meanwhile and whether or not the chain takes its last event.
CallsReturn == \A c \in Sessions : calls[c] # Idle ~> calls[c] = Idle

=============================================================================
