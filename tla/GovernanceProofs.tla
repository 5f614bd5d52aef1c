-------------------------- MODULE GovernanceProofs --------------------------
(***************************************************************************)
(* Theorems about Governance, for every number of engagements, actors and  *)
(* sessions, every plan and every timestamp a caller may supply.           *)
(***************************************************************************)
EXTENDS Governance, FiniteSetTheorems, TLAPS

\* Dictionary updates keep a dictionary's type.
LEMMA PutType ==
    ASSUME NEW S, NEW D, NEW f \in [D -> S], NEW key, NEW value \in S
    PROVE  Put(f, key, value) \in [D \cup {key} -> S]
  BY DEF Put

\* Appending events, or being refused, keeps the chain a sequence of events,
\* and never shortens it.
LEMMA AppendType ==
    ASSUME audit \in Seq(Event), NEW at, NEW events \in Seq(Event), append(at, events)
    PROVE  /\ audit' \in Seq(Event)
           /\ Len(audit) <= Len(audit')
           /\ DOMAIN audit \subseteq DOMAIN audit'
           /\ \A i \in DOMAIN audit : audit'[i] = audit[i]
  BY DEF append

\* The request list stays inside the chain when the chain only grows.
LEMMA RequestsType ==
    ASSUME request_times \in [Engagements -> SUBSET DOMAIN audit],
           DOMAIN audit \subseteq DOMAIN audit',
           UNCHANGED request_times
    PROVE  request_times' \in [Engagements -> SUBSET DOMAIN audit']
  OBVIOUS

\* An event of an operation is an event of the chain.
LEMMA EventType ==
    ASSUME NEW at \in Nat, NEW type \in EventTypes, NEW e \in Engagements,
           NEW subject \in Subject
    PROVE  event(at, type, e, subject) \in Event
  BY DEF event, Event

\* Each operation of an engagement's lifecycle keeps the types.
LEMMA LifecycleType ==
    ASSUME TypeOK, Lifecycle
    PROVE  TypeOK'
<1> USE GovernanceAssumptions
<1> PICK e \in Engagements, now \in Times :
          \/ register_engagement(e, now)
          \/ submit_engagement(e, now)
          \/ activate_engagement(e, now)
          \/ pause_engagement(e, now)
  BY DEF Lifecycle
<1>1. e \in Subject /\ now \in Nat
  BY DEF Subject
<1>2. \A type \in EventTypes : <<event(now, type, e, e)>> \in Seq(Event)
  BY <1>1, EventType
<1>3. PICK type \in EventTypes : append(now, <<event(now, type, e, e)>>)
  BY DEF EventTypes, register_engagement, submit_engagement, activate_engagement,
         pause_engagement
<1>4. audit' \in Seq(Event) /\ DOMAIN audit \subseteq DOMAIN audit'
  BY <1>2, <1>3, AppendType DEF TypeOK
<1>5. status' \in [Engagements -> Statuses]
  BY DEF TypeOK, Statuses, register_engagement, submit_engagement,
         activate_engagement, pause_engagement
<1>6. emergency_stops' \subseteq Engagements
  BY DEF TypeOK, register_engagement, submit_engagement, activate_engagement,
         pause_engagement
<1>7. UNCHANGED <<proposals, approvals, executionState>>
  BY DEF register_engagement, submit_engagement, activate_engagement, pause_engagement
<1> QED
  BY <1>4, <1>5, <1>6, <1>7 DEF TypeOK, executionState, Call

\* Recording an approval keeps the types.
LEMMA ApproveType ==
    ASSUME TypeOK, Approve
    PROVE  TypeOK'
<1> USE GovernanceAssumptions
<1> PICK ballot \in Ballots : \E subject \in approvable(ballot.subject_kind) :
          record_approval(subject, ballot)
  BY DEF Approve
<1> PICK subject \in approvable(ballot.subject_kind) : record_approval(subject, ballot)
  OBVIOUS
<1>1. ballot \in Ballot /\ ballot.decided_at \in Nat
  BY DEF Ballot
<1>2. subject \in Subject /\ engagement_of(ballot.subject_kind, subject) \in Engagements
  BY <1>1 DEF approvable, Subject, TypeOK, Proposal, engagement_of
<1>3. approval_event(subject, ballot) \in Event
  <2> DEFINE type == IF ballot.subject_kind = "engagement"
                     THEN "engagement.approval_recorded" ELSE "proposal.approval_recorded"
  <2>1. type \in EventTypes
    BY DEF EventTypes
  <2> QED
    BY <1>1, <1>2, <2>1, EventType DEF approval_event
<1>4. append(ballot.decided_at, <<approval_event(subject, ballot)>>)
  BY DEF record_approval
<1>5. audit' \in Seq(Event) /\ DOMAIN audit \subseteq DOMAIN audit'
  <2>1. <<approval_event(subject, ballot)>> \in Seq(Event)
    BY <1>3
  <2> QED
    BY <1>1, <1>4, <2>1, AppendType DEF TypeOK
<1>6. approvals' \subseteq Approval
  BY <1>1, <1>2 DEF record_approval, TypeOK, Approval
<1>7. UNCHANGED <<status, proposals, emergency_stops, executionState>>
  BY DEF record_approval
<1> QED
  BY <1>5, <1>6, <1>7 DEF TypeOK, executionState, Call

\* Importing a plan keeps the types.
LEMMA IngestType ==
    ASSUME TypeOK, Ingest
    PROVE  TypeOK'
<1> USE GovernanceAssumptions
<1> PICK e \in Engagements, plan \in Plans, by \in Planners, now \in Times :
          ingest_plan(e, plan, by, now)
  BY DEF Ingest
<1> DEFINE item(i) == proposalOf(e, plan[i], by, now)
           imported(n) == [i \in 1..n |-> event(now, "proposal.imported", e, item(i))]
<1>1. PICK n \in 0..Len(plan) :
          /\ proposals' = proposals \cup
                {item(i) : i \in IF chronological(now) THEN 1..n ELSE (1..n) \cap {1}}
          /\ append(now, imported(n))
  BY DEF ingest_plan
<1>2. \A i \in 1..n : item(i) \in Proposal
  BY DEF proposalOf, Proposal
<1>3. proposals' \subseteq Proposal
  BY <1>1, <1>2 DEF TypeOK
<1>4. imported(n) \in Seq(Event)
  <2>1. \A i \in 1..n : event(now, "proposal.imported", e, item(i)) \in Event
    BY <1>2, EventType DEF Subject, EventTypes
  <2> QED
    BY <2>1
<1> HIDE DEF imported
<1>5. audit' \in Seq(Event) /\ DOMAIN audit \subseteq DOMAIN audit'
  BY <1>1, <1>4, AppendType DEF TypeOK
<1>6. UNCHANGED <<status, approvals, emergency_stops, executionState>>
  BY DEF ingest_plan
<1>7. proposals \subseteq proposals'
  BY <1>1
<1> QED
  BY <1>3, <1>5, <1>6, <1>7 DEF TypeOK, executionState, Call

\* A decision, whatever it decides, keeps the types.
LEMMA ExecuteType ==
    ASSUME TypeOK, NEW c \in Sessions, NEW p \in proposals, NEW now \in Times,
           execute_proposal(c, p, now)
    PROVE  TypeOK'
<1> USE GovernanceAssumptions
<1> DEFINE recent == recent_requests(p.engagement, now)
           allowed == evaluate(p, now, Cardinality(recent))
<1>1. /\ p \in Proposal
      /\ p \in Subject
      /\ p.engagement \in Engagements
      /\ now \in Nat
  BY DEF TypeOK, Proposal, Subject
<1>2. recent \subseteq DOMAIN audit
  BY <1>1 DEF recent_requests, TypeOK
<1>3. \A type \in EventTypes : event(now, type, p.engagement, p) \in Event
  BY <1>1, EventType
<1>4. UNCHANGED <<status, proposals, approvals, emergency_stops>>
  BY DEF execute_proposal
<1>5. /\ decisions' \in [DOMAIN decisions' -> Decision]
      /\ DOMAIN decisions' \subseteq proposals'
  <2>1. allowed \in BOOLEAN
    BY DEF evaluate
  <2>2. [allowed |-> allowed, at |-> now] \in Decision
    BY <2>1 DEF Decision
  <2>3. decisions' = Put(decisions, p, [allowed |-> allowed, at |-> now])
    BY DEF execute_proposal
  <2>4. decisions' \in [DOMAIN decisions \cup {p} -> Decision]
    BY <2>2, <2>3, PutType DEF TypeOK
  <2> QED
    BY <1>4, <2>4 DEF TypeOK
<1>6. CASE decision_unlogged(p.engagement, recent)
  BY <1>1, <1>2, <1>4, <1>5, <1>6 DEF TypeOK, Call, decision_unlogged
<1>7. CASE denied(p, now, recent)
  <2>1. /\ audit' \in Seq(Event)
        /\ DOMAIN audit \subseteq DOMAIN audit'
    BY <1>3, <1>7 DEF denied, TypeOK, EventTypes
  <2> QED
    BY <1>1, <1>2, <1>4, <1>5, <1>7, <2>1 DEF TypeOK, Call, denied
<1>8. CASE simulated(p, now, recent)
  <2> DEFINE events == <<event(now, "policy.allowed", p.engagement, p),
                         event(now, "simulation.completed", p.engagement, p)>>
  <2>1. events \in Seq(Event)
    BY <1>3 DEF EventTypes
  <2>2. audit' = audit \o events
    BY <1>8 DEF simulated
  <2> HIDE DEF events
  <2>3. /\ audit' \in Seq(Event)
        /\ DOMAIN audit \subseteq DOMAIN audit'
    BY <2>1, <2>2 DEF TypeOK
  <2>4. /\ receipts' \in [DOMAIN receipts' -> Receipt]
        /\ DOMAIN receipts' \subseteq proposals'
    <3>1. [status |-> "simulated", at |-> now] \in Receipt
      BY DEF Receipt
    <3>2. receipts' \in [DOMAIN receipts \cup {p} -> Receipt]
      BY <1>8, <3>1, PutType DEF simulated, TypeOK
    <3> QED
      BY <1>4, <3>2 DEF TypeOK
  <2> QED
    BY <1>1, <1>2, <1>4, <1>5, <1>8, <2>3, <2>4 DEF TypeOK, Call, simulated
<1>9. CASE admitted(c, p, now, recent)
  <2>1. /\ audit' \in Seq(Event)
        /\ DOMAIN audit \subseteq DOMAIN audit'
        /\ Len(audit) + 1 \in DOMAIN audit'
    BY <1>3, <1>9 DEF admitted, TypeOK, EventTypes
  <2>2. [phase |-> "admitted", proposal |-> p, at |-> now] \in Call
    BY <1>1 DEF Call
  <2> QED
    BY <1>1, <1>2, <1>4, <1>5, <1>9, <2>1, <2>2 DEF TypeOK, Call, admitted
<1> QED
  BY <1>6, <1>7, <1>8, <1>9 DEF execute_proposal

\* A step that adds no proposal's permission keeps the calls in flight typed.
LEMMA CallsType ==
    ASSUME calls \in [Sessions -> Call], proposals \subseteq proposals', UNCHANGED calls
    PROVE  calls' \in [Sessions -> Call']
  BY DEF Call

\* So does the progress and the end of a controlled execution.
LEMMA FinishType ==
    ASSUME TypeOK, NEW c \in Sessions, Finish(c)
    PROVE  TypeOK'
<1> USE GovernanceAssumptions
<1>1. calls[c] \in Call /\ calls[c] # Idle
  BY DEF TypeOK, Finish, cancel_before_connection, connect, probe_failure, response, Idle
<1>2. /\ calls[c].proposal \in proposals
      /\ calls[c].proposal \in Subject
      /\ calls[c].proposal.engagement \in Engagements
      /\ calls[c].at \in Times
      /\ calls[c].at \in Nat
  BY <1>1 DEF Call, TypeOK, Proposal, Subject
<1>3. CASE connect(c)
  <2>1. [calls[c] EXCEPT !.phase = "connected"] \in Call
    BY <1>1 DEF Call
  <2>2. calls' = [calls EXCEPT ![c] = [calls[c] EXCEPT !.phase = "connected"]]
    BY <1>3 DEF connect
  <2>3. calls' \in [Sessions -> Call]
    BY <2>1, <2>2 DEF TypeOK
  <2> QED
    BY <1>3, <2>3 DEF TypeOK, connect, Call
<1>4. ASSUME NEW outcome \in {"validated", "failed", "cancelled"}, complete(c, outcome)
      PROVE  TypeOK'
  <2> DEFINE done == event(calls[c].at, CompletionType(outcome),
                           calls[c].proposal.engagement, calls[c].proposal)
  <2>1. CompletionType(outcome) \in EventTypes
    BY DEF CompletionType, EventTypes
  <2>2. done \in Event
    BY <1>2, <2>1, EventType
  <2>3. append(calls[c].at, <<done>>)
    BY <1>4 DEF complete
  <2> HIDE DEF done
  <2>4. audit' \in Seq(Event) /\ DOMAIN audit \subseteq DOMAIN audit'
    <3>1. <<done>> \in Seq(Event)
      BY <2>2
    <3> QED
      BY <2>3, <3>1, AppendType DEF TypeOK
  <2>5. [status |-> outcome, at |-> calls[c].at] \in Receipt
    BY <1>2 DEF Receipt
  <2>6. /\ receipts' \in [DOMAIN receipts' -> Receipt]
        /\ DOMAIN receipts' \subseteq proposals
    <3>1. receipts' \in [DOMAIN receipts \cup {calls[c].proposal} -> Receipt]
      BY <1>4, <2>5, PutType DEF complete, TypeOK
    <3> QED
      BY <1>2, <3>1 DEF TypeOK
  <2>7. calls' \in [Sessions -> Call]
    BY <1>4 DEF complete, TypeOK, Call
  <2> QED
    BY <1>4, <2>4, <2>6, <2>7 DEF TypeOK, complete, Call
<1> QED
  BY <1>3, <1>4 DEF Finish, cancel_before_connection, probe_failure, response

\* In every run, every dictionary of the service holds what its annotation says.
THEOREM TypeCorrect == Spec => []TypeOK
<1> USE GovernanceAssumptions
<1>1. Init => TypeOK
  BY DEF Init, TypeOK, Statuses, Call
<1>2. TypeOK /\ [Next]_vars => TypeOK'
  <2> SUFFICES ASSUME TypeOK, [Next]_vars PROVE TypeOK'
    OBVIOUS
  <2>1. CASE Execute
    BY <2>1, ExecuteType DEF Execute
  <2>2. CASE UNCHANGED vars
    BY <2>2 DEF vars, TypeOK, Call
  <2> QED
    BY <2>1, <2>2, LifecycleType, ApproveType, IngestType, FinishType DEF Next
<1> QED
  BY <1>1, <1>2, PTL DEF Spec
-----------------------------------------------------------------------------
(* Votes and stops *)

\* Only record_approval touches the approvals, and it only adds.
LEMMA VotesStep ==
    ASSUME [Next]_vars
    PROVE  Approve \/ UNCHANGED approvals
  BY DEF Next, vars, Lifecycle, register_engagement, submit_engagement,
         activate_engagement, pause_engagement, Ingest, ingest_plan, Execute,
         execute_proposal, Finish, cancel_before_connection, connect, probe_failure,
         response, complete

\* No actor ever has two votes for one subject and role that are valid at the
\* same time: record_approval refuses the second, in whatever order they come.
THEOREM OneVoice == Spec => []OneVoicePerRole
<1> USE GovernanceAssumptions
<1>1. Init => OneVoicePerRole
  BY DEF Init, OneVoicePerRole
<1>2. TypeOK /\ OneVoicePerRole /\ [Next]_vars => OneVoicePerRole'
  <2> SUFFICES ASSUME TypeOK, OneVoicePerRole, [Next]_vars PROVE OneVoicePerRole'
    OBVIOUS
  <2>1. CASE UNCHANGED approvals
    BY <2>1 DEF OneVoicePerRole
  <2>2. CASE Approve
    <3>1. PICK ballot \in Ballots : \E subject \in approvable(ballot.subject_kind) :
              record_approval(subject, ballot)
      BY <2>2 DEF Approve
    <3>2. PICK subject \in approvable(ballot.subject_kind) : record_approval(subject, ballot)
      BY <3>1
    <3> DEFINE new == [subject |-> subject, ballot |-> ballot]
    <3>3. approvals' = approvals \cup {new}
      BY <3>2 DEF record_approval
    <3>4. \A a \in approvals :
              /\ a.subject = subject
              /\ a.ballot.actor = ballot.actor
              /\ a.ballot.role = ballot.role
              => ~(a.ballot.expires_at > ballot.decided_at)
      BY <3>2 DEF record_approval, duplicate
    <3>5. /\ ballot \in Ballot
          /\ \A a \in approvals : a.ballot \in Ballot
      BY DEF TypeOK, Approval
    <3>6. \A a \in approvals :
              /\ a.subject = subject
              /\ a.ballot.actor = ballot.actor
              /\ a.ballot.role = ballot.role
              => a.ballot.expires_at <= ballot.decided_at
      BY <3>4, <3>5 DEF Ballot
    <3> QED
      BY <3>3, <3>6 DEF OneVoicePerRole
  <2> QED
    BY <2>1, <2>2, VotesStep
<1> QED
  BY <1>1, <1>2, TypeCorrect, PTL DEF Spec

\* What keeps a stop final: a stopped engagement is paused.
StoppedIsPaused == \A e \in emergency_stops : status[e] = "paused"

LEMMA StopStep ==
    ASSUME TypeOK, StoppedIsPaused, [Next]_vars
    PROVE  /\ StoppedIsPaused'
           /\ \A e \in emergency_stops : e \in emergency_stops' /\ status'[e] = "paused"
<1>1. CASE Lifecycle
  <2> PICK e \in Engagements, now \in Times :
          \/ register_engagement(e, now)
          \/ submit_engagement(e, now)
          \/ activate_engagement(e, now)
          \/ pause_engagement(e, now)
    BY <1>1 DEF Lifecycle
  <2>1. CASE pause_engagement(e, now)
    BY <2>1 DEF pause_engagement, StoppedIsPaused, TypeOK
  <2>2. CASE ~pause_engagement(e, now)
    <3>1. e \notin emergency_stops
      BY <2>2 DEF register_engagement, submit_engagement, activate_engagement,
                  StoppedIsPaused
    <3>2. /\ UNCHANGED emergency_stops
          /\ \A x \in Engagements : x # e => status'[x] = status[x]
      BY <2>2 DEF register_engagement, submit_engagement, activate_engagement, TypeOK
    <3> QED
      BY <3>1, <3>2 DEF StoppedIsPaused, TypeOK
  <2> QED
    BY <2>1, <2>2
<1>2. CASE ~Lifecycle
  <2>1. UNCHANGED <<status, emergency_stops>>
    BY <1>2 DEF Next, vars, Approve, record_approval, Ingest, ingest_plan, Execute,
                execute_proposal, Finish, cancel_before_connection, connect,
                probe_failure, response, complete
  <2> QED
    BY <2>1 DEF StoppedIsPaused
<1> QED
  BY <1>1, <1>2

\* An emergency stop is final: no operation lifts it or moves the engagement out
\* of the paused status, whatever times its callers supply.
THEOREM StopFinal == Spec => StopIsFinal
<1>1. Init => StoppedIsPaused
  BY DEF Init, StoppedIsPaused
<1>2. TypeOK /\ StoppedIsPaused /\ [Next]_vars => StoppedIsPaused'
  BY StopStep
<1>3. TypeOK /\ StoppedIsPaused /\ [Next]_vars =>
          [\A e \in emergency_stops : e \in emergency_stops' /\ status'[e] = "paused"]_vars
  BY StopStep
<1> QED
  BY <1>1, <1>2, <1>3, TypeCorrect, PTL DEF Spec, StopIsFinal
-----------------------------------------------------------------------------
(* The request-rate ceiling *)

\* What makes the ceiling inductive: the chain is chronological, and a controlled
\* request that the list of times no longer holds is a minute older than the end
\* of the chain, so it cannot fall into the window of a request still to come.
ChainChronological == \A i, j \in DOMAIN audit : i <= j => audit[i].at <= audit[j].at

ForgottenIsOld ==
    \A i \in DOMAIN audit :
        ControlledAt(i) /\ i \notin request_times[audit[i].engagement]
            => audit[i].at + Minute <= audit[Len(audit)].at

RateInv == ChainChronological /\ ForgottenIsOld /\ RateCeiling

\* What concatenation does to the positions of a sequence.
LEMMA ConcatPositions ==
    ASSUME NEW S, NEW s \in Seq(S), NEW t \in Seq(S)
    PROVE  /\ s \o t \in Seq(S)
           /\ Len(s \o t) = Len(s) + Len(t)
           /\ DOMAIN s \subseteq DOMAIN (s \o t)
           /\ \A i \in DOMAIN s : (s \o t)[i] = s[i]
           /\ \A i \in DOMAIN (s \o t) \ DOMAIN s :
                 i - Len(s) \in DOMAIN t /\ (s \o t)[i] = t[i - Len(s)]
<1>1. s \o t \in Seq(S) /\ Len(s \o t) = Len(s) + Len(t)
  OBVIOUS
<1>2. DOMAIN s = 1..Len(s) /\ DOMAIN t = 1..Len(t) /\ DOMAIN (s \o t) = 1..(Len(s) + Len(t))
  BY <1>1
<1>3. Len(s) \in Nat /\ Len(t) \in Nat
  OBVIOUS
<1>4. \A i \in 1..(Len(s) + Len(t)) :
          (s \o t)[i] = IF i <= Len(s) THEN s[i] ELSE t[i - Len(s)]
  OBVIOUS
<1> QED
  BY <1>1, <1>2, <1>3, <1>4

\* What an event of a chain is made of.
LEMMA EventFields ==
    ASSUME NEW chain \in Seq(Event), NEW i \in DOMAIN chain
    PROVE  /\ chain[i].at \in Nat
           /\ chain[i].engagement \in Engagements
           /\ chain[i].subject \in Subject
<1>1. chain[i] \in Event
  OBVIOUS
<1> QED
  BY <1>1 DEF Event

\* Window and meaning of an old event do not change when the chain grows.
LEMMA OldWindow ==
    ASSUME audit \in Seq(Event), NEW events \in Seq(Event), audit' = audit \o events,
           NEW j \in DOMAIN audit
    PROVE  /\ ControlledAt(j)' <=> ControlledAt(j)
           /\ MinuteBefore(j)' = MinuteBefore(j)
<1>1. \A i \in DOMAIN audit : i \in DOMAIN audit' /\ audit'[i] = audit[i]
  OBVIOUS
<1>2. 1..j \subseteq DOMAIN audit
  OBVIOUS
<1>3. \A i \in DOMAIN audit : ControlledAt(i)' <=> ControlledAt(i)
  BY <1>1 DEF ControlledAt, AllowedAt
<1> QED
  BY <1>1, <1>2, <1>3 DEF MinuteBefore

\* A step that admits no controlled request keeps the ceiling, when it forgets
\* only requests a minute older than the end of the chain it leaves.
LEMMA QuietStep ==
    ASSUME TypeOK, RateInv,
           NEW at \in Nat, NEW events \in Seq(Event), audit' = audit \o events,
           events = <<>> \/ chronological(at),
           \A k \in DOMAIN events :
              /\ events[k].at = at
              /\ events[k].type = "policy.allowed"
                    => events[k].subject.content \notin Controlled,
           \A e \in Engagements : \A i \in request_times[e] :
              \/ i \in request_times'[e]
              \/ audit[i].at + Minute <= audit'[Len(audit')].at
    PROVE  RateInv'
<1>0. Minute \in Nat
  BY GovernanceAssumptions
<1>1. /\ audit \in Seq(Event)
      /\ audit' \in Seq(Event)
      /\ \A i \in DOMAIN audit : audit'[i] = audit[i]
      /\ DOMAIN audit \subseteq DOMAIN audit'
      /\ \A i \in DOMAIN audit' \ DOMAIN audit :
            i - Len(audit) \in DOMAIN events /\ audit'[i] = events[i - Len(audit)]
      /\ Len(audit') = Len(audit) + Len(events)
      /\ Len(audit) \in Nat /\ Len(events) \in Nat
      /\ DOMAIN audit = 1..Len(audit) /\ DOMAIN audit' = 1..Len(audit')
  <2>1. audit \in Seq(Event)
    BY DEF TypeOK
  <2> QED
    BY <2>1, ConcatPositions
<1>2. \A i \in DOMAIN audit : audit[i].at \in Nat /\ audit[i].engagement \in Engagements
  BY <1>1, EventFields
<1>3. \A i \in DOMAIN audit' : i \notin DOMAIN audit =>
          audit'[i].at = at /\ ~ControlledAt(i)'
  BY <1>1 DEF ControlledAt, AllowedAt
<1>4. ChainChronological'
  <2>1. ASSUME NEW i \in DOMAIN audit, events # <<>>  PROVE audit[i].at <= at
    <3>1. audit[Len(audit)].at <= at /\ Len(audit) \in DOMAIN audit
      BY <1>1, <2>1 DEF chronological
    <3> QED
      BY <1>1, <1>2, <2>1, <3>1 DEF RateInv, ChainChronological
  <2> SUFFICES ASSUME NEW i \in DOMAIN audit', NEW j \in DOMAIN audit', i <= j
               PROVE  audit'[i].at <= audit'[j].at
    BY DEF ChainChronological
  <2>2. CASE i \in DOMAIN audit /\ j \in DOMAIN audit
    BY <1>1, <2>2 DEF RateInv, ChainChronological
  <2>3. CASE j \notin DOMAIN audit
    <3>1. events # <<>>
      BY <1>1, <2>3
    <3> QED
      BY <1>1, <1>3, <2>1, <2>3, <3>1
  <2> QED
    BY <1>1, <2>2, <2>3
<1>5. \A i \in DOMAIN audit : audit[i].at + Minute <= audit[Len(audit)].at
          => audit'[i].at + Minute <= audit'[Len(audit')].at
  <2> SUFFICES ASSUME NEW i \in DOMAIN audit,
                      audit[i].at + Minute <= audit[Len(audit)].at
               PROVE  audit'[i].at + Minute <= audit'[Len(audit')].at
    OBVIOUS
  <2>1. /\ Len(audit) \in DOMAIN audit'
        /\ Len(audit') \in DOMAIN audit'
        /\ Len(audit) <= Len(audit')
        /\ audit'[Len(audit)] = audit[Len(audit)]
    BY <1>1
  <2>2. audit[Len(audit)].at <= audit'[Len(audit')].at
    BY <1>4, <2>1 DEF ChainChronological
  <2>3. /\ audit[i].at \in Nat /\ audit'[i] = audit[i]
        /\ audit[Len(audit)].at \in Nat
        /\ audit'[Len(audit')].at \in Nat
    BY <1>1, <1>2, <2>1, EventFields
  <2> QED
    BY <1>0, <2>2, <2>3
<1>6. ForgottenIsOld'
  <2> SUFFICES ASSUME NEW i \in DOMAIN audit', ControlledAt(i)',
                      i \notin request_times'[audit'[i].engagement]
               PROVE  audit'[i].at + Minute <= audit'[Len(audit')].at
    BY DEF ForgottenIsOld
  <2>1. i \in DOMAIN audit /\ ControlledAt(i)
    BY <1>1, <1>3 DEF ControlledAt, AllowedAt
  <2> QED
    BY <1>1, <1>2, <1>5, <2>1 DEF RateInv, ForgottenIsOld
<1>7. RateCeiling'
  <2> SUFFICES ASSUME NEW j \in DOMAIN audit', ControlledAt(j)'
               PROVE  Cardinality(MinuteBefore(j)') <= Terms[audit'[j].engagement].max_requests
    BY DEF RateCeiling
  <2>1. j \in DOMAIN audit
    BY <1>3
  <2> QED
    BY <1>1, <2>1, OldWindow DEF RateInv, RateCeiling
<1> QED
  BY <1>4, <1>6, <1>7 DEF RateInv

\* Admitting a request when fewer than max_requests are remembered keeps the
\* ceiling: the window of the new request holds only remembered ones and itself.
LEMMA AdmitStep ==
    ASSUME TypeOK, RateInv, NEW c \in Sessions, NEW p \in proposals, NEW now \in Times,
           chronological(now),
           Cardinality(recent_requests(p.engagement, now))
               < Terms[p.engagement].max_requests,
           admitted(c, p, now, recent_requests(p.engagement, now))
    PROVE  RateInv'
<1> DEFINE e == p.engagement
           recent == recent_requests(e, now)
           new == event(now, "policy.allowed", e, p)
<1>1. /\ Minute \in Nat /\ now \in Nat /\ e \in Engagements /\ p \in Subject
      /\ Terms[e].max_requests \in Nat
  BY GovernanceAssumptions DEF Term, TypeOK, Proposal, Subject
<1>2. audit \in Seq(Event) /\ new \in Event
  BY <1>1, EventType DEF TypeOK, EventTypes
<1>j. PICK j \in Nat : j = Len(audit) + 1
  BY <1>2
<1>3. /\ audit' = Append(audit, new)
      /\ audit' \in Seq(Event)
      /\ Len(audit') = j
      /\ Len(audit) \in Nat
      /\ DOMAIN audit = 1..Len(audit)
      /\ DOMAIN audit' = 1..j
      /\ \A i \in DOMAIN audit : audit'[i] = audit[i]
      /\ audit'[j] = new
  BY <1>2, <1>j DEF admitted
<1>4. new.at = now /\ new.engagement = e /\ new.subject = p
  BY DEF event
<1>5. \A i \in DOMAIN audit : /\ audit[i].at \in Nat
                              /\ audit[i].engagement \in Engagements
                              /\ audit[i].at <= now
  <2> SUFFICES ASSUME NEW i \in DOMAIN audit PROVE audit[i].at <= now
    BY <1>2, EventFields
  <2>1. audit[Len(audit)].at <= now /\ Len(audit) \in DOMAIN audit
    BY <1>3 DEF chronological
  <2>2. audit[i].at <= audit[Len(audit)].at
    BY <1>3, <2>1 DEF RateInv, ChainChronological
  <2> QED
    BY <1>1, <1>2, <2>1, <2>2, EventFields
<1> HIDE DEF new
<1>6. \A i \in DOMAIN audit : ControlledAt(i)' <=> ControlledAt(i)
  BY <1>3 DEF ControlledAt, AllowedAt
<1>7. ChainChronological'
  <2> SUFFICES ASSUME NEW i \in 1..j, NEW k \in 1..j, i <= k
               PROVE  audit'[i].at <= audit'[k].at
    BY <1>3 DEF ChainChronological
  <2>1. CASE k = j
    BY <1>1, <1>3, <1>4, <1>5, <2>1
  <2>2. CASE k # j
    BY <1>3, <2>2 DEF RateInv, ChainChronological
  <2> QED
    BY <2>1, <2>2
<1>8. /\ \A x \in Engagements : x # e => request_times'[x] = request_times[x]
      /\ request_times'[e] = recent \cup {j}
  BY <1>1, <1>2, <1>j DEF admitted, TypeOK
<1>9. ASSUME NEW i \in DOMAIN audit, ControlledAt(i), audit[i].engagement = e,
             now < audit[i].at + Minute
      PROVE  i \in recent
  <2>1. audit[Len(audit)].at <= now /\ audit[Len(audit)].at \in Nat
    BY <1>3, <1>5
  <2>2. i \in request_times[e]
    BY <1>1, <1>5, <1>9, <2>1 DEF RateInv, ForgottenIsOld
  <2> QED
    BY <1>9, <2>2 DEF recent_requests
<1>10. ForgottenIsOld'
  <2> SUFFICES ASSUME NEW i \in 1..j, ControlledAt(i)',
                      i \notin request_times'[audit'[i].engagement]
               PROVE  audit'[i].at + Minute <= now
    BY <1>3, <1>4 DEF ForgottenIsOld
  <2>1. i \in DOMAIN audit
    BY <1>3, <1>4, <1>8
  <2>2. ControlledAt(i) /\ audit'[i] = audit[i]
    BY <1>3, <1>6, <2>1
  <2>3. CASE audit[i].engagement = e
    BY <1>1, <1>5, <1>8, <1>9, <2>1, <2>2, <2>3
  <2>4. CASE audit[i].engagement # e
    <3>1. i \notin request_times[audit[i].engagement]
      BY <1>5, <1>8, <2>1, <2>2, <2>4
    <3>2. audit[i].at + Minute <= audit[Len(audit)].at
      BY <2>1, <2>2, <3>1 DEF RateInv, ForgottenIsOld
    <3>3. Len(audit) \in DOMAIN audit
      BY <1>3, <2>1
    <3> QED
      BY <1>1, <1>5, <2>1, <2>2, <3>2, <3>3
  <2> QED
    BY <2>3, <2>4
<1>11. MinuteBefore(j)' \subseteq recent \cup {j}
  <2> SUFFICES ASSUME NEW i \in 1..j, ControlledAt(i)',
                      audit'[i].engagement = audit'[j].engagement,
                      audit'[j].at < audit'[i].at + Minute, i # j
               PROVE  i \in recent
    BY DEF MinuteBefore
  <2>1. i \in DOMAIN audit /\ audit'[i] = audit[i]
    BY <1>3
  <2> QED
    BY <1>3, <1>4, <1>6, <1>9, <2>1
<1>12. Cardinality(MinuteBefore(j)') <= Terms[e].max_requests
  <2>1. IsFiniteSet(recent) /\ Cardinality(recent) \in Nat
    <3>1. recent \subseteq 1..Len(audit)
      BY <1>1, <1>3 DEF recent_requests, TypeOK
    <3>2. IsFiniteSet(1..Len(audit))
      BY <1>3, FS_Interval
    <3> QED
      BY <3>1, <3>2, FS_Subset, FS_CardinalityType
  <2>2. j \notin recent
    BY <1>1, <1>3 DEF recent_requests, TypeOK
  <2>3. /\ IsFiniteSet(recent \cup {j})
        /\ Cardinality(recent \cup {j}) = Cardinality(recent) + 1
    BY <2>1, <2>2, FS_AddElement
  <2>4. /\ Cardinality(MinuteBefore(j)') <= Cardinality(recent \cup {j})
        /\ Cardinality(MinuteBefore(j)') \in Nat
    BY <1>11, <2>3, FS_Subset, FS_CardinalityType
  <2> QED
    BY <1>1, <2>1, <2>3, <2>4
<1>13. RateCeiling'
  <2> SUFFICES ASSUME NEW k \in 1..j, ControlledAt(k)'
               PROVE  Cardinality(MinuteBefore(k)') <= Terms[audit'[k].engagement].max_requests
    BY <1>3 DEF RateCeiling
  <2>1. CASE k = j
    BY <1>3, <1>4, <1>12, <2>1
  <2>2. CASE k # j
    <3>1. k \in DOMAIN audit /\ <<new>> \in Seq(Event) /\ audit' = audit \o <<new>>
      BY <1>2, <1>3, <2>2
    <3>2. MinuteBefore(k)' = MinuteBefore(k)
      BY <1>2, <3>1, OldWindow
    <3> QED
      BY <1>3, <1>6, <3>1, <3>2 DEF RateInv, RateCeiling
  <2> QED
    BY <2>1, <2>2
<1> QED
  BY <1>7, <1>10, <1>13 DEF RateInv

\* An operation that only records, whether or not the chain takes its events,
\* keeps the ceiling.
LEMMA RecordStep ==
    ASSUME TypeOK, RateInv, UNCHANGED request_times,
           NEW at \in Nat, NEW events \in Seq(Event), append(at, events),
           \A k \in DOMAIN events :
              events[k].at = at /\ events[k].type # "policy.allowed"
    PROVE  RateInv'
<1>1. CASE chronological(at)
  <2>1. audit' = audit \o events
    BY <1>1 DEF append
  <2> QED
    BY <1>1, <2>1, QuietStep
<1>2. CASE ~chronological(at)
  <2>1. UNCHANGED <<audit, request_times>>
    BY <1>2 DEF append
  <2> QED
    BY <2>1 DEF RateInv, ChainChronological, ForgottenIsOld, RateCeiling,
                MinuteBefore, ControlledAt, AllowedAt
<1> QED
  BY <1>1, <1>2

\* The same for the operations that append a single event.
LEMMA RecordOneStep ==
    ASSUME TypeOK, RateInv, UNCHANGED request_times,
           NEW at \in Nat, NEW e \in Engagements, NEW subject \in Subject,
           NEW type \in EventTypes, type # "policy.allowed",
           append(at, <<event(at, type, e, subject)>>)
    PROVE  RateInv'
<1>1. PICK done \in Event : done = event(at, type, e, subject)
  BY EventType
<1>2. done.at = at /\ done.type = type
  BY <1>1 DEF event
<1>3. PICK events \in Seq(Event) : events = <<done>>
  <2>1. <<done>> \in Seq(Event)
    OBVIOUS
  <2> QED
    BY <2>1, Zenon
<1>4. \A k \in DOMAIN events : events[k].at = at /\ events[k].type # "policy.allowed"
  BY <1>2, <1>3
<1>5. append(at, events)
  BY <1>1, <1>3
<1> QED
  BY <1>4, <1>5, RecordStep

\* The engagement's own operations.
LEMMA LifecycleRate ==
    ASSUME TypeOK, RateInv, Lifecycle
    PROVE  RateInv'
<1> PICK e \in Engagements, now \in Times :
          \/ register_engagement(e, now)
          \/ submit_engagement(e, now)
          \/ activate_engagement(e, now)
          \/ pause_engagement(e, now)
  BY DEF Lifecycle
<1>1. e \in Subject /\ now \in Nat
  BY GovernanceAssumptions DEF Subject
<1>2. PICK type \in EventTypes : /\ append(now, <<event(now, type, e, e)>>)
                                 /\ type # "policy.allowed"
  BY DEF EventTypes, register_engagement, submit_engagement, activate_engagement,
         pause_engagement
<1>3. UNCHANGED request_times
  BY DEF register_engagement, submit_engagement, activate_engagement,
         pause_engagement, executionState
<1> QED
  BY <1>1, <1>2, <1>3, RecordOneStep

\* Approvals.
LEMMA ApproveRate ==
    ASSUME TypeOK, RateInv, Approve
    PROVE  RateInv'
<1> PICK ballot \in Ballots : \E subject \in approvable(ballot.subject_kind) :
          record_approval(subject, ballot)
  BY DEF Approve
<1> PICK subject \in approvable(ballot.subject_kind) : record_approval(subject, ballot)
  OBVIOUS
<1> DEFINE e == engagement_of(ballot.subject_kind, subject)
<1>1. ballot \in Ballot
  BY GovernanceAssumptions
<1>2. ballot.decided_at \in Nat
  BY <1>1 DEF Ballot
<1>3. subject \in Subject /\ e \in Engagements
  BY <1>1 DEF Ballot, approvable, Subject, Proposal, engagement_of, TypeOK
<1>4. PICK type \in {"engagement.approval_recorded", "proposal.approval_recorded"} :
          append(ballot.decided_at, <<event(ballot.decided_at, type, e, subject)>>)
  BY DEF record_approval, approval_event
<1>5. type \in EventTypes /\ type # "policy.allowed"
  BY DEF EventTypes
<1>6. UNCHANGED request_times
  BY DEF record_approval, executionState
<1> HIDE DEF e
<1> QED
  BY <1>2, <1>3, <1>4, <1>5, <1>6, RecordOneStep

\* Plans.
LEMMA IngestRate ==
    ASSUME TypeOK, RateInv, Ingest
    PROVE  RateInv'
<1> PICK e \in Engagements, plan \in Plans, by \in Planners, now \in Times :
          ingest_plan(e, plan, by, now)
  BY DEF Ingest
<1> DEFINE item(i) == proposalOf(e, plan[i], by, now)
           imported(n) == [i \in 1..n |-> event(now, "proposal.imported", e, item(i))]
<1>1. PICK n \in 0..Len(plan) : append(now, imported(n))
  BY DEF ingest_plan
<1>2. now \in Nat /\ plan \in Seq(Contents) /\ by \in Actors
  BY GovernanceAssumptions
<1>3. ASSUME NEW i \in 1..n
      PROVE  event(now, "proposal.imported", e, item(i)) \in Event
  <2>1. i \in DOMAIN plan
    BY <1>2
  <2>2. item(i) \in Subject
    BY <1>2, <2>1 DEF proposalOf, Proposal, Subject
  <2> QED
    BY <1>2, <2>2, EventType DEF EventTypes
<1>4. imported(n) \in Seq(Event) /\ DOMAIN imported(n) = 1..n
  BY <1>2, <1>3
<1>5. \A k \in 1..n : /\ imported(n)[k].at = now
                      /\ imported(n)[k].type # "policy.allowed"
  BY DEF event
<1>6. UNCHANGED request_times
  BY DEF ingest_plan, executionState
<1> HIDE DEF imported
<1> QED
  BY <1>1, <1>2, <1>4, <1>5, <1>6, RecordStep

\* The end of a controlled call.
LEMMA FinishRate ==
    ASSUME TypeOK, RateInv, NEW c \in Sessions, Finish(c)
    PROVE  RateInv'
<1>1. CASE connect(c)
  BY <1>1 DEF connect, RateInv, ChainChronological, ForgottenIsOld, RateCeiling,
              MinuteBefore, ControlledAt, AllowedAt
<1>2. CASE ~connect(c)
  <2>1. /\ calls[c].phase # "idle"
        /\ \E outcome \in {"failed", "cancelled", "validated"} : complete(c, outcome)
    BY <1>2 DEF Finish, cancel_before_connection, probe_failure, response
  <2> PICK outcome \in {"failed", "cancelled", "validated"} : complete(c, outcome)
    BY <2>1
  <2> DEFINE p == calls[c].proposal
             at == calls[c].at
  <2>2. p \in proposals /\ at \in Times
    BY <2>1 DEF TypeOK, Call, Idle
  <2>3. at \in Nat /\ p \in Subject /\ p.engagement \in Engagements
    BY <2>2, GovernanceAssumptions DEF TypeOK, Subject, Proposal
  <2>4. CompletionType(outcome) \in EventTypes /\ CompletionType(outcome) # "policy.allowed"
    BY DEF CompletionType, EventTypes
  <2>5. /\ append(at, <<event(at, CompletionType(outcome), p.engagement, p)>>)
        /\ UNCHANGED request_times
    BY DEF complete
  <2> HIDE DEF p, at
  <2> QED
    BY <2>3, <2>4, <2>5, RecordOneStep
<1> QED
  BY <1>1, <1>2

\* Executions: only admitted counts a request; the others may forget some.
LEMMA ExecuteRate ==
    ASSUME TypeOK, RateInv, NEW c \in Sessions, NEW p \in proposals, NEW now \in Times,
           execute_proposal(c, p, now)
    PROVE  RateInv'
<1> DEFINE e == p.engagement
           recent == recent_requests(e, now)
           allowing == event(now, "policy.allowed", e, p)
           denying == event(now, "policy.denied", e, p)
           simulating == event(now, "simulation.completed", e, p)
<1>1. /\ now \in Nat /\ Minute \in Nat /\ e \in Engagements /\ p \in Subject
      /\ audit \in Seq(Event) /\ Len(audit) \in Nat
  BY GovernanceAssumptions DEF TypeOK, Subject, Proposal
<1>2. /\ allowing \in Event /\ denying \in Event /\ simulating \in Event
  BY <1>1, EventType DEF EventTypes
<1>3. /\ allowing.at = now /\ denying.at = now /\ simulating.at = now
      /\ allowing.subject = p
      /\ denying.type # "policy.allowed" /\ simulating.type # "policy.allowed"
  BY DEF event
<1>4. ASSUME NEW x \in Engagements, NEW i \in request_times[x],
             request_times' = [request_times EXCEPT ![e] = recent],
             i \notin request_times'[x]
      PROVE  audit[i].at + Minute <= now /\ audit[i].at \in Nat
  <2>1. request_times \in [Engagements -> SUBSET DOMAIN audit]
    BY DEF TypeOK
  <2>2. i \in DOMAIN audit
    BY <2>1
  <2>3. x = e /\ i \notin recent
    BY <1>1, <1>4, <2>1
  <2>4. audit[i].at \in Nat
    BY <1>1, <2>2, EventFields
  <2> QED
    BY <1>1, <2>3, <2>4 DEF recent_requests
<1>5. CASE ~chronological(now) /\ decision_unlogged(e, recent)
  <2>1. audit' = audit /\ request_times' = [request_times EXCEPT ![e] = recent]
    BY <1>5 DEF decision_unlogged
  <2>2. Len(audit) \in DOMAIN audit /\ ~(audit[Len(audit)].at <= now)
    BY <1>1, <1>5 DEF chronological
  <2>3. audit[Len(audit)].at \in Nat
    BY <1>1, <2>2, EventFields
  <2>4. \A x \in Engagements : \A i \in request_times[x] :
          \/ i \in request_times'[x]
          \/ audit[i].at + Minute <= audit'[Len(audit')].at
    BY <1>1, <1>4, <2>1, <2>2, <2>3
  <2>5. PICK none \in Seq(Event) : none = <<>> /\ DOMAIN none = {}
    <3>1. <<>> \in Seq(Event) /\ DOMAIN <<>> = {}
      OBVIOUS
    <3> QED
      BY <3>1, Zenon
  <2>6. audit' = audit \o none
    BY <1>1, <2>1, <2>5
  <2> QED
    BY <1>1, <2>4, <2>5, <2>6, QuietStep
<1>6. ASSUME chronological(now), NEW events \in Seq(Event), audit' = audit \o events,
             request_times' = [request_times EXCEPT ![e] = recent],
             events # <<>>, events[Len(events)].at = now,
             \A k \in DOMAIN events :
                /\ events[k].at = now
                /\ events[k].type = "policy.allowed"
                      => events[k].subject.content \notin Controlled
      PROVE  RateInv'
  <2>1. audit'[Len(audit')] = events[Len(events)]
    BY <1>1, <1>6
  <2>2. \A x \in Engagements : \A i \in request_times[x] :
          \/ i \in request_times'[x]
          \/ audit[i].at + Minute <= audit'[Len(audit')].at
    BY <1>4, <1>6, <2>1
  <2> QED
    BY <1>1, <1>6, <2>2, QuietStep
<1> HIDE DEF allowing, denying, simulating
<1>7. CASE chronological(now) /\ denied(p, now, recent)
  <2> DEFINE events == <<denying>>
  <2>1. audit' = audit \o events
    BY <1>1, <1>2, <1>7 DEF denied, denying
  <2>2. request_times' = [request_times EXCEPT ![e] = recent]
    BY <1>7 DEF denied
  <2>3. /\ events \in Seq(Event) /\ Len(events) = 1 /\ DOMAIN events = {1}
        /\ events[1] = denying /\ events # <<>>
    BY <1>2
  <2> HIDE DEF events
  <2> QED
    BY <1>3, <1>6, <1>7, <2>1, <2>2, <2>3
<1>8. CASE chronological(now) /\ p.content \notin Controlled /\ simulated(p, now, recent)
  <2> DEFINE events == <<allowing, simulating>>
  <2>1. audit' = audit \o events
    BY <1>8 DEF simulated, allowing, simulating
  <2>2. request_times' = [request_times EXCEPT ![e] = recent]
    BY <1>8 DEF simulated
  <2>3. /\ events \in Seq(Event) /\ Len(events) = 2 /\ DOMAIN events = {1, 2}
        /\ events[1] = allowing /\ events[2] = simulating /\ events # <<>>
    BY <1>2
  <2> HIDE DEF events
  <2> QED
    BY <1>3, <1>6, <1>8, <2>1, <2>2, <2>3
<1>9. CASE /\ chronological(now) /\ evaluate(p, now, Cardinality(recent))
           /\ p.content \in Controlled /\ admitted(c, p, now, recent)
  <2>1. Cardinality(recent) < Terms[e].max_requests
    BY <1>9 DEF evaluate
  <2> QED
    BY <1>9, <2>1, AdmitStep
<1> QED
  BY <1>5, <1>7, <1>8, <1>9 DEF execute_proposal

\* In any minute that ends with a controlled request, an engagement makes at
\* most max_requests of them, whatever timestamps the callers supply.
THEOREM Ceiling == Spec => []RateCeiling
<1>1. Init => RateInv
  BY DEF Init, RateInv, ChainChronological, ForgottenIsOld, RateCeiling
<1>2. TypeOK /\ RateInv /\ [Next]_vars => RateInv'
  <2> SUFFICES ASSUME TypeOK, RateInv, [Next]_vars PROVE RateInv'
    OBVIOUS
  <2>1. CASE Execute
    BY <2>1, ExecuteRate DEF Execute
  <2>2. CASE \E c \in Sessions : Finish(c)
    BY <2>2, FinishRate
  <2>3. CASE UNCHANGED vars
    BY <2>3 DEF vars, RateInv, ChainChronological, ForgottenIsOld, RateCeiling,
                MinuteBefore, ControlledAt, AllowedAt
  <2> QED
    BY <2>1, <2>2, <2>3, LifecycleRate, ApproveRate, IngestRate DEF Next
<1>3. RateInv => RateCeiling
  BY DEF RateInv
<1> QED
  BY <1>1, <1>2, <1>3, TypeCorrect, PTL DEF Spec

-----------------------------------------------------------------------------
(* Dual control *)

\* Two required roles: counting approvers as quorum does is enough to name a
\* different person for each role.
LEMMA TwoRoles ==
    ASSUME TypeOK, NEW subject, NEW barred, NEW ttl \in Nat, NEW now \in Nat,
           NEW r1 \in Roles, NEW r2 \in Roles, r1 # r2,
           quorum(subject, {r1, r2}, barred, ttl, now)
    PROVE  PersonPerRole(subject, {r1, r2}, barred, ttl, now)
<1> DEFINE current == current_approvals(subject, now)
           voters == approvers(current, {r1, r2})
           voted(person, r) == \E a \in current : /\ a.ballot.decision = "approved"
                                                  /\ a.ballot.role = r
                                                  /\ a.ballot.actor = person
<1>1. ASSUME NEW a \in current, a.ballot.decision = "approved"
      PROVE  a \in approvals /\ speaks(a, subject, ttl, now)
  <2>1. a \in approvals /\ a.subject = subject /\ a.ballot \in Ballot
    BY DEF current_approvals, TypeOK, Approval
  <2>2. a.ballot.decided_at \in Nat /\ a.ballot.expires_at \in Nat
    BY <2>1 DEF Ballot
  <2>3. a.ballot.decided_at <= now /\ now < a.ballot.expires_at
    BY DEF current_approvals
  <2>4. a.ballot.expires_at <= a.ballot.decided_at + ttl
    BY DEF quorum
  <2> QED
    BY <1>1, <2>1, <2>2, <2>3, <2>4 DEF speaks
<1>2. \A y \in voters : y \in Actors \ {barred} /\ (voted(y, r1) \/ voted(y, r2))
  <2>1. ASSUME NEW a \in current PROVE a.ballot.actor \in Actors
    BY DEF current_approvals, TypeOK, Approval, Ballot
  <2>2. barred \notin voters
    BY DEF quorum
  <2> QED
    BY <2>1, <2>2 DEF approvers
<1>3. \E x : voted(x, r1)
  BY DEF quorum, granted_roles
<1>4. \E x : voted(x, r2)
  BY DEF quorum, granted_roles
<1>5. \A x : voted(x, r1) \/ voted(x, r2) => x \in voters
  BY DEF approvers
<1>6. \A x : voters # {x}
  <2> SUFFICES ASSUME NEW x, voters = {x} PROVE FALSE
    OBVIOUS
  <2>1. Cardinality(voters) = 1
    BY FS_Singleton
  <2>2. IsFiniteSet({r1}) /\ Cardinality({r1}) = 1
    BY FS_Singleton
  <2>3. Cardinality({r1} \cup {r2}) = 2
    BY <2>2, FS_AddElement
  <2>4. {r1} \cup {r2} = {r1, r2}
    OBVIOUS
  <2>5. Cardinality(voters) >= Cardinality({r1, r2})
    BY DEF quorum
  <2> QED
    BY <2>1, <2>3, <2>4, <2>5
<1> HIDE DEF voters
<1>7. PICK x, y : x # y /\ voted(x, r1) /\ voted(y, r2)
  <2> PICK x : voted(x, r1)
    BY <1>3
  <2> PICK y : voted(y, r2)
    BY <1>4
  <2>1. CASE x # y
    BY <2>1
  <2>2. CASE x = y
    <3> HIDE DEF voted
    <3>1. PICK z \in voters : z # x
      BY <1>5, <1>6
    <3> QED
      BY <1>2, <2>2, <3>1
  <2> QED
    BY <2>1, <2>2
<1>8. x \in Actors \ {barred} /\ y \in Actors \ {barred}
  <2> HIDE DEF voted
  <2> QED
    BY <1>2, <1>5, <1>7
<1> DEFINE person == [r \in {r1, r2} |-> IF r = r1 THEN x ELSE y]
<1>9. /\ person \in [{r1, r2} -> Actors \ {barred}]
      /\ person[r1] = x /\ person[r2] = y
  BY <1>8
<1> HIDE DEF person
<1>10. \A r \in {r1, r2} : \E a \in approvals :
          speaks(a, subject, ttl, now) /\ a.ballot.role = r /\ a.ballot.actor = person[r]
  BY <1>1, <1>7, <1>9
<1>11. \A r, q \in {r1, r2} : person[r] = person[q] => r = q
  BY <1>7, <1>9
<1> QED
  BY <1>9, <1>10, <1>11 DEF PersonPerRole

\* Approvals are never withdrawn, so what they prove stays proved.
LEMMA PersonMonotone ==
    ASSUME NEW subject, NEW required, NEW barred, NEW ttl, NEW now,
           approvals \subseteq approvals',
           PersonPerRole(subject, required, barred, ttl, now)
    PROVE  PersonPerRole(subject, required, barred, ttl, now)'
  BY DEF PersonPerRole, speaks

LEMMA ApprovalsGrow ==
    ASSUME [Next]_vars
    PROVE  approvals \subseteq approvals'
  BY VotesStep DEF Approve, record_approval

\* An engagement only becomes active through activate_engagement.
LEMMA ActiveStep ==
    ASSUME TypeOK, [Next]_vars, NEW e \in Engagements, status'[e] = "approved"
    PROVE  status[e] = "approved" \/ \E now \in Times : activate_engagement(e, now)
<1>1. CASE Lifecycle
  <2> PICK x \in Engagements, now \in Times :
          \/ register_engagement(x, now)
          \/ submit_engagement(x, now)
          \/ activate_engagement(x, now)
          \/ pause_engagement(x, now)
    BY <1>1 DEF Lifecycle
  <2>1. CASE activate_engagement(x, now)
    BY <2>1 DEF activate_engagement, TypeOK
  <2>2. CASE ~activate_engagement(x, now)
    BY <2>2 DEF TypeOK, register_engagement, submit_engagement, pause_engagement
  <2> QED
    BY <2>1, <2>2
<1>2. CASE ~Lifecycle
  BY <1>2 DEF Next, vars, Approve, record_approval, Ingest, ingest_plan, Execute,
              execute_proposal, Finish, cancel_before_connection, connect,
              probe_failure, response, complete
<1> QED
  BY <1>1, <1>2

\* An engagement is only ever active when a business owner and another person of
\* the control team, neither of them the requester, had both approved it.
THEOREM ActivationByTwo == Spec => []ActivationDualControl
<1>1. Init => ActivationDualControl
  BY DEF Init, ActivationDualControl
<1>2. TypeOK /\ ActivationDualControl /\ [Next]_vars => ActivationDualControl'
  <2> SUFFICES ASSUME TypeOK, ActivationDualControl, [Next]_vars,
                      NEW e \in Engagements, status'[e] = "approved"
               PROVE  \E now \in Times :
                        PersonPerRole(e, {"business_owner", "control_team"},
                                      Terms[e].requester, Terms[e].ttl, now)'
    BY DEF ActivationDualControl
  <2>1. PICK now \in Times : PersonPerRole(e, {"business_owner", "control_team"},
                                           Terms[e].requester, Terms[e].ttl, now)
    <3>1. CASE status[e] = "approved"
      BY <3>1 DEF ActivationDualControl
    <3>2. CASE \E now \in Times : activate_engagement(e, now)
      <4> PICK now \in Times : activate_engagement(e, now)
        BY <3>2
      <4>1. now \in Nat /\ Terms[e].ttl \in Nat
        BY GovernanceAssumptions DEF Term
      <4>2. quorum(e, {"business_owner", "control_team"}, Terms[e].requester,
                   Terms[e].ttl, now)
        BY DEF activate_engagement, engagement_approval_ready, engagement_roles
      <4> QED
        BY <4>1, <4>2, TwoRoles DEF Roles
    <3> QED
      BY <3>1, <3>2, ActiveStep
  <2> DEFINE barred == Terms[e].requester
             ttl == Terms[e].ttl
  <2>2. PersonPerRole(e, {"business_owner", "control_team"}, barred, ttl, now)'
    BY <2>1, ApprovalsGrow, PersonMonotone
  <2> QED
    BY <2>2
<1> QED
  BY <1>1, <1>2, TypeCorrect, PTL DEF Spec

\* Only an execution that the policy engine allowed puts an allowing decision in
\* the chain; the other events of the chain are old or say something else.
LEMMA AllowedStep ==
    ASSUME TypeOK, [Next]_vars, NEW i \in DOMAIN audit', AllowedAt(i)'
    PROVE  \/ i \in DOMAIN audit /\ audit'[i] = audit[i]
           \/ \E p \in proposals, now \in Times :
                /\ audit'[i] = event(now, "policy.allowed", p.engagement, p)
                /\ quorum(p, proposal_roles(p), p.by, Terms[p.engagement].ttl, now)
<1>0. audit \in Seq(Event)
  BY DEF TypeOK
<1>1. ASSUME NEW at, NEW events \in Seq(Event), append(at, events),
             \A k \in DOMAIN events : events[k].type # "policy.allowed"
      PROVE  i \in DOMAIN audit /\ audit'[i] = audit[i]
  <2>1. CASE audit' = audit
    BY <2>1
  <2>2. CASE audit' = audit \o events
    BY <1>0, <1>1, <2>2, ConcatPositions DEF AllowedAt
  <2> QED
    BY <1>1, <2>1, <2>2 DEF append
<1>2. ASSUME NEW at \in Nat, NEW e \in Engagements, NEW subject \in Subject,
             NEW type \in EventTypes, type # "policy.allowed",
             append(at, <<event(at, type, e, subject)>>)
      PROVE  i \in DOMAIN audit /\ audit'[i] = audit[i]
  <2>1. PICK done \in Event : done = event(at, type, e, subject)
    BY EventType
  <2>2. done.type = type
    BY <2>1 DEF event
  <2>3. <<done>> \in Seq(Event)
    OBVIOUS
  <2>4. PICK events \in Seq(Event) : events = <<done>>
    BY <2>3, Zenon
  <2>5. \A k \in DOMAIN events : events[k].type # "policy.allowed"
    BY <1>2, <2>2, <2>4
  <2>6. append(at, events)
    BY <1>2, <2>1, <2>4
  <2> QED
    BY <1>1, <2>5, <2>6
<1>3. CASE Lifecycle
  <2> PICK e \in Engagements, now \in Times :
            \/ register_engagement(e, now)
            \/ submit_engagement(e, now)
            \/ activate_engagement(e, now)
            \/ pause_engagement(e, now)
    BY <1>3 DEF Lifecycle
  <2>1. e \in Subject /\ now \in Nat
    BY GovernanceAssumptions DEF Subject
  <2>2. PICK type \in EventTypes : /\ append(now, <<event(now, type, e, e)>>)
                                   /\ type # "policy.allowed"
    BY DEF EventTypes, register_engagement, submit_engagement, activate_engagement,
           pause_engagement
  <2> QED
    BY <1>2, <2>1, <2>2
<1>4. CASE Approve
  <2> PICK ballot \in Ballots : \E subject \in approvable(ballot.subject_kind) :
            record_approval(subject, ballot)
    BY <1>4 DEF Approve
  <2> PICK subject \in approvable(ballot.subject_kind) : record_approval(subject, ballot)
    OBVIOUS
  <2> DEFINE e == engagement_of(ballot.subject_kind, subject)
  <2>1. ballot \in Ballot
    BY GovernanceAssumptions
  <2>2. ballot.decided_at \in Nat
    BY <2>1 DEF Ballot
  <2>3. subject \in Subject /\ e \in Engagements
    BY <2>1 DEF Ballot, approvable, Subject, Proposal, engagement_of, TypeOK
  <2>4. PICK type \in {"engagement.approval_recorded", "proposal.approval_recorded"} :
            append(ballot.decided_at, <<event(ballot.decided_at, type, e, subject)>>)
    BY DEF record_approval, approval_event
  <2>5. type \in EventTypes /\ type # "policy.allowed"
    BY DEF EventTypes
  <2> HIDE DEF e
  <2> QED
    BY <1>2, <2>2, <2>3, <2>4, <2>5
<1>5. CASE Ingest
  <2> PICK e \in Engagements, plan \in Plans, by \in Planners, now \in Times :
            ingest_plan(e, plan, by, now)
    BY <1>5 DEF Ingest
  <2> DEFINE item(k) == proposalOf(e, plan[k], by, now)
             imported(n) == [k \in 1..n |-> event(now, "proposal.imported", e, item(k))]
  <2>1. PICK n \in 0..Len(plan) : append(now, imported(n))
    BY DEF ingest_plan
  <2>2. now \in Nat /\ plan \in Seq(Contents) /\ by \in Actors
    BY GovernanceAssumptions
  <2>3. ASSUME NEW k \in 1..n
        PROVE  event(now, "proposal.imported", e, item(k)) \in Event
    <3>1. k \in DOMAIN plan
      BY <2>2
    <3>2. item(k) \in Subject
      BY <2>2, <3>1 DEF proposalOf, Proposal, Subject
    <3> QED
      BY <2>2, <3>2, EventType DEF EventTypes
  <2>4. imported(n) \in Seq(Event) /\ DOMAIN imported(n) = 1..n
    BY <2>2, <2>3
  <2>5. \A k \in 1..n : imported(n)[k].type # "policy.allowed"
    BY DEF event
  <2> HIDE DEF imported
  <2> QED
    BY <1>1, <2>1, <2>4, <2>5
<1>6. CASE \E c \in Sessions : Finish(c)
  <2> PICK c \in Sessions : Finish(c)
    BY <1>6
  <2>1. CASE connect(c)
    BY <2>1 DEF connect
  <2>2. CASE ~connect(c)
    <3>1. /\ calls[c].phase # "idle"
          /\ \E outcome \in {"failed", "cancelled", "validated"} : complete(c, outcome)
      BY <2>2 DEF Finish, cancel_before_connection, probe_failure, response
    <3> PICK outcome \in {"failed", "cancelled", "validated"} : complete(c, outcome)
      BY <3>1
    <3> DEFINE p == calls[c].proposal
               at == calls[c].at
    <3>2. p \in proposals /\ at \in Times
      BY <3>1 DEF TypeOK, Call, Idle
    <3>3. at \in Nat /\ p \in Subject /\ p.engagement \in Engagements
      BY <3>2, GovernanceAssumptions DEF TypeOK, Subject, Proposal
    <3>4. CompletionType(outcome) \in EventTypes /\ CompletionType(outcome) # "policy.allowed"
      BY DEF CompletionType, EventTypes
    <3>5. append(at, <<event(at, CompletionType(outcome), p.engagement, p)>>)
      BY DEF complete
    <3> HIDE DEF p, at
    <3> QED
      BY <1>2, <3>3, <3>4, <3>5
  <2> QED
    BY <2>1, <2>2
<1>7. CASE Execute
  <2> PICK c \in Sessions, p \in proposals, now \in Times : execute_proposal(c, p, now)
    BY <1>7 DEF Execute
  <2> DEFINE e == p.engagement
             recent == recent_requests(e, now)
             allowed == evaluate(p, now, Cardinality(recent))
             allowing == event(now, "policy.allowed", e, p)
             denying == event(now, "policy.denied", e, p)
             simulating == event(now, "simulation.completed", e, p)
  <2>1. now \in Nat /\ e \in Engagements /\ p \in Subject
    BY GovernanceAssumptions DEF TypeOK, Subject, Proposal
  <2>2. allowing \in Event /\ denying \in Event /\ simulating \in Event
    BY <2>1, EventType DEF EventTypes
  <2>3. denying.type = "policy.denied" /\ simulating.type = "simulation.completed"
    BY DEF event
  <2>4. allowed => quorum(p, proposal_roles(p), p.by, Terms[e].ttl, now)
    BY DEF evaluate
  <2> HIDE DEF allowing, denying, simulating, allowed
  <2>5. \/ UNCHANGED audit
        \/ audit' = Append(audit, denying)
        \/ allowed /\ audit' = audit \o <<allowing, simulating>>
        \/ allowed /\ audit' = Append(audit, allowing)
    BY DEF execute_proposal, decision_unlogged, denied, simulated, admitted,
           allowing, denying, simulating, allowed
  <2>6. CASE UNCHANGED audit
    BY <2>6
  <2>7. CASE audit' = Append(audit, denying)
    BY <1>0, <2>2, <2>3, <2>7 DEF AllowedAt
  <2>8. CASE allowed /\ audit' = audit \o <<allowing, simulating>>
    <3>1. \/ i \in DOMAIN audit /\ audit'[i] = audit[i]
          \/ audit'[i] = allowing
      BY <1>0, <2>2, <2>3, <2>8 DEF AllowedAt
    <3> QED
      BY <2>4, <2>8, <3>1 DEF allowing
  <2>9. CASE allowed /\ audit' = Append(audit, allowing)
    <3>1. \/ i \in DOMAIN audit /\ audit'[i] = audit[i]
          \/ audit'[i] = allowing
      BY <1>0, <2>2, <2>9
    <3> QED
      BY <2>4, <2>9, <3>1 DEF allowing
  <2> QED
    BY <2>5, <2>6, <2>7, <2>8, <2>9
<1>8. CASE UNCHANGED vars
  BY <1>8 DEF vars
<1> QED
  BY <1>3, <1>4, <1>5, <1>6, <1>7, <1>8 DEF Next

\* Every simulated execution in the chain was approved, at its moment, for the
\* two roles it needs by two different people, neither of them the proposer.
THEOREM SimulationByTwo == Spec => []SimulationDualControl
<1>1. Init => SimulationDualControl
  BY DEF Init, SimulationDualControl
<1>2. TypeOK /\ SimulationDualControl /\ [Next]_vars => SimulationDualControl'
  <2> SUFFICES ASSUME TypeOK, SimulationDualControl, [Next]_vars,
                      NEW i \in DOMAIN audit', AllowedAt(i)', ~ControlledAt(i)'
               PROVE  (LET p == audit[i].subject
                       IN  PersonPerRole(p, {"control_team", "execution_approver"}, p.by,
                                         Terms[p.engagement].ttl, audit[i].at))'
    BY DEF SimulationDualControl
  <2>0. PICK p, at : p = audit'[i].subject /\ at = audit'[i].at
    OBVIOUS
  <2>1. p.content \notin Controlled
    BY <2>0 DEF ControlledAt
  <2> DEFINE ttl == Terms[p.engagement].ttl
  <2>2. PersonPerRole(p, {"control_team", "execution_approver"}, p.by, ttl, at)
    <3>1. CASE i \in DOMAIN audit /\ audit'[i] = audit[i]
      BY <2>0, <3>1 DEF SimulationDualControl, AllowedAt, ControlledAt
    <3>2. CASE \E q \in proposals, now \in Times :
                 /\ audit'[i] = event(now, "policy.allowed", q.engagement, q)
                 /\ quorum(q, proposal_roles(q), q.by, Terms[q.engagement].ttl, now)
      <4>1. /\ p \in proposals /\ at \in Times
            /\ quorum(p, proposal_roles(p), p.by, ttl, at)
        BY <2>0, <3>2 DEF event
      <4>2. at \in Nat /\ p.engagement \in Engagements
        BY <4>1, GovernanceAssumptions DEF TypeOK, Proposal
      <4>3. ttl \in Nat
        BY <4>2, GovernanceAssumptions DEF Term
      <4>4. proposal_roles(p) = {"control_team", "execution_approver"}
        BY <2>1 DEF proposal_roles
      <4> HIDE DEF ttl
      <4>5. quorum(p, {"control_team", "execution_approver"}, p.by, ttl, at)
        BY <4>1, <4>4
      <4>6. PersonPerRole(p, {"control_team", "execution_approver"}, p.by, ttl, at)
        BY <4>2, <4>3, <4>5, TwoRoles DEF Roles
      <4> QED
        BY <4>6
    <3> QED
      BY <3>1, <3>2, AllowedStep
  <2> HIDE DEF ttl
  <2>3. PICK required, barred : required = {"control_team", "execution_approver"} /\ barred = p.by
    OBVIOUS
  <2>4. PersonPerRole(p, required, barred, ttl, at)'
    BY <2>2, <2>3, ApprovalsGrow, PersonMonotone
  <2> QED
    BY <2>0, <2>3, <2>4 DEF ttl, PersonPerRole, speaks
<1> QED
  BY <1>1, <1>2, TypeCorrect, PTL DEF Spec

\* The approvals are finitely many: each operation adds at most one.
ApprovalsFinite == IsFiniteSet(approvals)

LEMMA FiniteStep ==
    ASSUME ApprovalsFinite, [Next]_vars
    PROVE  ApprovalsFinite'
<1>1. CASE UNCHANGED approvals
  BY <1>1 DEF ApprovalsFinite
<1>2. CASE Approve
  <2>1. PICK subject, ballot :
            approvals' = approvals \cup {[subject |-> subject, ballot |-> ballot]}
    BY <1>2 DEF Approve, record_approval
  <2> QED
    BY <2>1, FS_AddElement DEF ApprovalsFinite
<1> QED
  BY <1>1, <1>2, VotesStep

three_roles == {"business_owner", "control_team", "execution_approver"}

LEMMA ThreeAreThree == Cardinality(three_roles) = 3
<1> DEFINE one == {"business_owner"}
           two == one \cup {"control_team"}
<1>1. IsFiniteSet(one) /\ Cardinality(one) = 1
  BY FS_Singleton
<1>2. "control_team" \notin one /\ "execution_approver" \notin two
  OBVIOUS
<1>3. IsFiniteSet(two) /\ Cardinality(two) = 2
  BY <1>1, <1>2, FS_AddElement
<1>4. Cardinality(two \cup {"execution_approver"}) = 3
  BY <1>2, <1>3, FS_AddElement
<1>5. three_roles = two \cup {"execution_approver"}
  BY DEF three_roles
<1> QED
  BY <1>4, <1>5

\* The approvals that spoke for proposal p at the time `at`, its proposer's apart.
valid_approvals(p, at) ==
    {a \in approvals : /\ speaks(a, p, Terms[p.engagement].ttl, at)
                       /\ a.ballot.actor # p.by}

ThreeApproved(p, at) ==
    /\ \A r \in three_roles : \E a \in valid_approvals(p, at) : a.ballot.role = r
    /\ Cardinality(approvers(valid_approvals(p, at), three_roles)) >= 3

LEMMA ThreeApprovedFolds ==
    ControlledThreeApprovers <=>
        \A i \in DOMAIN audit : ControlledAt(i) => ThreeApproved(audit[i].subject, audit[i].at)
  BY DEF ControlledThreeApprovers, ThreeApproved, valid_approvals, three_roles

\* What the quorum of a controlled proposal counts are its valid approvals: the
\* proposer's would have refused it.
LEMMA ThreeRoles ==
    ASSUME TypeOK, NEW p \in proposals, NEW now \in Nat,
           quorum(p, three_roles, p.by, Terms[p.engagement].ttl, now)
    PROVE  ThreeApproved(p, now)
<1> DEFINE ttl == Terms[p.engagement].ttl
           current == current_approvals(p, now)
           valid == valid_approvals(p, now)
<1>1. ttl \in Nat
  BY GovernanceAssumptions DEF TypeOK, Proposal, Term
<1>2. ASSUME NEW a \in current, a.ballot.decision = "approved", a.ballot.role \in three_roles
      PROVE  a \in valid
  <2>1. a \in approvals /\ a.subject = p /\ a.ballot \in Ballot
    BY DEF current_approvals, TypeOK, Approval
  <2>2. a.ballot.decided_at \in Nat /\ a.ballot.expires_at \in Nat
    BY <2>1 DEF Ballot
  <2>3. a.ballot.decided_at <= now /\ now < a.ballot.expires_at
    BY DEF current_approvals
  <2>4. a.ballot.expires_at <= a.ballot.decided_at + ttl
    BY DEF quorum
  <2>5. a.ballot.actor # p.by
    BY <1>2 DEF quorum, approvers
  <2> QED
    BY <1>1, <1>2, <2>1, <2>2, <2>3, <2>4, <2>5 DEF speaks, valid_approvals
<1>3. ASSUME NEW a \in valid PROVE a \in current /\ a.ballot.decision = "approved"
  <2>1. a \in approvals /\ speaks(a, p, ttl, now) /\ a.ballot \in Ballot
    BY DEF valid_approvals, TypeOK, Approval
  <2>2. a.ballot.decided_at \in Nat /\ a.ballot.expires_at \in Nat
    BY <2>1 DEF Ballot
  <2> QED
    BY <2>1, <2>2 DEF speaks, current_approvals
<1>4. approvers(valid, three_roles) = approvers(current, three_roles)
  BY <1>2, <1>3 DEF approvers
<1>5. Cardinality(approvers(current, three_roles)) >= 3
  BY ThreeAreThree DEF quorum
<1>6. \A r \in three_roles : \E a \in valid : a.ballot.role = r
  BY <1>2 DEF quorum, granted_roles
<1> QED
  BY <1>4, <1>5, <1>6 DEF ThreeApproved

\* Later votes do not undo it, the proposer's included.
LEMMA ThreeMonotone ==
    ASSUME NEW p, NEW at, approvals \subseteq approvals', ApprovalsFinite',
           ThreeApproved(p, at)
    PROVE  ThreeApproved(p, at)'
<1> DEFINE valid == valid_approvals(p, at)
           people == approvers(valid, three_roles)
<1>1. valid \subseteq valid'
  BY DEF valid_approvals, speaks
<1>2. people \subseteq people'
  BY <1>1 DEF approvers
<1>3. IsFiniteSet(people')
  <2> DEFINE voting == {b \in valid' : /\ b.ballot.decision = "approved"
                                       /\ b.ballot.role \in three_roles}
  <2>1. voting \subseteq approvals'
    BY DEF valid_approvals
  <2>2. IsFiniteSet(voting)
    BY <2>1, FS_Subset DEF ApprovalsFinite
  <2>3. people' = {b.ballot.actor : b \in voting}
    BY DEF approvers
  <2> HIDE DEF voting
  <2> DEFINE f == [b \in voting |-> b.ballot.actor]
             actors == {b.ballot.actor : b \in voting}
  <2>4. f \in Surjection(voting, actors)
    BY DEF Surjection
  <2>5. IsFiniteSet(actors)
    BY <2>2, <2>4, FS_Surjection
  <2> QED
    BY <2>3, <2>5
<1>4. /\ IsFiniteSet(people)
      /\ Cardinality(people) \in Nat /\ Cardinality(people') \in Nat
      /\ Cardinality(people) <= Cardinality(people')
  BY <1>2, <1>3, FS_Subset, FS_CardinalityType
<1>5. Cardinality(people) >= 3
  BY DEF ThreeApproved
<1> HIDE DEF people
<1>6. Cardinality(people') >= 3
  BY <1>4, <1>5
<1> QED
  BY <1>1, <1>6 DEF ThreeApproved, people

\* Every controlled execution in the chain was approved, at its moment, for each
\* of its three roles, by three different people none of whom is the proposer,
\* although the engine does not count one person for each role.
THEOREM ControlledByThree == Spec => []ControlledThreeApprovers
<1>1. Init => ApprovalsFinite /\ ControlledThreeApprovers
  BY FS_EmptySet DEF Init, ApprovalsFinite, ControlledThreeApprovers
<1>2. TypeOK /\ ApprovalsFinite /\ ControlledThreeApprovers /\ [Next]_vars
          => ApprovalsFinite' /\ ControlledThreeApprovers'
  <2> SUFFICES ASSUME TypeOK, ApprovalsFinite, ControlledThreeApprovers, [Next]_vars
               PROVE  ApprovalsFinite' /\ ControlledThreeApprovers'
    OBVIOUS
  <2>1. ApprovalsFinite'
    BY FiniteStep
  <2>2. ASSUME NEW i \in DOMAIN audit', ControlledAt(i)'
        PROVE  \A p, at : p = audit'[i].subject /\ at = audit'[i].at => ThreeApproved(p, at)'
    <3>1. PICK p, at : p = audit'[i].subject /\ at = audit'[i].at
      OBVIOUS
    <3>2. AllowedAt(i)' /\ p.content \in Controlled
      BY <2>2, <3>1 DEF ControlledAt
    <3>3. CASE i \in DOMAIN audit /\ audit'[i] = audit[i]
      <4>1. ThreeApproved(p, at)
        BY <3>1, <3>2, <3>3, ThreeApprovedFolds DEF ControlledAt, AllowedAt
      <4>2. ThreeApproved(p, at)'
        BY <2>1, <4>1, ApprovalsGrow, ThreeMonotone
      <4> HIDE DEF ThreeApproved
      <4> QED
        BY <3>1, <4>2
    <3>4. CASE \E q \in proposals, now \in Times :
                 /\ audit'[i] = event(now, "policy.allowed", q.engagement, q)
                 /\ quorum(q, proposal_roles(q), q.by, Terms[q.engagement].ttl, now)
      <4>1. /\ p \in proposals /\ at \in Times
            /\ quorum(p, proposal_roles(p), p.by, Terms[p.engagement].ttl, at)
        BY <3>1, <3>4 DEF event
      <4>2. at \in Nat
        BY <4>1, GovernanceAssumptions
      <4>3. proposal_roles(p) = three_roles
        BY <3>2 DEF proposal_roles, three_roles
      <4>4. ThreeApproved(p, at)
        BY <4>1, <4>2, <4>3, ThreeRoles
      <4>5. ThreeApproved(p, at)'
        BY <2>1, <4>4, ApprovalsGrow, ThreeMonotone
      <4> QED
        BY <3>1, <4>5
    <3> QED
      BY <3>2, <3>3, <3>4, AllowedStep
  <2>3. ASSUME NEW i \in DOMAIN audit', ControlledAt(i)'
        PROVE  ThreeApproved(audit[i].subject, audit[i].at)'
    <3>1. PICK p, at : p = audit'[i].subject /\ at = audit'[i].at
      OBVIOUS
    <3>2. ThreeApproved(p, at)'
      BY <2>2, <2>3, <3>1
    <3>3. valid_approvals(audit[i].subject, audit[i].at)' = valid_approvals(p, at)'
      BY <3>1 DEF valid_approvals, speaks
    <3>4. approvers(valid_approvals(audit[i].subject, audit[i].at), three_roles)'
              = approvers(valid_approvals(p, at), three_roles)'
      BY <3>3 DEF approvers
    <3> QED
      BY <3>2, <3>3, <3>4 DEF ThreeApproved
  <2>4. (ControlledThreeApprovers <=>
            \A i \in DOMAIN audit :
                ControlledAt(i) => ThreeApproved(audit[i].subject, audit[i].at))'
    BY ThreeApprovedFolds, PTL
  <2> QED
    BY <2>1, <2>3, <2>4
<1> QED
  BY <1>1, <1>2, TypeCorrect, PTL DEF Spec

-----------------------------------------------------------------------------
(* What a step appends *)

\* An event a stopped engagement may still cause.
Inert(ev) == ev.engagement \in emergency_stops => ev.type \in InertEvents

\* A refused append appends nothing.
LEMMA AppendExtends ==
    ASSUME audit \in Seq(Event), NEW at, NEW events \in Seq(Event), append(at, events),
           \A k \in DOMAIN events : Inert(events[k])
    PROVE  \E new \in Seq(Event) : /\ audit' = audit \o new
                                   /\ \A k \in DOMAIN new : Inert(new[k])
<1>1. CASE audit' = audit \o events
  BY <1>1
<1>2. CASE audit' = audit
  <2>1. << >> \in Seq(Event) /\ audit \o << >> = audit /\ DOMAIN << >> = {}
    OBVIOUS
  <2> QED
    BY <1>2, <2>1
<1> QED
  BY <1>1, <1>2 DEF append

LEMMA AppendOneExtends ==
    ASSUME audit \in Seq(Event), NEW at \in Nat, NEW type \in EventTypes,
           NEW e \in Engagements, NEW subject \in Subject,
           append(at, <<event(at, type, e, subject)>>),
           e \in emergency_stops => type \in InertEvents
    PROVE  \E new \in Seq(Event) : /\ audit' = audit \o new
                                   /\ \A k \in DOMAIN new : Inert(new[k])
<1>1. PICK done \in Event : done = event(at, type, e, subject)
  BY EventType
<1>2. Inert(done)
  BY <1>1 DEF event, Inert
<1>3. PICK events \in Seq(Event) : events = <<done>>
  <2>1. <<done>> \in Seq(Event)
    OBVIOUS
  <2> QED
    BY <2>1, Zenon
<1>4. \A k \in DOMAIN events : Inert(events[k])
  <2> HIDE DEF Inert
  <2> QED
    BY <1>2, <1>3
<1>5. append(at, events)
  BY <1>1, <1>3
<1> QED
  BY <1>3, <1>4, <1>5, AppendExtends

\* The end of a controlled call: what it was, and that a stop cancels it.
LEMMA FinishStep ==
    ASSUME TypeOK, NEW c \in Sessions, Finish(c), ~connect(c)
    PROVE  /\ calls[c] # Idle
           /\ calls[c].proposal \in proposals /\ calls[c].at \in Times
           /\ \E outcome \in {"validated", "failed", "cancelled"} :
                 /\ complete(c, outcome)
                 /\ calls[c].proposal.engagement \in emergency_stops
                        => outcome \in {"failed", "cancelled"}
<1>1. calls[c].phase # "idle"
  BY DEF Finish, cancel_before_connection, probe_failure, response
<1>2. calls[c] # Idle /\ calls[c].proposal \in proposals /\ calls[c].at \in Times
  BY <1>1 DEF TypeOK, Call, Idle
<1> QED
  BY <1>2 DEF Finish, cancel_before_connection, probe_failure, response, is_cancelled

\* Every step appends events or nothing, and none for a stopped engagement that
\* it may not cause any more.
LEMMA ChainStep ==
    ASSUME TypeOK, StoppedIsPaused, [Next]_vars
    PROVE  \E new \in Seq(Event) : /\ audit' = audit \o new
                                   /\ \A k \in DOMAIN new : Inert(new[k])
<1>0. audit \in Seq(Event)
  BY DEF TypeOK
<1>1. CASE UNCHANGED audit
  <2>1. << >> \in Seq(Event) /\ audit \o << >> = audit /\ DOMAIN << >> = {}
    BY <1>0
  <2> QED
    BY <1>1, <2>1
<1>2. CASE Lifecycle
  <2> PICK e \in Engagements, now \in Times :
            \/ register_engagement(e, now)
            \/ submit_engagement(e, now)
            \/ activate_engagement(e, now)
            \/ pause_engagement(e, now)
    BY <1>2 DEF Lifecycle
  <2>1. e \in Subject /\ now \in Nat
    BY GovernanceAssumptions DEF Subject
  <2>2. PICK type \in EventTypes : /\ append(now, <<event(now, type, e, e)>>)
                                   /\ e \in emergency_stops => type \in InertEvents
    <3>1. CASE pause_engagement(e, now)
      BY <3>1 DEF pause_engagement, EventTypes, InertEvents
    <3>2. CASE ~pause_engagement(e, now)
      <4>1. e \notin emergency_stops
        BY <3>2 DEF register_engagement, submit_engagement, activate_engagement,
                    StoppedIsPaused
      <4> QED
        BY <3>2, <4>1 DEF EventTypes, register_engagement, submit_engagement,
                          activate_engagement
    <3> QED
      BY <3>1, <3>2
  <2> QED
    BY <1>0, <2>1, <2>2, AppendOneExtends
<1>3. CASE Approve
  <2> PICK ballot \in Ballots : \E subject \in approvable(ballot.subject_kind) :
            record_approval(subject, ballot)
    BY <1>3 DEF Approve
  <2> PICK subject \in approvable(ballot.subject_kind) : record_approval(subject, ballot)
    OBVIOUS
  <2> DEFINE e == engagement_of(ballot.subject_kind, subject)
  <2>1. ballot \in Ballot
    BY GovernanceAssumptions
  <2>2. ballot.decided_at \in Nat
    BY <2>1 DEF Ballot
  <2>3. subject \in Subject /\ e \in Engagements
    BY <2>1 DEF Ballot, approvable, Subject, Proposal, engagement_of, TypeOK
  <2>4. PICK type \in {"engagement.approval_recorded", "proposal.approval_recorded"} :
            append(ballot.decided_at, <<event(ballot.decided_at, type, e, subject)>>)
    BY DEF record_approval, approval_event
  <2>5. type \in EventTypes /\ type \in InertEvents
    BY DEF EventTypes, InertEvents
  <2> HIDE DEF e
  <2> QED
    BY <1>0, <2>2, <2>3, <2>4, <2>5, AppendOneExtends
<1>4. CASE Ingest
  <2> PICK e \in Engagements, plan \in Plans, by \in Planners, now \in Times :
            ingest_plan(e, plan, by, now)
    BY <1>4 DEF Ingest
  <2> DEFINE item(k) == proposalOf(e, plan[k], by, now)
             imported(n) == [k \in 1..n |-> event(now, "proposal.imported", e, item(k))]
  <2>1. PICK n \in 0..Len(plan) : append(now, imported(n))
    BY DEF ingest_plan
  <2>2. now \in Nat /\ plan \in Seq(Contents) /\ by \in Actors
    BY GovernanceAssumptions
  <2>3. ASSUME NEW k \in 1..n
        PROVE  event(now, "proposal.imported", e, item(k)) \in Event
    <3>1. k \in DOMAIN plan
      BY <2>2
    <3>2. item(k) \in Subject
      BY <2>2, <3>1 DEF proposalOf, Proposal, Subject
    <3> QED
      BY <2>2, <3>2, EventType DEF EventTypes
  <2>4. imported(n) \in Seq(Event) /\ DOMAIN imported(n) = 1..n
    BY <2>2, <2>3
  <2>5. e \notin emergency_stops
    BY DEF ingest_plan, StoppedIsPaused
  <2>6. \A k \in 1..n : Inert(imported(n)[k])
    BY <2>5 DEF event, Inert
  <2> HIDE DEF imported, Inert
  <2> QED
    BY <1>0, <2>1, <2>4, <2>6, AppendExtends
<1>5. CASE \E c \in Sessions : Finish(c)
  <2> PICK c \in Sessions : Finish(c)
    BY <1>5
  <2>1. CASE connect(c)
    BY <1>1, <2>1 DEF connect
  <2>2. CASE ~connect(c)
    <3> DEFINE p == calls[c].proposal
               at == calls[c].at
    <3>1. PICK outcome \in {"validated", "failed", "cancelled"} :
              /\ complete(c, outcome)
              /\ p.engagement \in emergency_stops => outcome \in {"failed", "cancelled"}
      BY <2>2, FinishStep
    <3>2. p \in proposals /\ at \in Times
      BY <2>2, FinishStep
    <3>3. at \in Nat /\ p \in Subject /\ p.engagement \in Engagements
      BY <3>2, GovernanceAssumptions DEF TypeOK, Subject, Proposal
    <3>4. /\ CompletionType(outcome) \in EventTypes
          /\ p.engagement \in emergency_stops => CompletionType(outcome) \in InertEvents
      BY <3>1 DEF CompletionType, EventTypes, InertEvents
    <3>5. append(at, <<event(at, CompletionType(outcome), p.engagement, p)>>)
      BY <3>1 DEF complete
    <3> HIDE DEF p, at
    <3> QED
      BY <1>0, <3>3, <3>4, <3>5, AppendOneExtends
  <2> QED
    BY <2>1, <2>2
<1>6. CASE Execute
  <2> PICK c \in Sessions, p \in proposals, now \in Times : execute_proposal(c, p, now)
    BY <1>6 DEF Execute
  <2> DEFINE e == p.engagement
             recent == recent_requests(e, now)
             allowed == evaluate(p, now, Cardinality(recent))
             allowing == event(now, "policy.allowed", e, p)
             denying == event(now, "policy.denied", e, p)
             simulating == event(now, "simulation.completed", e, p)
  <2>1. now \in Nat /\ e \in Engagements /\ p \in Subject
    BY GovernanceAssumptions DEF TypeOK, Subject, Proposal
  <2>2. allowing \in Event /\ denying \in Event /\ simulating \in Event
    BY <2>1, EventType DEF EventTypes
  <2>3. Inert(denying)
    BY DEF event, Inert, InertEvents
  <2>4. allowed => Inert(allowing) /\ Inert(simulating)
    BY DEF evaluate, event, Inert
  <2> HIDE DEF allowing, denying, simulating, allowed, Inert
  <2>5. \/ UNCHANGED audit
        \/ audit' = audit \o <<denying>>
        \/ allowed /\ audit' = audit \o <<allowing, simulating>>
        \/ allowed /\ audit' = audit \o <<allowing>>
    <3>1. \/ UNCHANGED audit
          \/ audit' = Append(audit, denying)
          \/ allowed /\ audit' = audit \o <<allowing, simulating>>
          \/ allowed /\ audit' = Append(audit, allowing)
      BY DEF execute_proposal, decision_unlogged, denied, simulated, admitted,
             allowing, denying, simulating, allowed
    <3>2. \A ev \in Event : Append(audit, ev) = audit \o <<ev>>
      BY <1>0
    <3> QED
      BY <2>2, <3>1, <3>2
  <2>6. CASE audit' = audit \o <<denying>>
    <3>1. PICK new \in Seq(Event) : new = <<denying>>
      <4>1. <<denying>> \in Seq(Event)
        BY <2>2
      <4> QED
        BY <4>1, Zenon
    <3>2. \A k \in DOMAIN new : Inert(new[k])
      BY <2>2, <2>3, <3>1
    <3> QED
      BY <2>6, <3>1, <3>2
  <2>7. CASE allowed /\ audit' = audit \o <<allowing, simulating>>
    <3>1. PICK new \in Seq(Event) : new = <<allowing, simulating>>
      <4>1. <<allowing, simulating>> \in Seq(Event)
        BY <2>2
      <4> QED
        BY <4>1, Zenon
    <3>2. \A k \in DOMAIN new : Inert(new[k])
      BY <2>2, <2>4, <2>7, <3>1
    <3> QED
      BY <2>7, <3>1, <3>2
  <2>8. CASE allowed /\ audit' = audit \o <<allowing>>
    <3>1. PICK new \in Seq(Event) : new = <<allowing>>
      <4>1. <<allowing>> \in Seq(Event)
        BY <2>2
      <4> QED
        BY <4>1, Zenon
    <3>2. \A k \in DOMAIN new : Inert(new[k])
      BY <2>2, <2>4, <2>8, <3>1
    <3> QED
      BY <2>8, <3>1, <3>2
  <2> QED
    BY <1>1, <2>5, <2>6, <2>7, <2>8
<1>7. CASE UNCHANGED vars
  BY <1>1, <1>7 DEF vars
<1> QED
  BY <1>2, <1>3, <1>4, <1>5, <1>6, <1>7 DEF Next

\* So the chain only grows.
LEMMA ChainGrows ==
    ASSUME TypeOK, StoppedIsPaused, [Next]_vars
    PROVE  /\ DOMAIN audit \subseteq DOMAIN audit'
           /\ \A i \in DOMAIN audit : audit'[i] = audit[i]
           /\ \A i \in DOMAIN audit' \ DOMAIN audit : Inert(audit'[i])
<1>0. audit \in Seq(Event)
  BY DEF TypeOK
<1>1. PICK new \in Seq(Event) : /\ audit' = audit \o new
                               /\ \A k \in DOMAIN new : Inert(new[k])
  BY ChainStep
<1> HIDE DEF Inert
<1> QED
  BY <1>0, <1>1, ConcatPositions

-----------------------------------------------------------------------------
(* Permissions and results *)

Permitted(p, at) == \E i \in DOMAIN audit : /\ AllowedAt(i)
                                            /\ audit[i].subject = p
                                            /\ audit[i].at = at

\* A permission stays in the chain.
LEMMA PermittedStays ==
    ASSUME TypeOK, StoppedIsPaused, [Next]_vars, NEW p, NEW at, Permitted(p, at)
    PROVE  Permitted(p, at)'
  BY ChainGrows DEF Permitted, AllowedAt

\* A step stores at most one receipt: that of a permitted execution, and none
\* but a failure or a cancellation for a stopped engagement.
LEMMA ReceiptStep ==
    ASSUME TypeOK, StoppedIsPaused, PermissionInChain, [Next]_vars
    PROVE  \/ UNCHANGED receipts
           \/ \E p, outcome, at :
                 /\ p \in proposals
                 /\ receipts' = Put(receipts, p, [status |-> outcome, at |-> at])
                 /\ Permitted(p, at)'
                 /\ p.engagement \in emergency_stops => outcome \in {"failed", "cancelled"}
<1>0. audit \in Seq(Event)
  BY DEF TypeOK
<1>1. CASE Execute
  <2> PICK c \in Sessions, p \in proposals, now \in Times : execute_proposal(c, p, now)
    BY <1>1 DEF Execute
  <2> DEFINE recent == recent_requests(p.engagement, now)
             allowed == evaluate(p, now, Cardinality(recent))
             allowing == event(now, "policy.allowed", p.engagement, p)
             simulating == event(now, "simulation.completed", p.engagement, p)
  <2>1. CASE UNCHANGED receipts
    BY <2>1
  <2>2. CASE allowed /\ simulated(p, now, recent)
    <3>1. allowing \in Event /\ simulating \in Event
      BY GovernanceAssumptions, EventType DEF TypeOK, Proposal, Subject, EventTypes
    <3>2. allowing.type = "policy.allowed" /\ allowing.subject = p /\ allowing.at = now
      BY DEF event
    <3>3. audit' = audit \o <<allowing, simulating>>
      BY <2>2 DEF simulated
    <3>4. p.engagement \notin emergency_stops
      BY <2>2 DEF evaluate
    <3> HIDE DEF allowing, simulating
    <3>5. Len(audit) + 1 \in DOMAIN audit' /\ audit'[Len(audit) + 1] = allowing
      BY <1>0, <3>1, <3>3
    <3>6. Permitted(p, now)'
      BY <3>2, <3>5 DEF Permitted, AllowedAt
    <3>7. receipts' = Put(receipts, p, [status |-> "simulated", at |-> now])
      BY <2>2 DEF simulated
    <3> QED
      BY <3>4, <3>6, <3>7
  <2> QED
    BY <2>1, <2>2 DEF execute_proposal, decision_unlogged, denied, admitted
<1>2. CASE \E c \in Sessions : Finish(c)
  <2> PICK c \in Sessions : Finish(c)
    BY <1>2
  <2>1. CASE connect(c)
    BY <2>1 DEF connect
  <2>2. CASE ~connect(c)
    <3> DEFINE p == calls[c].proposal
               at == calls[c].at
    <3>1. PICK outcome \in {"validated", "failed", "cancelled"} :
              /\ complete(c, outcome)
              /\ p.engagement \in emergency_stops => outcome \in {"failed", "cancelled"}
      BY <2>2, FinishStep
    <3>2. p \in proposals /\ calls[c] # Idle
      BY <2>2, FinishStep
    <3>3. Permitted(p, at)
      BY <3>2 DEF PermissionInChain, Permitted
    <3>4. receipts' = Put(receipts, p, [status |-> outcome, at |-> at])
      BY <3>1 DEF complete
    <3>5. PICK q, t : q \in proposals /\ q = p /\ t = at
      BY <3>2
    <3>6. Permitted(q, t)'
      BY <3>3, <3>5, PermittedStays
    <3> QED
      BY <3>1, <3>4, <3>5, <3>6
  <2> QED
    BY <2>1, <2>2
<1>3. CASE ~Execute /\ ~(\E c \in Sessions : Finish(c))
  BY <1>3 DEF Next, vars, Lifecycle, register_engagement, submit_engagement,
              activate_engagement, pause_engagement, Approve, record_approval,
              Ingest, ingest_plan, executionState
<1> QED
  BY <1>1, <1>2, <1>3

\* A call that is in flight after a step was before, or was admitted by it.
LEMMA CallStep ==
    ASSUME TypeOK, [Next]_vars, NEW d \in Sessions, calls'[d] # Idle
    PROVE  \/ /\ calls[d] # Idle
              /\ calls'[d].proposal = calls[d].proposal /\ calls'[d].at = calls[d].at
           \/ Permitted(calls[d].proposal, calls[d].at)'
<1>0. audit \in Seq(Event)
  BY DEF TypeOK
<1>1. CASE UNCHANGED calls
  BY <1>1
<1>2. CASE Execute
  <2> PICK c \in Sessions, p \in proposals, now \in Times : execute_proposal(c, p, now)
    BY <1>2 DEF Execute
  <2> DEFINE recent == recent_requests(p.engagement, now)
             allowing == event(now, "policy.allowed", p.engagement, p)
  <2>1. CASE admitted(c, p, now, recent) /\ d = c
    <3>1. allowing \in Event
      BY GovernanceAssumptions, EventType DEF TypeOK, Proposal, Subject, EventTypes
    <3>2. allowing.type = "policy.allowed" /\ allowing.subject = p /\ allowing.at = now
      BY DEF event
    <3>3. audit' = Append(audit, allowing)
      BY <2>1 DEF admitted
    <3>4. calls'[c].proposal = p /\ calls'[c].at = now
      BY <2>1 DEF admitted, TypeOK
    <3> HIDE DEF allowing
    <3>5. Len(audit) + 1 \in DOMAIN audit' /\ audit'[Len(audit) + 1] = allowing
      BY <1>0, <3>1, <3>3
    <3> QED
      BY <2>1, <3>2, <3>4, <3>5 DEF Permitted, AllowedAt
  <2>2. CASE admitted(c, p, now, recent) /\ d # c
    BY <2>2 DEF admitted, TypeOK
  <2> QED
    BY <1>1, <2>1, <2>2 DEF execute_proposal, decision_unlogged, denied, simulated
<1>3. CASE \E c \in Sessions : Finish(c)
  <2> PICK c \in Sessions : Finish(c)
    BY <1>3
  <2>1. CASE connect(c)
    BY <2>1 DEF connect, TypeOK, Call, Idle
  <2>2. CASE ~connect(c)
    <3>1. calls' = [calls EXCEPT ![c] = Idle]
      BY <2>2, FinishStep DEF complete
    <3> QED
      BY <3>1 DEF TypeOK
  <2> QED
    BY <2>1, <2>2
<1> QED
  BY <1>1, <1>2, <1>3 DEF Next, vars, Lifecycle, register_engagement, submit_engagement,
              activate_engagement, pause_engagement, Approve, record_approval,
              Ingest, ingest_plan, executionState

LEMMA PermissionFolds ==
    PermissionInChain <=>
        /\ \A p \in DOMAIN receipts : Permitted(p, receipts[p].at)
        /\ \A c \in Sessions : calls[c] # Idle => Permitted(calls[c].proposal, calls[c].at)
  BY DEF PermissionInChain, Permitted

\* Every receipt and every call in flight was allowed by a decision the chain
\* records with the time they carry: no result comes of a refused or an unlogged
\* execution, and no allowing event is ever lost.
THEOREM ResultsArePermitted == Spec => []PermissionInChain
<1>1. Init => PermissionInChain /\ StoppedIsPaused
  BY DEF Init, PermissionInChain, StoppedIsPaused
<1>2. TypeOK /\ StoppedIsPaused /\ PermissionInChain /\ [Next]_vars
          => PermissionInChain' /\ StoppedIsPaused'
  <2> SUFFICES ASSUME TypeOK, StoppedIsPaused, PermissionInChain, [Next]_vars
               PROVE  PermissionInChain' /\ StoppedIsPaused'
    OBVIOUS
  <2>1. ASSUME NEW p \in DOMAIN receipts'
        PROVE  \E q, at : q = p /\ at = receipts'[p].at /\ Permitted(q, at)'
    <3>1. CASE p \in DOMAIN receipts /\ receipts'[p] = receipts[p]
      <4>1. Permitted(p, receipts[p].at)
        BY <3>1 DEF PermissionInChain, Permitted
      <4>2. PICK at : at = receipts[p].at
        OBVIOUS
      <4>3. Permitted(p, at)'
        BY <4>1, <4>2, PermittedStays
      <4> HIDE DEF Permitted
      <4> QED
        BY <3>1, <4>2, <4>3
    <3>2. CASE ~(p \in DOMAIN receipts /\ receipts'[p] = receipts[p])
      <4>1. PICK q, outcome, at :
                /\ receipts' = Put(receipts, q, [status |-> outcome, at |-> at])
                /\ Permitted(q, at)'
        BY <3>2, ReceiptStep
      <4>2. q = p /\ receipts'[p].at = at
        BY <3>2, <4>1 DEF Put
      <4> QED
        BY <4>1, <4>2
    <3> QED
      BY <3>1, <3>2
  <2>2. ASSUME NEW d \in Sessions, calls'[d] # Idle
        PROVE  \E p, at : p = calls'[d].proposal /\ at = calls'[d].at /\ Permitted(p, at)'
    <3>1. CASE /\ calls[d] # Idle
               /\ calls'[d].proposal = calls[d].proposal /\ calls'[d].at = calls[d].at
      <4>1. PICK p, at : p = calls[d].proposal /\ at = calls[d].at
        OBVIOUS
      <4>2. Permitted(p, at)
        BY <3>1, <4>1 DEF PermissionInChain, Permitted
      <4>3. Permitted(p, at)'
        BY <4>2, PermittedStays
      <4> QED
        BY <3>1, <4>1, <4>3
    <3>2. CASE Permitted(calls[d].proposal, calls[d].at)'
      BY <3>2 DEF Permitted
    <3> QED
      BY <2>2, <3>1, <3>2, CallStep
  <2>3. (PermissionInChain <=>
            /\ \A p \in DOMAIN receipts : Permitted(p, receipts[p].at)
            /\ \A c \in Sessions :
                  calls[c] # Idle => Permitted(calls[c].proposal, calls[c].at))'
    BY PermissionFolds, PTL
  <2>4. \A p \in DOMAIN receipts' : Permitted(p, receipts[p].at)'
    BY <2>1 DEF Permitted, AllowedAt
  <2>5. \A c \in Sessions : calls'[c] # Idle => Permitted(calls[c].proposal, calls[c].at)'
    BY <2>2 DEF Permitted, AllowedAt
  <2> QED
    BY <2>3, <2>4, <2>5, StopStep
<1> QED
  BY <1>1, <1>2, TypeCorrect, PTL DEF Spec

\* After an emergency stop nothing is admitted or simulated any more, no event of
\* the chain says otherwise, and a call that was on the network when the stop came
\* ends as failed or cancelled: the runner asks again before it believes an answer.
THEOREM StopIsInert == Spec => StoppedIsInert
<1>1. Init => PermissionInChain /\ StoppedIsPaused
  BY DEF Init, PermissionInChain, StoppedIsPaused
<1>2. TypeOK /\ StoppedIsPaused /\ [Next]_vars => StoppedIsPaused'
  BY StopStep
<1>3. TypeOK /\ StoppedIsPaused /\ PermissionInChain /\ [Next]_vars =>
          [\A e \in emergency_stops :
              /\ \A i \in DOMAIN audit' \ DOMAIN audit :
                    audit'[i].engagement = e => audit'[i].type \in InertEvents
              /\ \A p \in DOMAIN receipts' :
                    p.engagement = e /\ (p \notin DOMAIN receipts \/ receipts'[p] # receipts[p])
                        => receipts'[p].status \in {"failed", "cancelled"}]_vars
  <2> SUFFICES ASSUME TypeOK, StoppedIsPaused, PermissionInChain, [Next]_vars,
                      NEW e \in emergency_stops
               PROVE  /\ \A i \in DOMAIN audit' \ DOMAIN audit :
                            audit'[i].engagement = e => audit'[i].type \in InertEvents
                      /\ \A p \in DOMAIN receipts' :
                            p.engagement = e
                                /\ (p \notin DOMAIN receipts \/ receipts'[p] # receipts[p])
                                => receipts'[p].status \in {"failed", "cancelled"}
    OBVIOUS
  <2>1. \A i \in DOMAIN audit' \ DOMAIN audit :
            audit'[i].engagement = e => audit'[i].type \in InertEvents
    BY ChainGrows DEF Inert
  <2>2. ASSUME NEW p \in DOMAIN receipts', p.engagement = e,
               p \notin DOMAIN receipts \/ receipts'[p] # receipts[p]
        PROVE  receipts'[p].status \in {"failed", "cancelled"}
    <3>1. PICK q, outcome, at :
              /\ receipts' = Put(receipts, q, [status |-> outcome, at |-> at])
              /\ q.engagement \in emergency_stops => outcome \in {"failed", "cancelled"}
      BY <2>2, ReceiptStep
    <3>2. q = p /\ receipts'[p].status = outcome
      BY <2>2, <3>1 DEF Put
    <3> QED
      BY <2>2, <3>1, <3>2
  <2> QED
    BY <2>1, <2>2
<1> QED
  BY <1>1, <1>2, <1>3, TypeCorrect, ResultsArePermitted, PTL DEF Spec, StoppedIsInert
=============================================================================
