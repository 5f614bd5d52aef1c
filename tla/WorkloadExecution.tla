-------------------------- MODULE WorkloadExecution --------------------------
(***************************************************************************)
(* Executions by an isolated worker: leases issued for one-time account    *)
(* grants, the ledger of consumed grants, and the calls that check the     *)
(* emergency stop, consume the grant, have the worker send one request,    *)
(* check the emergency stop again and verify the worker's signed envelope. *)
(*                                                                         *)
(* The state behind emergency_stop_supplier, the policy decisions and the  *)
(* worker are not part of this code: they move on their own.  A worker     *)
(* signs one envelope for a request, with what it observed, and answers a  *)
(* call with any envelope it has signed, or fails.  The process of a call  *)
(* may die at any step: the call then takes no further step, and another   *)
(* one may try with the same lease.                                        *)
(***************************************************************************)
EXTENDS Naturals, FiniteSets, Sequences, SequencesExt

CONSTANTS
    Calls,          \* calls of execute_with_isolated_worker
    Grants,         \* one-time test-account grants, by digest
    Times,          \* what callers pass as `now`, and the worker's clock
    GrantExpires,   \* [Grants -> when the grant expires]
    IdentityExpires,\* when the worker's identity attestation expires
    WindowEnd,      \* the engagement's window_end
    MaxLease,       \* the longest lifetime of a lease, in ticks
    MaxLeases,      \* bounds for TLC: leases,
    MaxStops,       \*   changes of the emergency stop,
    MaxDecisions    \*   and policy decisions

\* A lease names the grant it consumes and the generation of the emergency stop
\* it was issued in; the other digests in it are those of the inputs.
Lease == [grant: Grants, generation: Nat, issued_at: Times, expires_at: Nat]

\* What the supplier returns; its digest covers the time of the last change.
Stop == [generation: Nat, stopped: BOOLEAN, changed_at: Nat]

Decision == [allowed: BOOLEAN, decided_at: Nat]

Envelope == [lease: Lease, stop: Stop, peer_allowed: BOOLEAN, started: Times, finished: Times]

ASSUME WorkloadAssumptions ==
    /\ Times \subseteq Nat
    /\ GrantExpires \in [Grants -> Nat]
    /\ {IdentityExpires, WindowEnd, MaxLease, MaxLeases, MaxStops, MaxDecisions} \subseteq Nat

VARIABLES
    stop,       \* the emergency stop's state at its supplier
    decisions,  \* the policy engine's decisions on the proposal, in order
    leases,     \* the leases that were issued
    consumed,   \* the ledger: the lease each consumed grant was consumed for
    requests,   \* the lease of every request the worker was asked for, in order
    envelopes,  \* the envelopes the worker has signed
    calls,      \* where each call stands
    interrupted \* history: the calls during which the emergency stop changed

vars == <<stop, decisions, leases, consumed, requests, envelopes, calls, interrupted>>

Idle == [phase |-> "idle"]

Init ==
    /\ stop = [generation |-> 1, stopped |-> FALSE, changed_at |-> 0]
    /\ decisions = <<>>
    /\ leases = {}
    /\ consumed = <<>>
    /\ requests = <<>>
    /\ envelopes = {}
    /\ calls = [c \in Calls |-> Idle]
    /\ interrupted = {}

Waiting == {"checked", "consumed", "invoked", "answered"}
Ledgered == {"consumed", "invoked", "answered", "trusted"}

-----------------------------------------------------------------------------
(* The emergency stop and the policy engine, as this code sees them *)

\* The generation is only promised to be monotonic; the time always advances.
change_stop(generation, stopped) ==
    /\ stop.changed_at < MaxStops
    /\ generation >= stop.generation
    /\ stop' = [generation |-> generation, stopped |-> stopped,
                changed_at |-> stop.changed_at + 1]
    /\ interrupted' = interrupted \cup {c \in Calls : calls[c].phase \in Waiting}
    /\ UNCHANGED <<decisions, leases, consumed, requests, envelopes, calls>>

decide(allowed) ==
    /\ Len(decisions) < MaxDecisions
    /\ decisions' = Append(decisions, [allowed |-> allowed, decided_at |-> Len(decisions)])
    /\ UNCHANGED <<stop, leases, consumed, requests, envelopes, calls, interrupted>>

-----------------------------------------------------------------------------
(* Leases *)

\* Everything else these inputs are checked for is bound by digest or static.
_validate_execution_inputs(decision, grant, state, now) ==
    /\ now < WindowEnd
    /\ decision.allowed
    /\ now < GrantExpires[grant]
    /\ ~state.stopped

outlived(grant, expires) ==
    expires > IdentityExpires \/ expires > GrantExpires[grant] \/ expires > WindowEnd

build_execution_lease(decision, grant, issued, expires) ==
    /\ Cardinality(leases) < MaxLeases
    /\ _validate_execution_inputs(decision, grant, stop, issued)
    /\ ~outlived(grant, expires)
    /\ issued < expires /\ expires - issued <= MaxLease
    /\ leases' = leases \cup {[grant |-> grant, generation |-> stop.generation,
                               issued_at |-> issued, expires_at |-> expires]}
    /\ UNCHANGED <<stop, decisions, consumed, requests, envelopes, calls, interrupted>>

verify_execution_lease(lease, decision, state, now) ==
    /\ _validate_execution_inputs(decision, lease.grant, state, now)
    /\ lease.generation = state.generation
    /\ lease.issued_at <= now /\ now < lease.expires_at
    /\ ~outlived(lease.grant, lease.expires_at)

-----------------------------------------------------------------------------
(* execute_with_isolated_worker *)

\* The stop is read, and everything is verified against what was read.
begin(c, lease, decision, now) ==
    /\ calls[c] = Idle
    /\ now < IdentityExpires
    /\ verify_execution_lease(lease, decision, stop, now)
    /\ calls' = [calls EXCEPT ![c] = [phase |-> "checked", lease |-> lease,
                                      decision |-> decision, stop_before |-> stop]]
    /\ UNCHANGED <<stop, decisions, leases, consumed, requests, envelopes, interrupted>>

reject(c) == calls' = [calls EXCEPT ![c] = [phase |-> "rejected"]]

\* Mutant: consumption is recorded per lease.
consumed_by_lease(lease) ==
    lease.grant \in DOMAIN consumed /\ consumed[lease.grant] = lease

already_consumed(lease) == lease.grant \in DOMAIN consumed

\* One INSERT in a transaction; the primary key refuses the second one.
consume_once(c) ==
    /\ calls[c].phase = "checked"
    /\ LET lease == calls[c].lease
       IN  \/ /\ ~already_consumed(lease)
              /\ consumed' = [g \in DOMAIN consumed \cup {lease.grant} |->
                                IF g = lease.grant THEN lease ELSE consumed[g]]
              /\ calls' = [calls EXCEPT ![c].phase = "consumed"]
           \/ /\ already_consumed(lease)
              /\ reject(c)
              /\ UNCHANGED consumed
    /\ UNCHANGED <<stop, decisions, leases, requests, envelopes, interrupted>>

\* worker_provider.execute: from here the request may reach its target.
invoke(c) ==
    /\ calls[c].phase = "consumed"
    /\ requests' = Append(requests, calls[c].lease)
    /\ calls' = [calls EXCEPT ![c].phase = "invoked"]
    /\ UNCHANGED <<stop, decisions, leases, consumed, envelopes, interrupted>>

\* The worker performs the request and signs what it saw.
sign(c, peer_allowed, started, finished) ==
    /\ calls[c].phase = "invoked"
    /\ started <= finished
    /\ \A e \in envelopes : e.lease # calls[c].lease
    /\ envelopes' = envelopes \cup
          {[lease |-> calls[c].lease, stop |-> calls[c].stop_before,
            peer_allowed |-> peer_allowed, started |-> started, finished |-> finished]}
    /\ UNCHANGED <<stop, decisions, leases, consumed, requests, calls, interrupted>>

answer(c, envelope) ==
    /\ calls[c].phase = "invoked"
    /\ calls' = [calls EXCEPT ![c] =
          [phase |-> "answered", lease |-> @.lease, decision |-> @.decision,
           stop_before |-> @.stop_before, envelope |-> envelope]]
    /\ UNCHANGED <<stop, decisions, leases, consumed, requests, envelopes, interrupted>>

\* The provider raises; the grant stays consumed.
worker_fails(c) ==
    /\ calls[c].phase = "invoked"
    /\ reject(c)
    /\ UNCHANGED <<stop, decisions, leases, consumed, requests, envelopes, interrupted>>

\* Mutant: the stop is only asked whether it is active.
not_stopped(before) == ~stop.stopped

undisturbed(before) == stop = before /\ ~stop.stopped

\* Mutant: the envelope is not compared with the lease of this call.
any_signed_worker_result(envelope, lease, before) ==
    /\ envelope.stop = before
    /\ envelope.peer_allowed
    /\ envelope.started >= lease.issued_at
    /\ envelope.finished <= lease.expires_at

verify_signed_worker_result(envelope, lease, before) ==
    /\ envelope.lease = lease
    /\ envelope.stop = before
    /\ envelope.peer_allowed
    /\ envelope.started >= lease.issued_at
    /\ envelope.finished <= lease.expires_at

finish(c) ==
    /\ calls[c].phase = "answered"
    /\ \/ /\ undisturbed(calls[c].stop_before)
          /\ verify_signed_worker_result(calls[c].envelope, calls[c].lease,
                                         calls[c].stop_before)
          /\ calls' = [calls EXCEPT ![c] = [phase |-> "trusted", lease |-> @.lease,
                                            envelope |-> @.envelope]]
       \/ /\ ~ (undisturbed(calls[c].stop_before)
                /\ verify_signed_worker_result(calls[c].envelope, calls[c].lease,
                                               calls[c].stop_before))
          /\ reject(c)
    /\ UNCHANGED <<stop, decisions, leases, consumed, requests, envelopes, interrupted>>

-----------------------------------------------------------------------------
Next ==
    \/ \E stopped \in BOOLEAN, n \in {0, 1} : change_stop(stop.generation + n, stopped)
    \/ \E allowed \in BOOLEAN : decide(allowed)
    \/ \E i \in DOMAIN decisions, grant \in Grants, issued \in Times, expires \in Times :
          build_execution_lease(decisions[i], grant, issued, expires)
    \/ \E c \in Calls :
          \/ \E lease \in leases, i \in DOMAIN decisions, now \in Times :
                begin(c, lease, decisions[i], now)
          \/ consume_once(c)
          \/ invoke(c)
          \/ \E peer_allowed \in BOOLEAN, started, finished \in Times :
                sign(c, peer_allowed, started, finished)
          \/ \E envelope \in envelopes : answer(c, envelope)
          \/ worker_fails(c)
          \/ finish(c)

Spec == Init /\ [][Next]_vars

-----------------------------------------------------------------------------
(* Properties *)

Call ==
    {Idle, [phase |-> "rejected"]}
    \cup [phase: {"checked", "consumed", "invoked"},
          lease: Lease, decision: Decision, stop_before: Stop]
    \cup [phase: {"answered"}, lease: Lease, decision: Decision, stop_before: Stop,
          envelope: Envelope]
    \cup [phase: {"trusted"}, lease: Lease, envelope: Envelope]

\* Well-typed: leases are used, consumed and requested after they were issued,
\* and a call that is past the ledger has its grant in it.
TypeOK ==
    /\ stop \in Stop
    /\ decisions \in Seq(Decision)
    /\ leases \subseteq Lease
    /\ consumed \in [DOMAIN consumed -> leases]
    /\ DOMAIN consumed \subseteq Grants
    /\ requests \in Seq(leases)
    /\ envelopes \subseteq Envelope
    /\ calls \in [Calls -> Call]
    /\ interrupted \subseteq Calls
    /\ \A c \in Calls :
          /\ calls[c].phase \in Waiting \cup {"trusted"} => calls[c].lease \in leases
          /\ calls[c].phase \in Ledgered => calls[c].lease.grant \in DOMAIN consumed

\* A grant lets at most one request reach the worker, whatever leases were
\* issued for it, whichever calls race on it, fail, die or are tried again
\* (consume_once comes before the worker is invoked).
OneRequestPerGrant ==
    \A i, j \in DOMAIN requests : requests[i].grant = requests[j].grant => i = j

\* A result is only trusted when the emergency stop did not change between the
\* first and the last look at it: not even when it was set and cleared again.
TrustedWereUndisturbed ==
    \A c \in Calls : calls[c].phase = "trusted" => c \notin interrupted

\* A trusted result answers its own request: no two calls trust one envelope,
\* its lease is the one that consumed the grant, and the worker was asked for it.
TrustedAnswersOwnRequest ==
    \A c \in Calls : calls[c].phase = "trusted" =>
        /\ consumed[calls[c].lease.grant] = calls[c].envelope.lease
        /\ calls[c].envelope.lease \in {requests[i] : i \in DOMAIN requests}
        /\ \A d \in Calls \ {c} :
              calls[d].phase = "trusted" => calls[d].envelope # calls[c].envelope

\* docs/WORKLOAD_EXECUTION.md: stale-policy artifacts fail closed.  An execution
\* would then not begin after the policy engine has denied the proposal; but
\* nothing compares the decision handed in with the time or with a later one.
StalePolicyFailsClosed ==
    [][\A c \in Calls : calls[c] = Idle /\ calls'[c] # Idle =>
          Last(decisions).allowed]_vars
=============================================================================
