----------------------- MODULE WorkloadExecutionProofs -----------------------
(***************************************************************************)
(* Proofs about WorkloadExecution for any numbers of calls, grants and     *)
(* leases, and any clock: types, and what one-time grants and trusted      *)
(* results promise.                                                        *)
(***************************************************************************)
EXTENDS WorkloadExecution, TLAPS

\* What a call that waits for its worker remembers.
Working == [phase: {"checked", "consumed", "invoked"},
            lease: Lease, decision: Decision, stop_before: Stop]

Answered == [phase: {"answered"}, lease: Lease, decision: Decision, stop_before: Stop,
             envelope: Envelope]

Trusted == [phase: {"trusted"}, lease: Lease, envelope: Envelope]

LEMMA CallShapes ==
    ASSUME NEW k \in Call
    PROVE  /\ k.phase \in {"idle", "rejected", "checked", "consumed", "invoked",
                           "answered", "trusted"}
           /\ k.phase = "idle" <=> k = Idle
           /\ k.phase \in {"checked", "consumed", "invoked"} => k \in Working
           /\ k.phase = "answered" => k \in Answered
           /\ k.phase = "trusted" => k \in Trusted
  BY DEF Call, Idle, Working, Answered, Trusted

LEMMA ShapesOfCalls ==
    /\ Idle \in Call
    /\ [phase |-> "rejected"] \in Call
    /\ Working \subseteq Call
    /\ Answered \subseteq Call
    /\ Trusted \subseteq Call
  BY DEF Call, Working, Answered, Trusted


\* The conjuncts of TypeOK about what calls hold.
Holdings ==
    \A c \in Calls :
       /\ calls[c].phase \in Waiting \cup {"trusted"} => calls[c].lease \in leases
       /\ calls[c].phase \in Ledgered => calls[c].lease.grant \in DOMAIN consumed

LEMMA InitTypes == Init => TypeOK
<1> SUFFICES ASSUME Init PROVE TypeOK
  OBVIOUS
<1>1. Idle \in Call /\ Idle.phase = "idle"
  BY ShapesOfCalls DEF Idle
<1>2. calls \in [Calls -> Call]
  BY <1>1 DEF Init
<1>3. Holdings
  BY <1>1 DEF Init, Holdings, Waiting, Ledgered
<1>4. decisions \in Seq(Decision) /\ requests \in Seq(leases)
  BY DEF Init
<1>5. consumed \in [DOMAIN consumed -> leases] /\ DOMAIN consumed \subseteq Grants
  BY DEF Init
<1> QED
  BY <1>2, <1>3, <1>4, <1>5 DEF Init, TypeOK, Stop, Holdings

\* A call that changes from one phase to another keeps what it holds, and no
\* other variable but the calls changes.
LEMMA CallMoves ==
    ASSUME TypeOK, NEW c \in Calls, NEW k \in Call,
           calls' = [calls EXCEPT ![c] = k],
           UNCHANGED <<stop, decisions, leases, consumed, requests, envelopes, interrupted>>,
           k.phase \in Waiting \cup {"trusted"} => k.lease \in leases,
           k.phase \in Ledgered => k.lease.grant \in DOMAIN consumed
    PROVE  TypeOK'
<1>1. calls' \in [Calls -> Call]
  BY DEF TypeOK
<1>2. Holdings'
  BY DEF TypeOK, Holdings
<1> QED
  BY <1>1, <1>2 DEF TypeOK, Holdings

\* A rejected call holds nothing.
LEMMA Rejected ==
    ASSUME TypeOK, NEW c \in Calls, reject(c),
           UNCHANGED <<stop, decisions, leases, consumed, requests, envelopes, interrupted>>
    PROVE  TypeOK'
<1> DEFINE k == [phase |-> "rejected"]
<1>1. k \in Call /\ k.phase = "rejected"
  BY ShapesOfCalls
<1>2. calls' = [calls EXCEPT ![c] = k]
  BY DEF reject
<1>3. k.phase \notin Waiting \cup {"trusted"} /\ k.phase \notin Ledgered
  BY <1>1 DEF Waiting, Ledgered
<1> HIDE DEF k
<1> QED
  BY <1>1, <1>2, <1>3, CallMoves

\* Every state is well-typed, and a call holds an issued lease and, past the
\* ledger, a consumed grant.
THEOREM TypeCorrect == Spec => []TypeOK
<1>1. TypeOK /\ [Next]_vars => TypeOK'
  <2> SUFFICES ASSUME TypeOK, [Next]_vars PROVE TypeOK'
    OBVIOUS
  <2> USE WorkloadAssumptions
  <2>1. ASSUME NEW stopped \in BOOLEAN, NEW n \in {0, 1},
               change_stop(stop.generation + n, stopped)
        PROVE  TypeOK'
    BY <2>1 DEF TypeOK, change_stop, Stop
  <2>2. ASSUME NEW allowed \in BOOLEAN, decide(allowed)
        PROVE  TypeOK'
    <3>1. [allowed |-> allowed, decided_at |-> Len(decisions)] \in Decision
      BY DEF TypeOK, Decision
    <3>2. decisions' \in Seq(Decision)
      BY <2>2, <3>1 DEF TypeOK, decide
    <3> QED
      BY <2>2, <3>2 DEF TypeOK, decide
  <2>3. ASSUME NEW i \in DOMAIN decisions, NEW grant \in Grants, NEW issued \in Times,
               NEW expires \in Times,
               build_execution_lease(decisions[i], grant, issued, expires)
        PROVE  TypeOK'
    <3>1. [grant |-> grant, generation |-> stop.generation,
           issued_at |-> issued, expires_at |-> expires] \in Lease
      BY DEF TypeOK, Lease, Stop
    <3>2. leases \subseteq leases' /\ leases' \subseteq Lease
      BY <2>3, <3>1 DEF TypeOK, build_execution_lease
    <3>3. requests' \in Seq(leases')
      BY <2>3, <3>2 DEF TypeOK, build_execution_lease
    <3>4. consumed' \in [DOMAIN consumed' -> leases']
      BY <2>3, <3>2 DEF TypeOK, build_execution_lease
    <3> QED
      BY <2>3, <3>2, <3>3, <3>4 DEF TypeOK, build_execution_lease
  <2>4. ASSUME NEW c \in Calls, NEW lease \in leases, NEW i \in DOMAIN decisions,
               NEW now \in Times, begin(c, lease, decisions[i], now)
        PROVE  TypeOK'
    <3> DEFINE k == [phase |-> "checked", lease |-> lease, decision |-> decisions[i],
                     stop_before |-> stop]
    <3>1. k \in Call
      <4>1. k \in Working
        BY DEF TypeOK, Working
      <4> QED
        BY <4>1, ShapesOfCalls
    <3>2. k.phase = "checked" /\ k.lease = lease
      OBVIOUS
    <3>3. calls' = [calls EXCEPT ![c] = k]
      BY <2>4 DEF begin
    <3>4. UNCHANGED <<stop, decisions, leases, consumed, requests, envelopes, interrupted>>
      BY <2>4 DEF begin
    <3> HIDE DEF k
    <3>5. k.phase \notin Ledgered /\ k.lease \in leases
      BY <3>2 DEF Ledgered
    <3> QED
      BY <3>1, <3>3, <3>4, <3>5, CallMoves
  <2>5. ASSUME NEW c \in Calls, consume_once(c)
        PROVE  TypeOK'
    <3> DEFINE k == calls[c]
    <3>1. k \in Working /\ k.phase = "checked" /\ k.lease \in leases
      BY <2>5, CallShapes DEF TypeOK, consume_once, Waiting
    <3>2. CASE already_consumed(k.lease)
      BY <2>5, <3>2, Rejected DEF consume_once
    <3>3. CASE ~already_consumed(k.lease)
      <4>1. /\ consumed' = [g \in DOMAIN consumed \cup {k.lease.grant} |->
                              IF g = k.lease.grant THEN k.lease ELSE consumed[g]]
            /\ calls' = [calls EXCEPT ![c].phase = "consumed"]
        BY <2>5, <3>3 DEF consume_once
      <4>2. k.lease.grant \in Grants
        BY <3>1 DEF Working, Lease
      <4>3. [k EXCEPT !.phase = "consumed"] \in Call
        <5>1. [k EXCEPT !.phase = "consumed"] \in Working
          BY <3>1 DEF Working
        <5> QED
          BY <5>1, ShapesOfCalls
      <4>4. calls' \in [Calls -> Call]
        BY <4>1, <4>3 DEF TypeOK
      <4>5. calls'[c].lease = k.lease
        BY <3>1, <4>1 DEF TypeOK, Working
      <4>6. consumed' \in [DOMAIN consumed' -> leases] /\ DOMAIN consumed' \subseteq Grants
        BY <3>1, <4>1, <4>2 DEF TypeOK
      <4>7. leases' = leases
        BY <2>5 DEF consume_once
      <4>8. Holdings'
        BY <3>1, <4>1, <4>5, <4>7 DEF TypeOK, Holdings
      <4> QED
        BY <2>5, <4>4, <4>6, <4>7, <4>8 DEF TypeOK, consume_once, Holdings
    <3> QED
      BY <3>2, <3>3
  <2>6. ASSUME NEW c \in Calls, invoke(c)
        PROVE  TypeOK'
    <3> DEFINE k == calls[c]
    <3>1. k \in Working /\ k.phase = "consumed" /\ k.lease \in leases
      BY <2>6, CallShapes DEF TypeOK, invoke, Waiting
    <3>2. k.lease.grant \in DOMAIN consumed
      BY <3>1 DEF TypeOK, Ledgered
    <3>3. [k EXCEPT !.phase = "invoked"] \in Call
      <4>1. [k EXCEPT !.phase = "invoked"] \in Working
        BY <3>1 DEF Working
      <4> QED
        BY <4>1, ShapesOfCalls
    <3>4. calls' \in [Calls -> Call] /\ calls'[c].lease = k.lease
      BY <2>6, <3>1, <3>3 DEF TypeOK, invoke, Working
    <3>5. Holdings'
      BY <2>6, <3>1, <3>2, <3>4 DEF TypeOK, Holdings, invoke
    <3>6. requests' \in Seq(leases')
      BY <2>6, <3>1 DEF TypeOK, invoke
    <3> QED
      BY <2>6, <3>4, <3>5, <3>6 DEF TypeOK, Holdings, invoke
  <2>7. ASSUME NEW c \in Calls, NEW peer_allowed \in BOOLEAN, NEW started \in Times,
               NEW finished \in Times, sign(c, peer_allowed, started, finished)
        PROVE  TypeOK'
    <3>1. calls[c] \in Working
      BY <2>7, CallShapes DEF TypeOK, sign
    <3>2. [lease |-> calls[c].lease, stop |-> calls[c].stop_before,
           peer_allowed |-> peer_allowed, started |-> started, finished |-> finished]
          \in Envelope
      BY <3>1 DEF Working, Envelope
    <3>3. envelopes' \subseteq Envelope
      BY <2>7, <3>2 DEF TypeOK, sign
    <3> QED
      BY <2>7, <3>3 DEF TypeOK, sign
  <2>8. ASSUME NEW c \in Calls, NEW envelope \in envelopes, answer(c, envelope)
        PROVE  TypeOK'
    <3> DEFINE k == [phase |-> "answered", lease |-> calls[c].lease,
                     decision |-> calls[c].decision,
                     stop_before |-> calls[c].stop_before, envelope |-> envelope]
    <3>1. calls[c] \in Working /\ calls[c].phase = "invoked" /\ calls[c].lease \in leases
      BY <2>8, CallShapes DEF TypeOK, answer, Waiting
    <3>2. calls[c].lease.grant \in DOMAIN consumed
      BY <3>1 DEF TypeOK, Ledgered
    <3>3. k \in Call
      <4>1. k \in Answered
        BY <3>1 DEF TypeOK, Working, Answered
      <4> QED
        BY <4>1, ShapesOfCalls
    <3>4. calls' = [calls EXCEPT ![c] = k]
      BY <2>8 DEF answer, TypeOK
    <3>5. k.lease = calls[c].lease
      OBVIOUS
    <3>6. UNCHANGED <<stop, decisions, leases, consumed, requests, envelopes, interrupted>>
      BY <2>8 DEF answer
    <3> HIDE DEF k
    <3> QED
      BY <3>1, <3>2, <3>3, <3>4, <3>5, <3>6, CallMoves
  <2>9. ASSUME NEW c \in Calls, worker_fails(c)
        PROVE  TypeOK'
    BY <2>9, Rejected DEF worker_fails
  <2>10. ASSUME NEW c \in Calls, finish(c)
         PROVE  TypeOK'
    <3> DEFINE k == [phase |-> "trusted", lease |-> calls[c].lease,
                     envelope |-> calls[c].envelope]
    <3>1. calls[c] \in Answered /\ calls[c].phase = "answered" /\ calls[c].lease \in leases
      BY <2>10, CallShapes DEF TypeOK, finish, Waiting
    <3>2. calls[c].lease.grant \in DOMAIN consumed
      BY <3>1 DEF TypeOK, Ledgered
    <3>3. k \in Call
      <4>1. k \in Trusted
        BY <3>1 DEF Answered, Trusted
      <4> QED
        BY <4>1, ShapesOfCalls
    <3>4. UNCHANGED <<stop, decisions, leases, consumed, requests, envelopes, interrupted>>
      BY <2>10 DEF finish
    <3>5. CASE reject(c)
      BY <3>4, <3>5, Rejected
    <3>6. CASE calls' = [calls EXCEPT ![c] = k]
      <4>1. k.lease = calls[c].lease
        OBVIOUS
      <4> HIDE DEF k
      <4> QED
        BY <3>1, <3>2, <3>3, <3>4, <3>6, <4>1, CallMoves
    <3> QED
      BY <2>10, <3>5, <3>6 DEF finish
  <2>11. CASE UNCHANGED vars
    BY <2>11 DEF TypeOK, vars
  <2> QED
    BY <2>1, <2>2, <2>3, <2>4, <2>5, <2>6, <2>7, <2>8, <2>9, <2>10, <2>11 DEF Next
<1> QED
  BY <1>1, InitTypes, PTL DEF Spec

-----------------------------------------------------------------------------
(* What an action on one call does to the calls *)

LEMMA Rejecting ==
    ASSUME TypeOK, NEW c \in Calls, reject(c)
    PROVE  /\ calls'[c].phase = "rejected"
           /\ \A d \in Calls \ {c} : calls'[d] = calls[d]
  BY DEF TypeOK, reject

LEMMA Beginning ==
    ASSUME TypeOK, NEW c \in Calls, NEW lease \in leases, NEW i \in DOMAIN decisions,
           NEW now \in Times, begin(c, lease, decisions[i], now)
    PROVE  /\ calls[c].phase = "idle"
           /\ calls'[c].phase = "checked"
           /\ calls'[c].lease = lease
           /\ calls'[c].stop_before = stop
           /\ \A d \in Calls \ {c} : calls'[d] = calls[d]
  BY CallShapes DEF TypeOK, begin, Idle

LEMMA Consuming ==
    ASSUME TypeOK, NEW c \in Calls, consume_once(c), ~reject(c)
    PROVE  /\ calls[c].phase = "checked"
           /\ calls'[c].phase = "consumed"
           /\ calls'[c].lease = calls[c].lease
           /\ calls'[c].stop_before = calls[c].stop_before
           /\ calls[c].lease.grant \notin DOMAIN consumed
           /\ DOMAIN consumed' = DOMAIN consumed \cup {calls[c].lease.grant}
           /\ consumed'[calls[c].lease.grant] = calls[c].lease
           /\ \A g \in DOMAIN consumed : consumed'[g] = consumed[g]
           /\ \A d \in Calls \ {c} : calls'[d] = calls[d]
<1> DEFINE k == calls[c]
<1>1. k \in Working /\ k.phase = "checked"
  BY CallShapes DEF TypeOK, consume_once
<1>2. /\ k.lease.grant \notin DOMAIN consumed
      /\ consumed' = [g \in DOMAIN consumed \cup {k.lease.grant} |->
                        IF g = k.lease.grant THEN k.lease ELSE consumed[g]]
      /\ calls' = [calls EXCEPT ![c].phase = "consumed"]
  BY DEF consume_once, already_consumed
<1> QED
  BY <1>1, <1>2 DEF TypeOK, Working

LEMMA Invoking ==
    ASSUME TypeOK, NEW c \in Calls, invoke(c)
    PROVE  /\ calls[c].phase = "consumed"
           /\ calls'[c].phase = "invoked"
           /\ calls'[c].lease = calls[c].lease
           /\ calls'[c].stop_before = calls[c].stop_before
           /\ DOMAIN requests' = DOMAIN requests \cup {Len(requests) + 1}
           /\ requests'[Len(requests) + 1] = calls[c].lease
           /\ \A i \in DOMAIN requests : requests'[i] = requests[i]
           /\ \A d \in Calls \ {c} : calls'[d] = calls[d]
<1> DEFINE k == calls[c]
<1>1. k \in Working /\ k.phase = "consumed" /\ k.lease \in leases
  BY CallShapes DEF TypeOK, invoke, Waiting
<1>2. requests' = Append(requests, k.lease) /\ requests \in Seq(leases)
  BY DEF TypeOK, invoke
<1>3. calls' = [calls EXCEPT ![c].phase = "invoked"]
  BY DEF invoke
<1>4. /\ DOMAIN requests' = DOMAIN requests \cup {Len(requests) + 1}
      /\ requests'[Len(requests) + 1] = k.lease
      /\ \A i \in DOMAIN requests : requests'[i] = requests[i]
  BY <1>1, <1>2
<1> QED
  BY <1>1, <1>3, <1>4 DEF TypeOK, Working

LEMMA Answering ==
    ASSUME TypeOK, NEW c \in Calls, NEW envelope \in envelopes, answer(c, envelope)
    PROVE  /\ calls[c].phase = "invoked"
           /\ calls'[c].phase = "answered"
           /\ calls'[c].lease = calls[c].lease
           /\ calls'[c].stop_before = calls[c].stop_before
           /\ \A d \in Calls \ {c} : calls'[d] = calls[d]
  BY DEF TypeOK, answer

LEMMA Finishing ==
    ASSUME TypeOK, NEW c \in Calls, finish(c), ~reject(c)
    PROVE  /\ calls[c].phase = "answered"
           /\ calls'[c].phase = "trusted"
           /\ calls'[c].lease = calls[c].lease
           /\ calls'[c].envelope.lease = calls[c].lease
           /\ stop = calls[c].stop_before
           /\ \A d \in Calls \ {c} : calls'[d] = calls[d]
<1>1. /\ undisturbed(calls[c].stop_before)
      /\ verify_signed_worker_result(calls[c].envelope, calls[c].lease,
                                     calls[c].stop_before)
      /\ calls' = [calls EXCEPT ![c] = [phase |-> "trusted", lease |-> calls[c].lease,
                                        envelope |-> calls[c].envelope]]
  BY DEF finish, TypeOK
<1> QED
  BY <1>1 DEF TypeOK, finish, undisturbed, verify_signed_worker_result

-----------------------------------------------------------------------------
(* One request per grant, and trusted answers *)

\* A consumed grant belongs to one call: the ledger names its lease, ...
LedgerNamesLease ==
    \A c \in Calls : calls[c].phase \in Ledgered =>
       consumed[calls[c].lease.grant] = calls[c].lease

\* ... and no other call is past the ledger with it.
GrantsAreOwned ==
    \A c, d \in Calls :
       /\ calls[c].phase \in Ledgered
       /\ calls[d].phase \in Ledgered
       /\ calls[c].lease.grant = calls[d].lease.grant
       => c = d

\* What was requested was consumed, by a call that will not ask again.
RequestsWereConsumed ==
    \A i \in DOMAIN requests :
       /\ requests[i].grant \in DOMAIN consumed
       /\ \A c \in Calls : calls[c].phase = "consumed" =>
             requests[i].grant # calls[c].lease.grant

\* A call that is past the worker has made its request.
InvokedWereRequested ==
    \A c \in Calls : calls[c].phase \in {"invoked", "answered", "trusted"} =>
       \E i \in DOMAIN requests : requests[i] = calls[c].lease

TrustedNameTheirLease ==
    \A c \in Calls : calls[c].phase = "trusted" =>
       calls[c].envelope.lease = calls[c].lease

GrantInv ==
    /\ LedgerNamesLease
    /\ GrantsAreOwned
    /\ RequestsWereConsumed
    /\ InvokedWereRequested
    /\ TrustedNameTheirLease
    /\ OneRequestPerGrant

\* An action that leaves the ledger, the requests and every call past the ledger
\* as they are, and moves no call past it, preserves the invariant.
LEMMA GrantInvUndisturbed ==
    ASSUME GrantInv, UNCHANGED <<consumed, requests>>,
           \A c \in Calls : calls'[c] = calls[c] \/ calls'[c].phase \notin Ledgered
    PROVE  GrantInv'
<1> USE DEF GrantInv, Ledgered
<1>1. LedgerNamesLease'
  BY DEF LedgerNamesLease
<1>2. GrantsAreOwned'
  BY DEF GrantsAreOwned
<1>3. RequestsWereConsumed'
  BY DEF RequestsWereConsumed
<1>4. InvokedWereRequested'
  BY DEF InvokedWereRequested
<1>5. TrustedNameTheirLease'
  BY DEF TrustedNameTheirLease
<1>6. OneRequestPerGrant'
  BY DEF OneRequestPerGrant
<1> QED
  BY <1>1, <1>2, <1>3, <1>4, <1>5, <1>6

LEMMA GrantInvInductive == TypeOK /\ GrantInv /\ [Next]_vars => GrantInv'
<1> SUFFICES ASSUME TypeOK, GrantInv, [Next]_vars PROVE GrantInv'
  OBVIOUS
<1>1. ASSUME NEW stopped \in BOOLEAN, NEW n \in {0, 1},
             change_stop(stop.generation + n, stopped)
      PROVE  GrantInv'
  BY <1>1, GrantInvUndisturbed DEF change_stop
<1>2. ASSUME NEW allowed \in BOOLEAN, decide(allowed)
      PROVE  GrantInv'
  BY <1>2, GrantInvUndisturbed DEF decide
<1>3. ASSUME NEW i \in DOMAIN decisions, NEW grant \in Grants, NEW issued \in Times,
             NEW expires \in Times,
             build_execution_lease(decisions[i], grant, issued, expires)
      PROVE  GrantInv'
  BY <1>3, GrantInvUndisturbed DEF build_execution_lease
<1>4. ASSUME NEW c \in Calls, NEW lease \in leases, NEW i \in DOMAIN decisions,
             NEW now \in Times, begin(c, lease, decisions[i], now)
      PROVE  GrantInv'
  <2>1. calls'[c].phase \notin Ledgered /\ \A d \in Calls \ {c} : calls'[d] = calls[d]
    BY <1>4, Beginning DEF Ledgered
  <2> QED
    BY <1>4, <2>1, GrantInvUndisturbed DEF begin
<1>5. ASSUME NEW c \in Calls, reject(c), UNCHANGED <<consumed, requests>>
      PROVE  GrantInv'
  <2>1. calls'[c].phase \notin Ledgered /\ \A d \in Calls \ {c} : calls'[d] = calls[d]
    BY <1>5, Rejecting DEF Ledgered
  <2> QED
    BY <1>5, <2>1, GrantInvUndisturbed
<1>6. ASSUME NEW c \in Calls, consume_once(c)
      PROVE  GrantInv'
  <2>1. CASE reject(c)
    <3>1. calls[c] \in Working /\ calls'[c].phase = "rejected"
      BY <1>6, <2>1, CallShapes, Rejecting DEF TypeOK, consume_once
    <3>2. calls' # [calls EXCEPT ![c].phase = "consumed"]
      BY <3>1 DEF TypeOK, Working
    <3>3. UNCHANGED <<consumed, requests>>
      BY <1>6, <3>2 DEF consume_once
    <3> QED
      BY <1>5, <2>1, <3>3
  <2>2. CASE ~reject(c)
    <3> PICK lease : lease = calls[c].lease
      OBVIOUS
    <3>1. /\ calls'[c].phase = "consumed"
          /\ calls'[c].lease = lease
          /\ lease.grant \notin DOMAIN consumed
          /\ DOMAIN consumed' = DOMAIN consumed \cup {lease.grant}
          /\ consumed'[lease.grant] = lease
          /\ \A g \in DOMAIN consumed : consumed'[g] = consumed[g]
          /\ \A d \in Calls \ {c} : calls'[d] = calls[d]
      BY <1>6, <2>2, Consuming
    <3>2. requests' = requests
      BY <1>6 DEF consume_once
    <3>3. \A d \in Calls : calls[d].phase \in Ledgered =>
             calls[d].lease.grant \in DOMAIN consumed
      BY DEF TypeOK
    <3>4. LedgerNamesLease'
      BY <3>1, <3>3 DEF GrantInv, LedgerNamesLease
    <3>5. GrantsAreOwned'
      BY <3>1, <3>3 DEF GrantInv, GrantsAreOwned
    <3>6. RequestsWereConsumed'
      BY <3>1, <3>2 DEF GrantInv, RequestsWereConsumed
    <3>7. InvokedWereRequested'
      BY <3>1, <3>2 DEF GrantInv, InvokedWereRequested
    <3>8. TrustedNameTheirLease'
      BY <3>1 DEF GrantInv, TrustedNameTheirLease
    <3>9. OneRequestPerGrant'
      BY <3>2 DEF GrantInv, OneRequestPerGrant
    <3> QED
      BY <3>4, <3>5, <3>6, <3>7, <3>8, <3>9 DEF GrantInv
  <2> QED
    BY <2>1, <2>2
<1>7. ASSUME NEW c \in Calls, invoke(c)
      PROVE  GrantInv'
  <2> PICK last, lease : last = Len(requests) + 1 /\ lease = calls[c].lease
    OBVIOUS
  <2>1. /\ calls[c].phase = "consumed"
        /\ calls'[c].phase = "invoked"
        /\ calls'[c].lease = lease
        /\ DOMAIN requests' = DOMAIN requests \cup {last}
        /\ requests'[last] = lease
        /\ \A i \in DOMAIN requests : requests'[i] = requests[i]
        /\ \A d \in Calls \ {c} : calls'[d] = calls[d]
    BY <1>7, Invoking
  <2>2. consumed' = consumed
    BY <1>7 DEF invoke
  <2>3. lease.grant \in DOMAIN consumed
    BY <2>1 DEF TypeOK, Ledgered
  <2>4. \A i \in DOMAIN requests : requests[i].grant # lease.grant
    BY <2>1 DEF GrantInv, RequestsWereConsumed
  <2>5. \A d \in Calls : calls[d].phase = "consumed" /\ d # c =>
           calls[d].lease.grant # lease.grant
    BY <2>1 DEF GrantInv, GrantsAreOwned, Ledgered
  <2>6. LedgerNamesLease'
    BY <2>1, <2>2 DEF GrantInv, LedgerNamesLease, Ledgered
  <2>7. GrantsAreOwned'
    BY <2>1 DEF GrantInv, GrantsAreOwned, Ledgered
  <2>8. RequestsWereConsumed'
    BY <2>1, <2>2, <2>3, <2>5 DEF GrantInv, RequestsWereConsumed
  <2>9. InvokedWereRequested'
    BY <2>1 DEF GrantInv, InvokedWereRequested
  <2>10. TrustedNameTheirLease'
    BY <2>1 DEF GrantInv, TrustedNameTheirLease
  <2>11. OneRequestPerGrant'
    BY <2>1, <2>4 DEF GrantInv, OneRequestPerGrant
  <2> QED
    BY <2>6, <2>7, <2>8, <2>9, <2>10, <2>11 DEF GrantInv
<1>8. ASSUME NEW c \in Calls, NEW peer_allowed \in BOOLEAN, NEW started \in Times,
             NEW finished \in Times, sign(c, peer_allowed, started, finished)
      PROVE  GrantInv'
  BY <1>8, GrantInvUndisturbed DEF sign
<1>9. ASSUME NEW c \in Calls, UNCHANGED <<consumed, requests>>,
             calls[c].phase \in {"invoked", "answered"},
             calls'[c].phase \in {"answered", "trusted"},
             calls'[c].lease = calls[c].lease,
             calls'[c].phase = "trusted" => calls'[c].envelope.lease = calls[c].lease,
             \A d \in Calls \ {c} : calls'[d] = calls[d]
      PROVE  GrantInv'
  <2>1. LedgerNamesLease'
    BY <1>9 DEF GrantInv, LedgerNamesLease, Ledgered
  <2>2. GrantsAreOwned'
    BY <1>9 DEF GrantInv, GrantsAreOwned, Ledgered
  <2>3. RequestsWereConsumed'
    BY <1>9 DEF GrantInv, RequestsWereConsumed
  <2>4. InvokedWereRequested'
    BY <1>9 DEF GrantInv, InvokedWereRequested
  <2>5. TrustedNameTheirLease'
    BY <1>9 DEF GrantInv, TrustedNameTheirLease
  <2>6. OneRequestPerGrant'
    BY <1>9 DEF GrantInv, OneRequestPerGrant
  <2> QED
    BY <2>1, <2>2, <2>3, <2>4, <2>5, <2>6 DEF GrantInv
<1>10. ASSUME NEW c \in Calls, NEW envelope \in envelopes, answer(c, envelope)
       PROVE  GrantInv'
  <2>1. UNCHANGED <<consumed, requests>>
    BY <1>10 DEF answer
  <2> QED
    BY <1>9, <1>10, <2>1, Answering
<1>11. ASSUME NEW c \in Calls, worker_fails(c)
       PROVE  GrantInv'
  BY <1>5, <1>11 DEF worker_fails
<1>12. ASSUME NEW c \in Calls, finish(c)
       PROVE  GrantInv'
  <2>1. UNCHANGED <<consumed, requests>>
    BY <1>12 DEF finish
  <2>2. CASE reject(c)
    BY <1>5, <2>1, <2>2
  <2>3. CASE ~reject(c)
    BY <1>9, <1>12, <2>1, <2>3, Finishing
  <2> QED
    BY <2>2, <2>3
<1>13. CASE UNCHANGED vars
  BY <1>13, GrantInvUndisturbed DEF vars
<1> QED
  BY <1>1, <1>2, <1>3, <1>4, <1>6, <1>7, <1>8, <1>10, <1>11, <1>12, <1>13 DEF Next

LEMMA GrantsHold == Spec => []GrantInv
<1>1. Init => GrantInv
  <2> SUFFICES ASSUME Init PROVE GrantInv
    OBVIOUS
  <2>1. \A c \in Calls : calls[c].phase = "idle"
    BY DEF Init, Idle
  <2>2. DOMAIN requests = {}
    BY DEF Init
  <2> QED
    BY <2>1, <2>2 DEF GrantInv, LedgerNamesLease, GrantsAreOwned, RequestsWereConsumed,
                      InvokedWereRequested, TrustedNameTheirLease, OneRequestPerGrant,
                      Ledgered
<1> QED
  BY <1>1, GrantInvInductive, TypeCorrect, PTL DEF Spec

\* One request per grant, for any number of calls, leases and grants.
THEOREM OneRequest == Spec => []OneRequestPerGrant
<1>1. GrantInv => OneRequestPerGrant
  BY DEF GrantInv
<1> QED
  BY <1>1, GrantsHold, PTL

\* A trusted result answers the call's own request, and no other call trusts it.
THEOREM OwnAnswers == Spec => []TrustedAnswersOwnRequest
<1>1. GrantInv => TrustedAnswersOwnRequest
  <2> SUFFICES ASSUME GrantInv, NEW c \in Calls, calls[c].phase = "trusted"
               PROVE  /\ consumed[calls[c].lease.grant] = calls[c].envelope.lease
                      /\ calls[c].envelope.lease \in {requests[i] : i \in DOMAIN requests}
                      /\ \A d \in Calls \ {c} :
                            calls[d].phase = "trusted" => calls[d].envelope # calls[c].envelope
    BY DEF TrustedAnswersOwnRequest
  <2>1. calls[c].envelope.lease = calls[c].lease
    BY DEF GrantInv, TrustedNameTheirLease
  <2>2. consumed[calls[c].lease.grant] = calls[c].lease
    BY DEF GrantInv, LedgerNamesLease, Ledgered
  <2>3. calls[c].lease \in {requests[i] : i \in DOMAIN requests}
    BY DEF GrantInv, InvokedWereRequested
  <2>4. ASSUME NEW d \in Calls \ {c}, calls[d].phase = "trusted",
               calls[d].envelope = calls[c].envelope
        PROVE  FALSE
    <3>1. calls[d].lease = calls[c].lease
      BY <2>1, <2>4 DEF GrantInv, TrustedNameTheirLease
    <3> QED
      BY <2>4, <3>1 DEF GrantInv, GrantsAreOwned, Ledgered
  <2> QED
    BY <2>1, <2>2, <2>3, <2>4
<1> QED
  BY <1>1, GrantsHold, PTL

-----------------------------------------------------------------------------
(* Trusted results were not disturbed *)

\* A change of the emergency stop advances its time, and what a waiting call read
\* of it is older if the stop has changed since; a call that does not wait is no
\* longer, or not yet, interrupted.
StopInv ==
    \A c \in Calls :
       /\ calls[c].phase \in {"idle", "trusted"} => c \notin interrupted
       /\ calls[c].phase \in Waiting =>
             /\ calls[c].stop_before.changed_at <= stop.changed_at
             /\ c \in interrupted => calls[c].stop_before.changed_at < stop.changed_at

LEMMA StopInvUndisturbed ==
    ASSUME StopInv, NEW c \in Calls, UNCHANGED <<stop, interrupted>>,
           \A d \in Calls \ {c} : calls'[d] = calls[d],
           \/ calls'[c].phase = "rejected"
           \/ /\ calls[c].phase \in Waiting
              /\ calls'[c].phase \in Waiting
              /\ calls'[c].stop_before = calls[c].stop_before
    PROVE  StopInv'
  BY DEF StopInv, Waiting

\* A result is only trusted when the emergency stop did not change while its call
\* waited, however often it changed and whatever generation it shows.
THEOREM Undisturbed == Spec => []TrustedWereUndisturbed
<1>1. Init => StopInv
  BY DEF Init, StopInv, Idle, Waiting
<1>2. TypeOK /\ StopInv /\ [Next]_vars => StopInv'
  <2> SUFFICES ASSUME TypeOK, StopInv, [Next]_vars PROVE StopInv'
    OBVIOUS
  <2>1. ASSUME NEW stopped \in BOOLEAN, NEW n \in {0, 1},
               change_stop(stop.generation + n, stopped)
        PROVE  StopInv'
    <3>1. stop'.changed_at = stop.changed_at + 1 /\ stop.changed_at \in Nat
      BY <2>1 DEF TypeOK, change_stop, Stop
    <3>2. calls' = calls
      BY <2>1 DEF change_stop
    <3>3. interrupted' = interrupted \cup {c \in Calls : calls[c].phase \in Waiting}
      BY <2>1 DEF change_stop
    <3>4. \A c \in Calls : calls[c].phase \in Waiting =>
             calls[c].stop_before.changed_at \in Nat
      <4> TAKE c \in Calls
      <4> HAVE calls[c].phase \in Waiting
      <4>1. calls[c] \in Working \/ calls[c] \in Answered
        BY CallShapes DEF TypeOK, Waiting
      <4> QED
        BY <4>1 DEF Working, Answered, Stop
    <3> QED
      BY <3>1, <3>2, <3>3, <3>4 DEF StopInv, Waiting
  <2>2. ASSUME UNCHANGED <<stop, calls, interrupted>>
        PROVE  StopInv'
    BY <2>2 DEF StopInv
  <2>3. ASSUME NEW allowed \in BOOLEAN, decide(allowed)
        PROVE  StopInv'
    BY <2>2, <2>3 DEF decide
  <2>4. ASSUME NEW i \in DOMAIN decisions, NEW grant \in Grants, NEW issued \in Times,
               NEW expires \in Times,
               build_execution_lease(decisions[i], grant, issued, expires)
        PROVE  StopInv'
    BY <2>2, <2>4 DEF build_execution_lease
  <2>5. ASSUME NEW c \in Calls, NEW lease \in leases, NEW i \in DOMAIN decisions,
               NEW now \in Times, begin(c, lease, decisions[i], now)
        PROVE  StopInv'
    <3>1. UNCHANGED <<stop, interrupted>>
      BY <2>5 DEF begin
    <3>2. /\ calls[c].phase = "idle"
          /\ calls'[c].phase = "checked"
          /\ calls'[c].stop_before = stop
          /\ \A d \in Calls \ {c} : calls'[d] = calls[d]
      BY <2>5, Beginning
    <3>3. stop.changed_at \in Nat
      BY DEF TypeOK, Stop
    <3> QED
      BY <3>1, <3>2, <3>3 DEF StopInv, Waiting
  <2>6. ASSUME NEW c \in Calls, reject(c), UNCHANGED <<stop, interrupted>>
        PROVE  StopInv'
    BY <2>6, Rejecting, StopInvUndisturbed
  <2>7. ASSUME NEW c \in Calls, consume_once(c)
        PROVE  StopInv'
    <3>1. UNCHANGED <<stop, interrupted>>
      BY <2>7 DEF consume_once
    <3>2. CASE reject(c)
      BY <2>6, <3>1, <3>2
    <3>3. CASE ~reject(c)
      <4>1. /\ calls[c].phase \in Waiting
            /\ calls'[c].phase \in Waiting
            /\ calls'[c].stop_before = calls[c].stop_before
            /\ \A d \in Calls \ {c} : calls'[d] = calls[d]
        BY <2>7, <3>3, Consuming DEF Waiting
      <4> QED
        BY <3>1, <4>1, StopInvUndisturbed
    <3> QED
      BY <3>2, <3>3
  <2>8. ASSUME NEW c \in Calls, invoke(c)
        PROVE  StopInv'
    <3>1. UNCHANGED <<stop, interrupted>>
      BY <2>8 DEF invoke
    <3>2. /\ calls[c].phase \in Waiting
          /\ calls'[c].phase \in Waiting
          /\ calls'[c].stop_before = calls[c].stop_before
          /\ \A d \in Calls \ {c} : calls'[d] = calls[d]
      BY <2>8, Invoking DEF Waiting
    <3> QED
      BY <3>1, <3>2, StopInvUndisturbed
  <2>9. ASSUME NEW c \in Calls, NEW peer_allowed \in BOOLEAN, NEW started \in Times,
               NEW finished \in Times, sign(c, peer_allowed, started, finished)
        PROVE  StopInv'
    BY <2>2, <2>9 DEF sign
  <2>10. ASSUME NEW c \in Calls, NEW envelope \in envelopes, answer(c, envelope)
         PROVE  StopInv'
    <3>1. UNCHANGED <<stop, interrupted>>
      BY <2>10 DEF answer
    <3>2. /\ calls[c].phase \in Waiting
          /\ calls'[c].phase \in Waiting
          /\ calls'[c].stop_before = calls[c].stop_before
          /\ \A d \in Calls \ {c} : calls'[d] = calls[d]
      BY <2>10, Answering DEF Waiting
    <3> QED
      BY <3>1, <3>2, StopInvUndisturbed
  <2>11. ASSUME NEW c \in Calls, worker_fails(c)
         PROVE  StopInv'
    BY <2>6, <2>11 DEF worker_fails
  <2>12. ASSUME NEW c \in Calls, finish(c)
         PROVE  StopInv'
    <3>1. UNCHANGED <<stop, interrupted>>
      BY <2>12 DEF finish
    <3>2. CASE reject(c)
      BY <2>6, <3>1, <3>2
    <3>3. CASE ~reject(c)
      <4>1. /\ calls[c].phase = "answered"
            /\ calls'[c].phase = "trusted"
            /\ calls[c].stop_before = stop
            /\ \A d \in Calls \ {c} : calls'[d] = calls[d]
        BY <2>12, <3>3, Finishing
      <4>2. stop.changed_at \in Nat
        BY DEF TypeOK, Stop
      <4>3. c \notin interrupted
        BY <4>1, <4>2 DEF StopInv, Waiting
      <4> QED
        BY <3>1, <4>1, <4>3 DEF StopInv, Waiting
    <3> QED
      BY <3>2, <3>3
  <2>13. CASE UNCHANGED vars
    BY <2>2, <2>13 DEF vars
  <2> QED
    BY <2>1, <2>3, <2>4, <2>5, <2>7, <2>8, <2>9, <2>10, <2>11, <2>12, <2>13 DEF Next
<1>3. StopInv => TrustedWereUndisturbed
  BY DEF StopInv, TrustedWereUndisturbed
<1> QED
  BY <1>1, <1>2, <1>3, TypeCorrect, PTL DEF Spec
=============================================================================
