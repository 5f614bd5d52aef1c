---------------------------- MODULE ChangeControl ----------------------------
(* Change control (change_control.py): a change of a tenant's routing policy or *)
(* of a database account's mapping takes effect through a package that two      *)
(* governors signed.  The code keeps no state; this module says which packages  *)
(* there can be and what each of them permits.                                  *)
(*                                                                              *)
(* A digest stands for what it covers, so requests hold policies and mappings   *)
(* themselves.  One PostgreSQL contract is installed.                           *)
EXTENDS Integers, FiniteSets

CONSTANTS
    Subjects,             \* people
    Bundle,               \* the change trust bundle: its keys by issuer and key id
    Proposals,            \* what operators propose; some of it is refused
    Times,
    CLOCK_SKEW,           \* _CLOCK_SKEW_SECONDS
    MAX_REQUEST_WINDOW,
    MAX_SIGNATURE_WINDOW,
    NONE

_CHANGE_ROLES == {"configuration_governor", "security_governor"}

ChangeTrustKey ==
    [subject: Subjects, role: _CHANGE_ROLES, not_before: Times, not_after: Times,
     status: {"active", "disabled"}]

ChangeTrustBundle(keys) ==
    /\ \A k \in DOMAIN keys : keys[k] \in ChangeTrustKey
    /\ {keys[k].role : k \in {k \in DOMAIN keys : keys[k].status = "active"}} = _CHANGE_ROLES

ASSUME ChangeAssumptions ==
    /\ Times \subseteq Nat
    /\ {CLOCK_SKEW, MAX_REQUEST_WINDOW, MAX_SIGNATURE_WINDOW} \subseteq Nat
    /\ ChangeTrustBundle(Bundle)

-----------------------------------------------------------------------------
(* Requests *)

build_change_request(type, institution, operation, object, before, after, context, from, until) ==
    [change_type |-> type, institution_id |-> institution, operation |-> operation,
     object_id |-> object, before |-> before, after |-> after, context |-> context,
     requested_at |-> from, valid_until |-> until]

\* The one PostgresRLSContract.
contract == [tenant_source |-> "session_user_registry"]

tenant_policy_change_request(policy, context, operation, prior, from, until) ==
    build_change_request("tenant_routing_policy", policy.institution_id, operation,
                         policy.policy_id, prior, policy, context, from, until)

postgres_service_account_change_request(mapping, operation, prior, from, until) ==
    build_change_request("postgres_service_account_mapping", mapping.institution_id,
                         operation, mapping.service_role, prior, mapping, contract,
                         from, until)

postgres_service_account_disable_request(role, institution, prior, from, until) ==
    build_change_request("postgres_service_account_mapping", institution, "disable",
                         role, prior, NONE, contract, from, until)

\* What the record types and the request builders accept.
ChangeRequest(r) ==
    /\ r.valid_until - r.requested_at \in 1..MAX_REQUEST_WINDOW
    /\ r.operation = "create" => r.before = NONE /\ r.after # NONE
    /\ r.operation = "update" => r.before # NONE /\ r.after # NONE /\ r.before # r.after
    /\ r.operation = "disable" => r.before # NONE /\ r.after = NONE
    /\ r.change_type = "tenant_routing_policy" =>
          r.operation \in {"create", "update"} /\ r.context.institution_id = r.institution_id

Requests == {r \in Proposals : ChangeRequest(r)}

-----------------------------------------------------------------------------
(* Signatures *)

\* The holder of a key may sign any request, and claim anything in it: what
\* finalize-change-signature accepts is checked again only when it is verified.
ChangeSignature ==
    {s \in [key_id: DOMAIN Bundle, subject: Subjects, role: _CHANGE_ROLES,
            request: Requests, issued_at: Times, expires_at: Times] :
        s.expires_at - s.issued_at \in 1..MAX_SIGNATURE_WINDOW}

_verify_change_signature(s, request, as_of) ==
    LET key == Bundle[s.key_id]
    IN  /\ key.status = "active"
        /\ key.subject = s.subject
        /\ key.role = s.role
        /\ s.request = request
        /\ request.requested_at <= as_of /\ as_of <= request.valid_until
        /\ key.not_before <= as_of /\ as_of <= key.not_after
        /\ as_of + CLOCK_SKEW >= s.issued_at
        /\ as_of - CLOCK_SKEW <= s.expires_at

\* Mutant: one person may hold both keys.
two_keys(s, t) == s.key_id # t.key_id /\ {s.role, t.role} = _CHANGE_ROLES

\* Two keys, two subjects, and both roles.
independent(s, t) ==
    /\ s.key_id # t.key_id
    /\ s.subject # t.subject
    /\ {s.role, t.role} = _CHANGE_ROLES

verified(request, as_of) ==
    {s \in ChangeSignature : _verify_change_signature(s, request, as_of)}

resolve_change_control(request, as_of) ==
    {pair \in verified(request, as_of) \X verified(request, as_of) :
        independent(pair[1], pair[2])}

-----------------------------------------------------------------------------
(* Packages *)

\* The packages resolve-change-control can make, at the time its caller states.
\* Verifying one resolves it again with the same bundle and at the same time, which
\* comes to the same; so a package is good for ever, and stands for its signatures.
ApprovedPackages ==
    UNION {{[request |-> request, approvers |-> {pair[1].key_id, pair[2].key_id},
             approved_at |-> as_of] : pair \in resolve_change_control(request, as_of)} :
              request \in Requests, as_of \in Times}

verify_tenant_policy_change_package(policy, context, package) ==
    LET request == package.request
    IN  /\ request.change_type = "tenant_routing_policy"
        /\ request.operation \in {"create", "update"}
        /\ request.institution_id = policy.institution_id
        /\ request.institution_id = context.institution_id
        /\ request.object_id = policy.policy_id
        /\ request.after = policy
        /\ request.context = context

verify_postgres_mapping_change_package(mapping, package) ==
    LET request == package.request
    IN  /\ request.change_type = "postgres_service_account_mapping"
        /\ request.operation \in {"create", "update"}
        /\ request.institution_id = mapping.institution_id
        /\ request.object_id = mapping.service_role
        /\ request.after = mapping
        /\ request.context = contract

verify_postgres_disable_change_package(role, institution, package) ==
    LET request == package.request
    IN  /\ request.change_type = "postgres_service_account_mapping"
        /\ request.operation = "disable"
        /\ request.institution_id = institution
        /\ request.object_id = role
        /\ request.before # NONE /\ request.after = NONE
        /\ request.context = contract

\* For the properties: a package is the doing of two people who held a valid key of
\* either role each when, within the request's window, it was approved.
ApprovedByTwo(package) ==
    /\ package.request.requested_at <= package.approved_at
    /\ package.approved_at <= package.request.valid_until
    /\ \E a, b \in package.approvers :
          /\ Bundle[a].subject # Bundle[b].subject
          /\ {Bundle[a].role, Bundle[b].role} = _CHANGE_ROLES
          /\ \A k \in {a, b} :
                /\ Bundle[k].status = "active"
                /\ Bundle[k].not_before <= package.approved_at
                /\ package.approved_at <= Bundle[k].not_after
=============================================================================
