------------------------- MODULE TenantAuthorization -------------------------
(* Tenant authorization (tenant_auth.py): what a verified OIDC identity may do in *)
(* an institution, by a routing policy that grants roles and capabilities to      *)
(* subjects.  An authorization is a document; it is derived again from its        *)
(* sources when a session is created with it, and not looked at again.            *)
(*                                                                                *)
(* A digest stands for what it covers: an authorization holds the policy, context *)
(* and verification it was made with.  `provider` is an identity provider and its *)
(* configuration.                                                                 *)
EXTENDS ChangeControl

CONSTANTS
    Policies,      \* routing policies, with their grants by subject
    Contexts,      \* security contexts of institutions
    Verifications  \* identities the OIDC layer has verified

_CAPABILITIES == {"store_read", "store_write", "audit_verify", "crypto_use"}

TenantSubjectGrant(g) ==
    /\ g.roles # {}
    /\ g.capabilities # {} /\ g.capabilities \subseteq _CAPABILITIES
    /\ g.status \in {"active", "disabled"}

TenantRoutingPolicy(policy) ==
    \A subject \in DOMAIN policy.grants : TenantSubjectGrant(policy.grants[subject])

ASSUME TenantAssumptions ==
    /\ \A policy \in Policies : TenantRoutingPolicy(policy)
    /\ \A v \in Verifications : {v.issued_at, v.verified_at, v.expires_at} \subseteq Times

-----------------------------------------------------------------------------

\* The grant of exactly this subject.
grant_for_subject(policy, subject) == policy.grants[subject]

effective_roles(v, policy) == v.roles \cap grant_for_subject(policy, v.subject).roles

_effective_grant(v, policy, context) ==
    /\ v.provider = policy.provider
    /\ policy.institution_id = context.institution_id
    /\ v.subject \in DOMAIN policy.grants
    /\ grant_for_subject(policy, v.subject).status = "active"
    /\ effective_roles(v, policy) # {}

\* The authorizations authorize-tenant-route can make, for any of the capabilities.
authorize_tenant_route(v, policy, context, as_of) ==
    IF /\ v.verified_at <= as_of
       /\ v.issued_at <= as_of /\ as_of < v.expires_at
       /\ _effective_grant(v, policy, context)
    THEN {[institution_id |-> context.institution_id, context |-> context,
           policy |-> policy, verification |-> v, subject |-> v.subject,
           roles |-> effective_roles(v, policy), capabilities |-> capabilities,
           authorized_at |-> as_of, expires_at |-> v.expires_at] :
              capabilities \in
                 SUBSET grant_for_subject(policy, v.subject).capabilities \ {{}}}
    ELSE {}

\* With the sources as they are given now.
verify_tenant_authorization(a, v, policy, context, as_of) ==
    /\ as_of < a.expires_at /\ as_of < v.expires_at
    /\ a.authorized_at <= as_of /\ v.verified_at <= as_of
    /\ _effective_grant(v, policy, context)
    /\ a.institution_id = context.institution_id
    /\ a.context = context
    /\ a.policy = policy
    /\ a.verification = v
    /\ a.subject = v.subject
    /\ a.roles = effective_roles(v, policy)
    /\ a.expires_at = v.expires_at
    /\ a.capabilities \subseteq grant_for_subject(policy, v.subject).capabilities

Authorizations ==
    UNION {authorize_tenant_route(v, policy, context, as_of) :
              v \in Verifications, policy \in Policies, context \in Contexts,
              as_of \in Times}

\* What a session can be created with: some authorization, verified at some time
\* against some sources.
AuthorizedTenantSession ==
    {a \in Authorizations :
        \E v \in Verifications, policy \in Policies, context \in Contexts, as_of \in Times :
           verify_tenant_authorization(a, v, policy, context, as_of)}

require(session, capability) == capability \in session.capabilities
=============================================================================
