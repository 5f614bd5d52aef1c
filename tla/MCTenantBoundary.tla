--------------------------- MODULE MCTenantBoundary ---------------------------
(* A small instance of TenantBoundary for TLC. *)
EXTENDS TenantBoundary, TLC

CONSTANTS ana, bo, p, q, s1, s2, e1, e2, r1

key(subject, role, status) ==
    [subject |-> subject, role |-> role, not_before |-> 1, not_after |-> 1, status |-> status]

\* Ana holds a key of either role, and one that was disabled.
ThreeKeys ==
    [k \in 1..4 |->
        CASE k = 1 -> key(ana, "configuration_governor", "active")
          [] k = 2 -> key(ana, "security_governor", "active")
          [] k = 3 -> key(bo, "security_governor", "active")
          [] k = 4 -> key(bo, "configuration_governor", "disabled")]

SomeContexts == {[institution_id |-> i] : i \in {"A", "B"}}

context(i) == [institution_id |-> i]

\* In one institution Ana may write and Bo may read.
grant(capabilities) ==
    [roles |-> {"qualified_tester"}, capabilities |-> capabilities, status |-> "active"]

policyA ==
    [policy_id |-> "routing", institution_id |-> "A", provider |-> "idp",
     grants |-> [s \in {ana, bo} |-> grant(IF s = ana THEN {"store_write"} ELSE {"store_read"})]]

SomePolicies == {policyA}

SomeVerifications ==
    {[subject |-> s, provider |-> "idp", roles |-> {"qualified_tester"},
      issued_at |-> 0, verified_at |-> 1, expires_at |-> 2] : s \in {ana, bo}}

writeA == mapping("account", "A", "write")

SomeProposals ==
    {tenant_policy_change_request(policyA, context("A"), "create", NONE, 0, 1),
     postgres_service_account_change_request(writeA, "create", NONE, 0, 1),
     postgres_service_account_change_request(mapping("account", "A", "read"), "update", writeA, 0, 1),
     postgres_service_account_change_request(mapping("account", "B", "write"), "update", writeA, 0, 1),
     postgres_service_account_disable_request("account", "A", writeA, 0, 1)}

SomeOperations ==
    {[table |-> "engagement_snapshots", object |-> "e", content |-> s1],
     [table |-> "engagement_snapshots", object |-> "e", content |-> s2],
     [table |-> "audit_events", object |-> "e", content |-> <<e1, e2>>],
     [table |-> "idempotency_records", object |-> "k", content |-> r1]}

ProcessSymmetry == Permutations(Processes)
=============================================================================
