------------------------- MODULE MCGovernanceStore -------------------------
(* Small instances of GovernanceStore for TLC. *)
EXTENDS GovernanceStore

CONSTANTS bank, e1, e2, a, b, h1, h2, key, r1, r2

BothDefault == [h \in {h1, h2} |-> default]
TwoInstitutions == [h \in {h1, h2} |-> IF h = h1 THEN bank ELSE default]

NoEvents == <<>>
OneEvent == <<[engagement |-> e1, id |-> a]>>

NoSnapshots == <<>>
OneSnapshot == <<1>>

NoRequests == [k \in {} |-> r1]
OneRequest == [k \in {key} |-> r1]
=============================================================================
