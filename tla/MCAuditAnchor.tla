----------------------------- MODULE MCAuditAnchor -----------------------------
(* A small instance of AuditAnchor for TLC. *)
EXTENDS AuditAnchor

CONSTANTS a1, a2

\* The key of the first process is trusted until the second one takes over, and
\* neither is trusted at every time its process may sign at.
RotatedKeys ==
    [a \in {a1, a2} |->
        IF a = a1 THEN [not_before |-> 0, not_after |-> 1, status |-> "retiring"]
                  ELSE [not_before |-> 1, not_after |-> 2, status |-> "active"]]
=============================================================================
