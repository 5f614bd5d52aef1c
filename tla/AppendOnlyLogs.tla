---------------------------- MODULE AppendOnlyLogs ----------------------------
(***************************************************************************)
(* What a governance store promises of the audit trails it keeps: one log  *)
(* for each institution and engagement, and a step only ever adds events   *)
(* to the end of one of them.                                              *)
(***************************************************************************)
EXTENDS Sequences, SequencesExt

CONSTANTS Trails, Events

VARIABLE logs

Init == logs \in [Trails -> Seq(Events)]

Extend(t) ==
    /\ \A u \in Trails \ {t} : logs'[u] = logs[u]
    /\ IsStrictPrefix(logs[t], logs'[t])

Next == \E t \in Trails : Extend(t)

Spec == Init /\ [][Next]_logs
=============================================================================
