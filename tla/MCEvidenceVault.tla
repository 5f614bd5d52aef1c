-------------------------- MODULE MCEvidenceVault --------------------------
(* A small instance of EvidenceVault for TLC. *)
EXTENDS EvidenceVault

CONSTANTS v, w

\* Collected and retained on the first day: retention is over at once, unless
\* it is extended to the second day.
OneRecord == {[collected_at |-> 1, retention_until |-> 0]}

\* Operations race in one vault, and its exports are restored to the other.
FourEventsInOne == [x \in {v, w} |-> IF x = v THEN 4 ELSE 1]

\* From a vault elsewhere: evidence under a hold, with no export of it.
HeldElsewhere ==
    {[evidence |-> x, record |-> r,
      custody_events |-> <<event("ingested", 1), hold_event("legal_hold_applied", 1, h)>>] :
         x \in Evidence, r \in OneRecord, h \in Holds}

CallerSymmetry == Permutations(Callers)
=============================================================================
