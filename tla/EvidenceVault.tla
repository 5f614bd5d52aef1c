---------------------------- MODULE EvidenceVault ----------------------------
(***************************************************************************)
(* The encrypted evidence vaults of one institution: several databases,    *)
(* each with a record and a custody history for every piece of evidence,   *)
(* and the recovery bundles that carry evidence from one to another.       *)
(*                                                                         *)
(* A custody operation loads the history, decides on it and builds the     *)
(* next event; the backend loads and verifies again, and then takes the    *)
(* write lock and compares the head.  The three reads are three steps, so  *)
(* operations of other callers run in between.  A call that is refused     *)
(* changes nothing; one whose process dies never takes its next step.      *)
(***************************************************************************)
EXTENDS Integers, Sequences, SequencesExt, FiniteSetsExt

CONSTANTS
    Vaults,         \* the institution's vault databases
    Evidence,       \* evidence ids
    Holds,          \* legal-hold ids
    Callers,        \* processes that operate on the vaults
    Times,          \* what callers pass as `now`
    Day,            \* instants in a day
    Records,        \* what may be ingested
    Dates,          \* what retention may be extended to
    NoRecord,
    ForeignBundles, \* bundles that come from no vault here
    MaxEvents       \* bounds on the length of a vault's histories, for TLC

\* A record cannot be retained for less than the day it was collected on.
Record == [collected_at: Nat, retention_until: Nat]

ASSUME VaultAssumptions ==
    /\ Times \subseteq Nat
    /\ Dates \subseteq Nat
    /\ Day \in Nat \ {0}
    /\ Records \subseteq Record
    /\ \A r \in Records : r.retention_until >= r.collected_at \div Day
    /\ NoRecord \notin Records
    /\ MaxEvents \in [Vaults -> Nat]

VARIABLES
    records, \* evidence_vault_records, by vault and evidence id
    events,  \* evidence_vault_events, by vault and evidence id, in order
    bundles, \* the recovery bundles that were exported
    calls    \* where each caller stands

vars == <<records, events, bundles, calls>>

Items == Vaults \X Evidence

date(t) == t \div Day

\* Custody events.  `detail` is the hold, or the date retention is extended to.
Event ==
    [action: {"ingested", "accessed", "exported", "deletion_approved", "restored"},
     timestamp: Times]
    \cup [action: {"legal_hold_applied", "legal_hold_released"}, timestamp: Times, hold: Holds]
    \cup [action: {"retention_extended"}, timestamp: Times, until: Dates]

event(action, now) == [action |-> action, timestamp |-> now]
hold_event(action, now, hold) == [action |-> action, timestamp |-> now, hold |-> hold]

Bundle == [evidence: Evidence, record: Records, custody_events: Seq(Event)]

ASSUME BundleAssumptions == ForeignBundles \subseteq Bundle

Idle == [phase |-> "idle"]

Init ==
    /\ records = [i \in Items |-> NoRecord]
    /\ events = [i \in Items |-> <<>>]
    /\ bundles = {}
    /\ calls = [c \in Callers |-> Idle]

-----------------------------------------------------------------------------
(* What a history says *)

with_action(history, action) == {n \in DOMAIN history : history[n].action = action}

seen_holds(history) == {history[n].hold : n \in with_action(history, "legal_hold_applied")}

active_holds(history) ==
    seen_holds(history)
        \ {history[n].hold : n \in with_action(history, "legal_hold_released")}

\* A date in a history is only ever extended.
retention(record, history) ==
    Max({record.retention_until}
        \cup {history[n].until : n \in with_action(history, "retention_extended")})

last_timestamp(record, history) ==
    IF history = <<>> THEN record.collected_at ELSE Last(history).timestamp

evaluate_deletion_eligibility(record, history, now) ==
    /\ date(now) >= retention(record, history)
    /\ active_holds(history) = {}

\* One pass of verify_vault_history over an event.  An approval carries the
\* digest of the state it was decided in; that is the state before the event.
legal(record, before, e) ==
    /\ e.timestamp >= last_timestamp(record, before)
    /\ e.action = "ingested" <=> before = <<>>
    /\ e.action = "legal_hold_applied" => e.hold \notin seen_holds(before)
    /\ e.action = "legal_hold_released" => e.hold \in active_holds(before)
    /\ e.action = "retention_extended" => e.until > retention(record, before)
    /\ e.action = "deletion_approved" =>
          evaluate_deletion_eligibility(record, before, e.timestamp)

before(history, n) == SubSeq(history, 1, n - 1)

verify_vault_history(record, history) ==
    /\ history # <<>>
    /\ \A n \in DOMAIN history : legal(record, before(history, n), history[n])

-----------------------------------------------------------------------------
(* Ingest *)

\* Mutant: the history is not verified.
create_unverified(i, record, history) ==
    /\ records[i] = NoRecord
    /\ records' = [records EXCEPT ![i] = record]
    /\ events' = [events EXCEPT ![i] = history]

\* The backend's create and restore: the rows are inserted in one transaction
\* that fails when the identifier is taken.
create(i, record, history) ==
    /\ records[i] = NoRecord
    /\ verify_vault_history(record, history)
    /\ records' = [records EXCEPT ![i] = record]
    /\ events' = [events EXCEPT ![i] = history]

ingest(i, record, now) ==
    /\ create(i, record, <<event("ingested", now)>>)
    /\ UNCHANGED <<bundles, calls>>

-----------------------------------------------------------------------------
(* Custody operations *)

\* EvidenceVault loads the record and its history and builds the event.
load(c, i, e) ==
    /\ calls[c] = Idle
    /\ records[i] # NoRecord
    /\ verify_vault_history(records[i], events[i])
    /\ calls' = [calls EXCEPT ![c] =
                   [phase |-> "loaded", item |-> i, seen |-> events[i], event |-> e]]
    /\ UNCHANGED <<records, events, bundles>>

access(c, i, now) == load(c, i, event("accessed", now))

export_recovery_bundle(c, i, now) == load(c, i, event("exported", now))

\* The operations that verify the prospective history before the backend does.
_append(c, i, e) == load(c, i, e) /\ legal(records[i], events[i], e)

apply_legal_hold(c, i, hold, now) ==
    _append(c, i, hold_event("legal_hold_applied", now, hold))

release_legal_hold(c, i, hold, now) ==
    _append(c, i, hold_event("legal_hold_released", now, hold))

extend_retention(c, i, until, now) ==
    _append(c, i, [action |-> "retention_extended", timestamp |-> now, until |-> until])

approve_deletion(c, i, now) == _append(c, i, event("deletion_approved", now))

refused(c) ==
    /\ calls' = [calls EXCEPT ![c] = Idle]
    /\ UNCHANGED <<records, events, bundles>>

\* The backend's append_event, before the lock.  The event names the sequence
\* number and the hash of the head it extends, and the head covers the history.
append_event(c) ==
    /\ calls[c].phase = "loaded"
    /\ LET i == calls[c].item
       IN  \/ /\ events[i] = calls[c].seen
              /\ legal(records[i], events[i], calls[c].event)
              /\ calls' = [calls EXCEPT ![c].phase = "verified"]
              /\ UNCHANGED <<records, events, bundles>>
           \/ /\ ~ (events[i] = calls[c].seen
                    /\ legal(records[i], events[i], calls[c].event))
              /\ refused(c)

\* Mutant: the event is put after whatever head there is.
any_head(c) == TRUE

head_unchanged(c) == events[calls[c].item] = calls[c].seen

\* Mutant: the bundle has the history as it was loaded.
bundle_without_export(c) ==
    [evidence |-> calls[c].item[2], record |-> records[calls[c].item],
     custody_events |-> calls[c].seen]

exported_bundle(c) ==
    [evidence |-> calls[c].item[2], record |-> records[calls[c].item],
     custody_events |-> Append(calls[c].seen, calls[c].event)]

\* Under the lock; an export then returns the history it saw, and its event.
_insert_event(c) ==
    /\ calls[c].phase = "verified"
    /\ LET i == calls[c].item
           e == calls[c].event
       IN  \/ /\ head_unchanged(c)
              /\ events' = [events EXCEPT ![i] = Append(@, e)]
              /\ bundles' = IF e.action = "exported"
                            THEN bundles \cup {exported_bundle(c)}
                            ELSE bundles
              /\ calls' = [calls EXCEPT ![c] = Idle]
              /\ UNCHANGED records
           \/ ~head_unchanged(c) /\ refused(c)

-----------------------------------------------------------------------------
(* Recovery *)

\* Mutant: an identifier that is taken is overwritten.
restore_over(v, bundle, now) ==
    LET i == <<v, bundle.evidence>>
        history == Append(bundle.custody_events, event("restored", now))
    IN  /\ verify_vault_history(bundle.record, history)
        /\ records' = [records EXCEPT ![i] = bundle.record]
        /\ events' = [events EXCEPT ![i] = history]
        /\ UNCHANGED <<bundles, calls>>

\* The digest of a bundle is of its own content and has no key: any bundle whose
\* history verifies is restored, wherever it was made.
restore_recovery_bundle(v, bundle, now) ==
    /\ create(<<v, bundle.evidence>>, bundle.record,
              Append(bundle.custody_events, event("restored", now)))
    /\ UNCHANGED <<bundles, calls>>

-----------------------------------------------------------------------------
Room(i) == Len(events[i]) < MaxEvents[i[1]]

Operate(c, i, now) ==
    /\ Room(i)
    /\ \/ access(c, i, now)
       \/ export_recovery_bundle(c, i, now)
       \/ \E hold \in Holds : apply_legal_hold(c, i, hold, now)
       \/ \E hold \in Holds : release_legal_hold(c, i, hold, now)
       \/ \E until \in Dates : extend_retention(c, i, until, now)
       \/ approve_deletion(c, i, now)

Next ==
    \/ \E i \in Items, record \in Records, now \in Times : ingest(i, record, now)
    \/ \E c \in Callers, i \in Items, now \in Times : Operate(c, i, now)
    \/ \E c \in Callers : append_event(c) \/ _insert_event(c)
    \/ \E v \in Vaults, bundle \in bundles \cup ForeignBundles, now \in Times :
          restore_recovery_bundle(v, bundle, now)

Spec == Init /\ [][Next]_vars

-----------------------------------------------------------------------------
(* Properties *)

Call ==
    {Idle} \cup [phase: {"loaded", "verified"}, item: Items, seen: Seq(Event), event: Event]

\* Records and histories come together: no record without custody, no custody
\* without a record.
TypeOK ==
    /\ records \in [Items -> Records \cup {NoRecord}]
    /\ events \in [Items -> Seq(Event)]
    /\ \A i \in Items : records[i] = NoRecord <=> events[i] = <<>>
    /\ bundles \subseteq Bundle
    /\ calls \in [Callers -> Call]

\* Every stored history verifies, so no interleaving of operations, and no
\* restore, leaves evidence that can never be loaded again.
HistoriesVerify ==
    \A i \in Items : records[i] # NoRecord => verify_vault_history(records[i], events[i])

\* Deletion is never approved under a legal hold or before the end of the
\* retention the history gives: not even when the hold was applied, or the
\* retention extended, after the approver looked.
HoldsBlockDeletion ==
    \A i \in Items : \A n \in with_action(events[i], "deletion_approved") :
        /\ \A m \in with_action(events[i], "legal_hold_applied") : m < n =>
              \E k \in with_action(events[i], "legal_hold_released") :
                  m < k /\ k < n /\ events[i][k].hold = events[i][m].hold
        /\ records[i].retention_until <= date(events[i][n].timestamp)
        /\ \A m \in with_action(events[i], "retention_extended") :
              m < n => events[i][m].until <= date(events[i][n].timestamp)

\* What event n restored is the complete custody of another vault up to an export
\* of it, with that vault's record.
restored_from_another(v, x, n) ==
    \E w \in Vaults \ {v} :
        /\ IsPrefix(before(events[<<v, x>>], n), events[<<w, x>>])
        /\ events[<<v, x>>][n - 1].action = "exported"
        /\ records[<<w, x>>] = records[<<v, x>>]

\* Event n restored a foreign bundle, or is in what such a bundle brought.
restored_from_elsewhere(v, x, n) ==
    \E b \in ForeignBundles :
        /\ b.evidence = x /\ b.record = records[<<v, x>>]
        /\ \/ before(events[<<v, x>>], n) = b.custody_events
           \/ IsPrefix(before(events[<<v, x>>], n + 1), b.custody_events)

\* Restored evidence carries the complete custody of another vault and its record,
\* unless a bundle that no vault exported was restored, here or in that vault.
RestoredHistoryIsGenuine ==
    \A v \in Vaults, x \in Evidence : \A n \in with_action(events[<<v, x>>], "restored") :
        restored_from_another(v, x, n) \/ restored_from_elsewhere(v, x, n)

Custody == INSTANCE AppendOnlyLogs WITH Trails <- Items, Events <- Event, logs <- events

\* The vaults implement an append-only log for each piece of evidence.
CustodyIsAppendOnly == Custody!Spec
=============================================================================
