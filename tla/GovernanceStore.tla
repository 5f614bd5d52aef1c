--------------------------- MODULE GovernanceStore ---------------------------
(***************************************************************************)
(* SQLiteGovernanceStore: one database file, several handles of several    *)
(* processes, each bound to one institution.  Writes are transactions that *)
(* take the write lock when they begin, so each is one step; the decisions *)
(* taken before the lock are steps of their own: which schema version an   *)
(* opening handle migrates from, and whether an idempotency key is free.   *)
(*                                                                         *)
(* Every process keeps a governance service in memory and publishes it the *)
(* way the demonstration workflow does: first the audit chain, then the    *)
(* snapshot, which contains the chain.  A crash loses the process's memory *)
(* and rolls back nothing that was committed.                              *)
(***************************************************************************)
EXTENDS Naturals, FiniteSets, Sequences, SequencesExt

CONSTANTS
    Institutions,     \* institution ids
    default,          \* the institution of records older than schema version 2
    Engagements,
    Ids,              \* what tells two audit events of an engagement apart
    Handles,
    Bound,            \* [Handles -> Institutions]
    Encrypting,       \* the handles with a security context and a crypto provider
    Keys,             \* idempotency keys
    Requests,         \* what a key may be used for: request and result
    StartVersions,    \* the schema versions a database may be found in
    LegacyChain,      \* the audit trail in a database older than version 3
    LegacyEngagement, \* the engagement of that trail
    LegacySnapshots,  \* how many of its events each snapshot there has, by revision
    LegacyRequests,   \* the idempotency keys used there, each with its request
    ExclusiveUpgrade, \* are version-1 databases opened by one process at a time?
    MaxChain          \* bound on a process's audit chain, for TLC

Event == [engagement: Engagements, id: Ids]

ASSUME StoreAssumptions ==
    /\ default \in Institutions
    /\ Bound \in [Handles -> Institutions]
    /\ Encrypting \subseteq Handles
    /\ StartVersions \subseteq 0..3
    /\ LegacyEngagement \in Engagements
    /\ LegacyChain \in Seq(Event)
    /\ LegacySnapshots \in Seq(0..Len(LegacyChain))
    /\ \A m, n \in DOMAIN LegacySnapshots : LegacySnapshots[m] = LegacySnapshots[n] => m = n
    /\ LegacyRequests \in [DOMAIN LegacyRequests -> Requests]
    /\ DOMAIN LegacyRequests \subseteq Keys
    /\ ExclusiveUpgrade \in BOOLEAN
    /\ MaxChain \in Nat

VARIABLES
    version,      \* PRAGMA user_version
    snapshots,    \* the rows of engagement_snapshots
    audit_events, \* the rows of audit_events, in order, by institution and engagement
    idempotency,  \* the rows of idempotency_records
    handle,       \* where each handle's process stands
    chain         \* the audit chain in each process's memory

vars == <<version, snapshots, audit_events, idempotency, handle, chain>>

Trails == Institutions \X Engagements

\* A stored document: its protection_mode column, and how many envelopes the
\* JSON in it is really wrapped in.
Protection == [mode: {"plaintext", "envelope_v1"}, layers: Nat]

plain == [mode |-> "plaintext", layers |-> 0]
sealed == [mode |-> "envelope_v1", layers |-> 1]

Closed == [phase |-> "closed"]
Ready == [phase |-> "ready"]
Migrating(from) == [phase |-> "migrating", from |-> from]

legacy_snapshot(n) ==
    [institution |-> default, engagement |-> LegacyEngagement, revision |-> n,
     content |-> SubSeq(LegacyChain, 1, LegacySnapshots[n]), protection |-> plain]

legacy_events == [i \in DOMAIN LegacyChain |-> [event |-> LegacyChain[i], protection |-> plain]]

\* A database of an older schema holds records of one institution in all three
\* tables; their trail covers their snapshots.
Init ==
    /\ version \in StartVersions
    /\ LET legacy == version \in {1, 2}
       IN  /\ snapshots = IF legacy THEN {legacy_snapshot(n) : n \in DOMAIN LegacySnapshots}
                                    ELSE {}
           /\ audit_events = [t \in Trails |->
                 IF legacy /\ t = <<default, LegacyEngagement>> THEN legacy_events ELSE <<>>]
           /\ idempotency = [k \in IF legacy THEN {default} \X DOMAIN LegacyRequests ELSE {} |->
                 LegacyRequests[k[2]]]
    /\ handle = [h \in Handles |-> Closed]
    /\ chain = [h \in Handles |-> <<>>]

-----------------------------------------------------------------------------
(* Opening a handle: the schema version is read outside any transaction. *)

\* ExclusiveUpgrade: no process opens a version-1 database beside another.
open(h) ==
    /\ handle[h] = Closed
    /\ ExclusiveUpgrade /\ version = 1 => \A other \in Handles : handle[other] = Closed
    /\ handle' = [handle EXCEPT ![h] = IF version = 3 THEN Ready ELSE Migrating(version)]
    /\ UNCHANGED <<version, snapshots, audit_events, idempotency, chain>>

\* A script that fails rolls back and the constructor raises.
open_fails(h) ==
    /\ handle' = [handle EXCEPT ![h] = Closed]
    /\ UNCHANGED <<version, snapshots, audit_events, idempotency, chain>>

\* CREATE TABLE fails when another handle created the tables meanwhile.
create_v3_schema(h) ==
    /\ handle[h] = Migrating(0)
    /\ \/ version > 0 /\ open_fails(h)
       \/ /\ version = 0
          /\ version' = 3
          /\ handle' = [handle EXCEPT ![h] = Ready]
          /\ UNCHANGED <<snapshots, audit_events, idempotency, chain>>

unlabelled(protection) == [protection EXCEPT !.mode = "plaintext"]

\* Mutant: the old table is dropped before its rows are copied.
copied_nothing(e) == <<>>

\* The copied rows of an engagement: those of every institution, in one table.
copied_events(e) ==
    LET owners == {i \in Institutions : audit_events[<<i, e>>] # <<>>}
        rows == IF owners = {} THEN <<>> ELSE audit_events[<<CHOOSE i \in owners : TRUE, e>>]
    IN  [n \in DOMAIN rows |-> [rows[n] EXCEPT !.protection = unlabelled(@)]]

\* The keys of two institutions' rows would be equal once both are `default`.
copy_conflict ==
    \/ \E i, j \in Institutions, e \in Engagements :
          i # j /\ audit_events[<<i, e>>] # <<>> /\ audit_events[<<j, e>>] # <<>>
    \/ \E s, t \in snapshots :
          /\ s.institution # t.institution /\ s.engagement = t.engagement
          /\ s.revision = t.revision \/ s.content = t.content
    \/ \E i, j \in Institutions, k \in Keys :
          i # j /\ {<<i, k>>, <<j, k>>} \subseteq DOMAIN idempotency

\* The script renames whatever tables it finds and copies their rows into new
\* ones, all for the institution `default` and without a protection column.
migrate_v1_to_v2(h) ==
    /\ handle[h] = Migrating(1)
    /\ \/ copy_conflict /\ open_fails(h)
       \/ /\ ~copy_conflict
          /\ version' = 2
          /\ snapshots' = {[s EXCEPT !.institution = default, !.protection = unlabelled(@)] :
                              s \in snapshots}
          /\ audit_events' = [t \in Trails |->
                IF t[1] = default THEN copied_events(t[2]) ELSE <<>>]
          /\ idempotency' = [k \in {default} \X {x[2] : x \in DOMAIN idempotency} |->
                idempotency[CHOOSE x \in DOMAIN idempotency : x[2] = k[2]]]
          /\ handle' = [handle EXCEPT ![h] = Migrating(2)]
          /\ UNCHANGED chain

\* ADD COLUMN fails when another handle added it meanwhile.
migrate_v2_to_v3(h) ==
    /\ handle[h] = Migrating(2)
    /\ \/ version = 3 /\ open_fails(h)
       \/ /\ version = 2
          /\ version' = 3
          /\ handle' = [handle EXCEPT ![h] = Ready]
          /\ UNCHANGED <<snapshots, audit_events, idempotency, chain>>

\* The process ends, or closes its handle.
close(h) ==
    /\ handle[h] # Closed
    /\ handle' = [handle EXCEPT ![h] = Closed]
    /\ chain' = [chain EXCEPT ![h] = <<>>]
    /\ UNCHANGED <<version, snapshots, audit_events, idempotency>>

-----------------------------------------------------------------------------
(* The service in a process's memory *)

record(h, e, id) ==
    /\ handle[h] = Ready
    /\ Len(chain[h]) < MaxChain
    /\ chain' = [chain EXCEPT ![h] = Append(@, [engagement |-> e, id |-> id])]
    /\ UNCHANGED <<version, snapshots, audit_events, idempotency, handle>>

-----------------------------------------------------------------------------
(* Publishing: the statements need the columns of schema version 3. *)

_protect_document(h) == IF h \in Encrypting THEN sealed ELSE plain

\* What the handle can read back as the document that was stored.
readable(h, protection) ==
    protection = plain \/ (protection = sealed /\ h \in Encrypting)

\* Mutant: only the number of stored events is compared.
exact_prefix_of_length(h, e) == Len(audit_events[<<Bound[h], e>>]) <= Len(chain[h])

exact_prefix(h, e) ==
    LET rows == audit_events[<<Bound[h], e>>]
    IN  /\ Len(rows) <= Len(chain[h])
        /\ \A i \in DOMAIN rows : /\ readable(h, rows[i].protection)
                                  /\ rows[i].event = chain[h][i]

\* A chain with an event of another engagement, or that does not extend the
\* stored one, is refused.  An event's hash covers its predecessors, so stored
\* and incoming documents are equal when the events up to there are.
persist_audit_chain(h, e) ==
    LET stored == audit_events[<<Bound[h], e>>]
        added == SubSeq(chain[h], Len(stored) + 1, Len(chain[h]))
    IN  /\ handle[h] = Ready
        /\ version = 3
        /\ \A i \in DOMAIN chain[h] : chain[h][i].engagement = e
        /\ exact_prefix(h, e)
        /\ audit_events' = [audit_events EXCEPT ![<<Bound[h], e>>] = stored \o
              [i \in DOMAIN added |->
                  [event |-> added[i], protection |-> _protect_document(h)]]]
        /\ handle' = [handle EXCEPT ![h] = [phase |-> "persisted", engagement |-> e]]
        /\ UNCHANGED <<version, snapshots, idempotency, chain>>

revisions(i, e) ==
    {s.revision : s \in {t \in snapshots : t.institution = i /\ t.engagement = e}}

\* COALESCE(MAX(revision), 0) + 1
next_revision(i, e) == Max({0} \cup revisions(i, e)) + 1

\* Mutant: no lookup of a stored snapshot with the same digest.
save_snapshot_again(h) ==
    /\ handle[h].phase = "persisted"
    /\ version = 3
    /\ LET i == Bound[h]
           e == handle[h].engagement
       IN  snapshots' = snapshots \cup
              {[institution |-> i, engagement |-> e,
                revision |-> next_revision(i, e),
                content |-> chain[h], protection |-> _protect_document(h)]}
    /\ handle' = [handle EXCEPT ![h] = Ready]
    /\ UNCHANGED <<version, audit_events, idempotency, chain>>

\* A snapshot that is stored already keeps its revision.
save_snapshot(h) ==
    /\ handle[h].phase = "persisted"
    /\ version = 3
    /\ LET i == Bound[h]
           e == handle[h].engagement
           existing == \E s \in snapshots : /\ s.institution = i /\ s.engagement = e
                                            /\ s.content = chain[h]
       IN  snapshots' = IF existing THEN snapshots ELSE snapshots \cup
              {[institution |-> i, engagement |-> e,
                revision |-> next_revision(i, e),
                content |-> chain[h], protection |-> _protect_document(h)]}
    /\ handle' = [handle EXCEPT ![h] = Ready]
    /\ UNCHANGED <<version, audit_events, idempotency, chain>>

\* Mutant: the column is updated, the document is not.
encrypted_label(protection) == [protection EXCEPT !.mode = "envelope_v1"]

\* A row that says it is plaintext is wrapped in an envelope, whatever it holds.
encrypted(protection) ==
    IF protection.mode = "envelope_v1" THEN protection
    ELSE [mode |-> "envelope_v1", layers |-> protection.layers + 1]

encrypt_existing_records(h) ==
    LET i == Bound[h]
    IN  /\ handle[h] = Ready
        /\ version = 3
        /\ h \in Encrypting
        /\ snapshots' = {IF s.institution = i THEN [s EXCEPT !.protection = encrypted(@)]
                                              ELSE s : s \in snapshots}
        /\ audit_events' = [t \in Trails |->
              IF t[1] = i
              THEN [n \in DOMAIN audit_events[t] |->
                       [audit_events[t][n] EXCEPT !.protection = encrypted(@)]]
              ELSE audit_events[t]]
        /\ UNCHANGED <<version, idempotency, handle, chain>>

-----------------------------------------------------------------------------
(* Idempotency keys: SELECT and INSERT are not in one transaction. *)

select_idempotency(h, k, request) ==
    /\ handle[h] = Ready
    /\ <<Bound[h], k>> \notin DOMAIN idempotency
    /\ handle' = [handle EXCEPT ![h] = [phase |-> "unused", key |-> k, request |-> request]]
    /\ UNCHANGED <<version, snapshots, audit_events, idempotency, chain>>

\* Mutant: the insert replaces what another handle recorded.
insert_or_replace(h) ==
    /\ handle[h].phase = "unused"
    /\ LET k == <<Bound[h], handle[h].key>>
       IN  idempotency' = [x \in DOMAIN idempotency \cup {k} |->
                             IF x = k THEN handle[h].request ELSE idempotency[x]]
    /\ handle' = [handle EXCEPT ![h] = Ready]
    /\ UNCHANGED <<version, snapshots, audit_events, chain>>

\* The primary key refuses the insert when the key was recorded meanwhile.
insert_idempotency(h) ==
    /\ handle[h].phase = "unused"
    /\ LET k == <<Bound[h], handle[h].key>>
       IN  idempotency' = IF k \in DOMAIN idempotency THEN idempotency
                          ELSE [x \in DOMAIN idempotency \cup {k} |->
                                  IF x = k THEN handle[h].request ELSE idempotency[x]]
    /\ handle' = [handle EXCEPT ![h] = Ready]
    /\ UNCHANGED <<version, snapshots, audit_events, chain>>

-----------------------------------------------------------------------------
Next ==
    \E h \in Handles :
        \/ open(h)
        \/ create_v3_schema(h)
        \/ migrate_v1_to_v2(h)
        \/ migrate_v2_to_v3(h)
        \/ close(h)
        \/ \E e \in Engagements, id \in Ids : record(h, e, id)
        \/ \E e \in Engagements : persist_audit_chain(h, e)
        \/ save_snapshot(h)
        \/ encrypt_existing_records(h)
        \/ \E k \in Keys, request \in Requests : select_idempotency(h, k, request)
        \/ insert_idempotency(h)

Spec == Init /\ [][Next]_vars

-----------------------------------------------------------------------------
(* Properties *)

Row == [event: Event, protection: Protection]

Snapshot == [institution: Institutions, engagement: Engagements, revision: Nat \ {0},
             content: Seq(Event), protection: Protection]

Phase ==
    {Closed, Ready} \cup {Migrating(v) : v \in 0..2}
        \cup [phase: {"persisted"}, engagement: Engagements]
        \cup [phase: {"unused"}, key: Keys, request: Requests]

\* The tables hold rows of their columns' types, and no handle works on a
\* database without a schema.
TypeOK ==
    /\ version \in 0..3
    /\ snapshots \subseteq Snapshot
    /\ audit_events \in [Trails -> Seq(Row)]
    /\ idempotency \in [DOMAIN idempotency -> Requests]
    /\ DOMAIN idempotency \subseteq Institutions \X Keys
    /\ handle \in [Handles -> Phase]
    /\ chain \in [Handles -> Seq(Event)]
    /\ \A h \in Handles : handle[h].phase \in {"ready", "persisted", "unused"} => version >= 2

trail(rows) == [i \in DOMAIN rows |-> rows[i].event]

Logs == INSTANCE AppendOnlyLogs
    WITH Trails <- Trails, Events <- Event, logs <- [t \in Trails |-> trail(audit_events[t])]

\* The store implements an append-only log for each institution and engagement:
\* no interleaving of processes, crash, migration or encryption drops, reorders
\* or rewrites a persisted event (persist_audit_chain).
AuditIsAppendOnly == Logs!Spec

\* Every stored snapshot's audit chain is in the stored trail, also when the
\* process died between persisting the chain and saving the snapshot, or another
\* process published the same engagement in between.
SnapshotsAreCovered ==
    \A s \in snapshots :
        IsPrefix(s.content, trail(audit_events[<<s.institution, s.engagement>>]))

\* The revisions of an engagement number its distinct snapshots without a gap,
\* whichever processes saved them, or an older schema held them.
RevisionsNumberSnapshots ==
    \A s \in snapshots :
        LET same == {t \in snapshots : /\ t.institution = s.institution
                                       /\ t.engagement = s.engagement}
        IN  /\ revisions(s.institution, s.engagement) = 1..Cardinality(same)
            /\ Cardinality({t.content : t \in same}) = Cardinality(same)

\* The protection column tells what the document is: a row is never relabelled
\* as encrypted, nor encrypted twice (encrypt_existing_records).
LabelsAreTrue ==
    /\ \A s \in snapshots : s.protection \in {plain, sealed}
    /\ \A t \in Trails : \A i \in DOMAIN audit_events[t] :
          audit_events[t][i].protection \in {plain, sealed}

\* An idempotency key stands for its first request for ever, although two
\* handles may both find it unused.
KeyKeepsFirstRequest ==
    [][\A k \in DOMAIN idempotency :
          k \in DOMAIN idempotency' /\ idempotency'[k] = idempotency[k]]_vars

\* docs/TENANT_ISOLATION.md: the store never lets one institution overwrite or
\* take over a record of another.  The migration of a database that another
\* handle has already migrated moves every institution's rows to `default`.
RecordsKeepTheirInstitution ==
    [][\A i \in Institutions \ {default}, e \in Engagements :
          /\ IsPrefix(trail(audit_events[<<i, e>>]), trail(audit_events'[<<i, e>>]))
          /\ revisions(i, e) \subseteq revisions(i, e)']_vars
=============================================================================
