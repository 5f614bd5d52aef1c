------------------------- MODULE GovernanceStoreProofs -------------------------
(***************************************************************************)
(* Proofs about GovernanceStore for any institutions, engagements, handles *)
(* and chains, and a database of any schema version, if one of version 1   *)
(* is opened by one process at a time: the trails are append-only logs,    *)
(* snapshots are covered by them and numbered without a gap, and labels    *)
(* and idempotency keys keep what they say.                                *)
(***************************************************************************)
EXTENDS GovernanceStore, FiniteSetTheorems, SequenceTheorems, TLAPS

-----------------------------------------------------------------------------
(* Sequences *)

\* One sequence is a prefix of another if it agrees with it as far as it goes.
LEMMA PrefixByElements ==
    ASSUME NEW S, NEW s \in Seq(S), NEW t \in Seq(S)
    PROVE  IsPrefix(s, t) <=> Len(s) <= Len(t) /\ \A i \in 1..Len(s) : s[i] = t[i]
<1> DEFINE m == Len(s)
<1>1. CASE m <= Len(t)
  <2>1. /\ SubSeq(s, 1, m) \in Seq(S) /\ Len(SubSeq(s, 1, m)) = m
        /\ \A i \in 1..m : SubSeq(s, 1, m)[i] = s[i]
    BY <1>1
  <2>2. /\ SubSeq(t, 1, m) \in Seq(S) /\ Len(SubSeq(t, 1, m)) = m
        /\ \A i \in 1..m : SubSeq(t, 1, m)[i] = t[i]
    BY <1>1
  <2>3. ASSUME \A i \in 1..m : s[i] = t[i]
        PROVE  SubSeq(s, 1, m) = SubSeq(t, 1, m)
    BY <2>1, <2>2, <2>3, SeqEqual
  <2>4. ASSUME SubSeq(s, 1, m) = SubSeq(t, 1, m), NEW i \in 1..m
        PROVE  s[i] = t[i]
    BY <2>1, <2>2, <2>4
  <2> QED
    BY <1>1, <2>3, <2>4 DEF IsPrefix
<1>2. CASE ~ (m <= Len(t))
  BY <1>2 DEF IsPrefix
<1> QED
  BY <1>1, <1>2

LEMMA PrefixTransitive ==
    ASSUME NEW S, NEW s \in Seq(S), NEW t \in Seq(S), NEW u \in Seq(S),
           IsPrefix(s, t), IsPrefix(t, u)
    PROVE  IsPrefix(s, u)
<1>1. Len(s) <= Len(t) /\ \A i \in 1..Len(s) : s[i] = t[i]
  BY PrefixByElements
<1>2. Len(t) <= Len(u) /\ \A i \in 1..Len(t) : t[i] = u[i]
  BY PrefixByElements
<1>3. \A i \in 1..Len(s) : s[i] = u[i]
  BY <1>1, <1>2
<1> QED
  BY <1>1, <1>2, <1>3, PrefixByElements

LEMMA TrailByElements ==
    ASSUME NEW rows \in Seq(Row)
    PROVE  /\ trail(rows) \in Seq(Event)
           /\ Len(trail(rows)) = Len(rows)
           /\ \A i \in 1..Len(rows) : trail(rows)[i] = rows[i].event
<1>1. \A i \in 1..Len(rows) : rows[i] \in Row
  OBVIOUS
<1>2. \A i \in 1..Len(rows) : rows[i].event \in Event
  BY <1>1 DEF Row
<1> QED
  BY <1>2 DEF trail

\* Rows that were rewritten one by one, with their events left alone.
LEMMA RewrittenRows ==
    ASSUME NEW rows \in Seq(Row), NEW new \in Seq(Row), Len(new) = Len(rows),
           \A i \in 1..Len(rows) : new[i].event = rows[i].event
    PROVE  trail(new) = trail(rows)
<1>1. /\ trail(rows) \in Seq(Event) /\ trail(new) \in Seq(Event)
      /\ Len(trail(rows)) = Len(trail(new))
      /\ \A i \in 1..Len(trail(rows)) : trail(rows)[i] = trail(new)[i]
  BY TrailByElements
<1> QED
  BY <1>1, SeqEqual

-----------------------------------------------------------------------------
(* The invariant *)

\* What the phases of the handles say of the schema version.
PhasesAgree ==
    /\ \A h \in Handles :
          /\ handle[h].phase \in {"ready", "persisted", "unused"} => version = 3
          /\ handle[h] = Migrating(0) => version \in {0, 3}
          /\ handle[h] = Migrating(1) => version = 1
          /\ handle[h] = Migrating(2) => version \in {2, 3}
    /\ version = 1 =>
          \A g, h \in Handles : handle[g] # Closed /\ handle[h] # Closed => g = h

\* Before version 3 everything belongs to `default` and is in the clear.
OldTables ==
    version # 3 =>
        /\ \A s \in snapshots : s.institution = default /\ s.protection = plain
        /\ \A k \in DOMAIN idempotency : k[1] = default
        /\ \A t \in Trails : t[1] # default => audit_events[t] = <<>>
        /\ \A t \in Trails : \A i \in DOMAIN audit_events[t] :
              audit_events[t][i].protection = plain

\* Snapshots of an engagement are told apart by their revision, and by their content.
Distinct ==
    \A s, t \in snapshots :
        /\ s.institution = t.institution /\ s.engagement = t.engagement
        /\ s.revision = t.revision \/ s.content = t.content
        => s = t

Numbered ==
    \A i \in Institutions, e \in Engagements : \E n \in Nat : revisions(i, e) = 1..n

\* A chain that was persisted is in the trail until its snapshot is saved.
PersistedAreCovered ==
    \A h \in Handles : handle[h].phase = "persisted" =>
        IsPrefix(chain[h], trail(audit_events[<<Bound[h], handle[h].engagement>>]))

StoreInv ==
    /\ TypeOK
    /\ PhasesAgree
    /\ OldTables
    /\ Distinct
    /\ Numbered
    /\ LabelsAreTrue
    /\ SnapshotsAreCovered
    /\ PersistedAreCovered

\* The phases that a handle may be in, and what is in them.
LEMMA PhaseCases ==
    ASSUME NEW p \in Phase
    PROVE  \/ p = Closed \/ p = Ready
           \/ p = Migrating(0) \/ p = Migrating(1) \/ p = Migrating(2)
           \/ p.phase = "persisted" /\ p.engagement \in Engagements
           \/ p.phase = "unused" /\ p.key \in Keys /\ p.request \in Requests
<1>1. 0..2 = {0, 1, 2}
  OBVIOUS
<1> QED
  BY <1>1 DEF Phase, Closed, Ready, Migrating

\* The records that a database of an older schema holds.
LEMMA LegacySnapshot ==
    ASSUME NEW n \in DOMAIN LegacySnapshots
    PROVE  /\ legacy_snapshot(n) \in Snapshot
           /\ legacy_snapshot(n).institution = default
           /\ legacy_snapshot(n).engagement = LegacyEngagement
           /\ legacy_snapshot(n).revision = n
           /\ legacy_snapshot(n).content = SubSeq(LegacyChain, 1, LegacySnapshots[n])
           /\ legacy_snapshot(n).protection = plain
           /\ IsPrefix(legacy_snapshot(n).content, LegacyChain)
           /\ \A i \in DOMAIN LegacySnapshots :
                 legacy_snapshot(i).content = legacy_snapshot(n).content => i = n
<1>1. /\ LegacyChain \in Seq(Event) /\ LegacySnapshots \in Seq(0..Len(LegacyChain))
      /\ \A i, j \in DOMAIN LegacySnapshots : LegacySnapshots[i] = LegacySnapshots[j] => i = j
      /\ default \in Institutions /\ LegacyEngagement \in Engagements
  BY StoreAssumptions
<1> DEFINE cut(m) == SubSeq(LegacyChain, 1, m)
<1>2. ASSUME NEW m \in 0..Len(LegacyChain)
      PROVE  /\ cut(m) \in Seq(Event) /\ Len(cut(m)) = m
             /\ \A i \in 1..m : cut(m)[i] = LegacyChain[i]
  <2>1. m \in Nat /\ m <= Len(LegacyChain) /\ Len(LegacyChain) \in Nat
    BY <1>1
  <2>2. \A i \in 1..m : LegacyChain[i] \in Event
    BY <1>1, <2>1
  <2> QED
    BY <1>1, <2>1, <2>2
<1>3. \A i \in DOMAIN LegacySnapshots : LegacySnapshots[i] \in 0..Len(LegacyChain)
  BY <1>1
<1>4. n \in Nat \ {0}
  BY <1>1
<1>5. plain \in Protection
  BY DEF plain, Protection
<1>6. IsPrefix(cut(LegacySnapshots[n]), LegacyChain)
  <2>1. LegacySnapshots[n] \in 0..Len(LegacyChain) /\ Len(LegacyChain) \in Nat
    BY <1>1, <1>3
  <2>2. /\ cut(LegacySnapshots[n]) \in Seq(Event)
        /\ Len(cut(LegacySnapshots[n])) = LegacySnapshots[n]
        /\ \A i \in 1..LegacySnapshots[n] : cut(LegacySnapshots[n])[i] = LegacyChain[i]
    BY <1>2, <2>1
  <2> HIDE DEF cut
  <2>3. Len(cut(LegacySnapshots[n])) <= Len(LegacyChain)
    BY <2>1, <2>2
  <2> QED
    BY <1>1, <2>2, <2>3, PrefixByElements
<1>7. \A i \in DOMAIN LegacySnapshots :
         cut(LegacySnapshots[i]) = cut(LegacySnapshots[n]) => i = n
  <2> TAKE i \in DOMAIN LegacySnapshots
  <2>1. Len(cut(LegacySnapshots[i])) = LegacySnapshots[i]
        /\ Len(cut(LegacySnapshots[n])) = LegacySnapshots[n]
    BY <1>2, <1>3
  <2> QED
    BY <1>1, <2>1
<1>8. cut(LegacySnapshots[n]) \in Seq(Event)
  BY <1>2, <1>3
<1>9. \A i : legacy_snapshot(i) =
         [institution |-> default, engagement |-> LegacyEngagement, revision |-> i,
          content |-> cut(LegacySnapshots[i]), protection |-> plain]
  BY DEF legacy_snapshot
<1> HIDE DEF cut
<1>10. legacy_snapshot(n) \in Snapshot
  BY <1>1, <1>4, <1>5, <1>8, <1>9 DEF Snapshot
<1> QED
  BY <1>6, <1>7, <1>9, <1>10 DEF cut

LEMMA LegacyTrail ==
    /\ legacy_events \in Seq(Row) /\ trail(legacy_events) = LegacyChain
    /\ \A i \in DOMAIN legacy_events : legacy_events[i].protection = plain
<1>1. plain \in Protection
  BY DEF plain, Protection
<1>2. LegacyChain \in Seq(Event)
  BY StoreAssumptions
<1>3. \A i \in 1..Len(LegacyChain) : [event |-> LegacyChain[i], protection |-> plain] \in Row
  BY <1>1, <1>2 DEF Row
<1>4. /\ legacy_events \in Seq(Row) /\ Len(legacy_events) = Len(LegacyChain)
      /\ \A i \in 1..Len(LegacyChain) : /\ legacy_events[i].event = LegacyChain[i]
                                         /\ legacy_events[i].protection = plain
  BY <1>2, <1>3 DEF legacy_events
<1>5. /\ trail(legacy_events) \in Seq(Event) /\ Len(trail(legacy_events)) = Len(LegacyChain)
      /\ \A i \in 1..Len(LegacyChain) : trail(legacy_events)[i] = LegacyChain[i]
  <2>1. /\ trail(legacy_events) \in Seq(Event)
        /\ Len(trail(legacy_events)) = Len(legacy_events)
        /\ \A i \in 1..Len(legacy_events) : trail(legacy_events)[i] = legacy_events[i].event
    BY <1>4, TrailByElements
  <2> QED
    BY <1>4, <2>1
<1>6. trail(legacy_events) = LegacyChain
  BY <1>2, <1>5, SeqEqual
<1>7. ASSUME NEW i \in DOMAIN legacy_events
      PROVE  legacy_events[i].protection = plain
  <2>1. i \in 1..Len(LegacyChain)
    BY <1>4
  <2> QED
    BY <1>4, <2>1
<1> QED
  BY <1>4, <1>6, <1>7

LEMMA InitEstablishes == Init => StoreInv
<1> SUFFICES ASSUME Init PROVE StoreInv
  OBVIOUS
<1> DEFINE legacy == version \in {1, 2}
           old == {legacy_snapshot(n) : n \in DOMAIN LegacySnapshots}
<1>1. /\ snapshots = IF legacy THEN old ELSE {}
      /\ audit_events = [t \in Trails |->
            IF legacy /\ t = <<default, LegacyEngagement>> THEN legacy_events ELSE <<>>]
      /\ idempotency = [k \in IF legacy THEN {default} \X DOMAIN LegacyRequests ELSE {} |->
            LegacyRequests[k[2]]]
      /\ version \in 0..3
      /\ handle = [h \in Handles |-> Closed]
      /\ chain = [h \in Handles |-> <<>>]
  BY StoreAssumptions DEF Init
<1>2. \A s \in snapshots : legacy /\ \E n \in DOMAIN LegacySnapshots : s = legacy_snapshot(n)
  BY <1>1
<1>3. /\ LegacyRequests \in [DOMAIN LegacyRequests -> Requests] /\ DOMAIN LegacyRequests \subseteq Keys
      /\ default \in Institutions /\ LegacyEngagement \in Engagements
  BY StoreAssumptions
<1> HIDE DEF legacy
<1>4. \A t \in Trails : /\ audit_events[t] \in Seq(Row)
                        /\ t[1] # default => audit_events[t] = <<>>
                        /\ \A i \in DOMAIN audit_events[t] :
                              audit_events[t][i].protection = plain
  <2> TAKE t \in Trails
  <2>1. (audit_events[t] = legacy_events /\ t[1] = default) \/ audit_events[t] = <<>>
    BY <1>1
  <2>2. <<>> \in Seq(Row) /\ DOMAIN <<>> = {}
    OBVIOUS
  <2> QED
    BY <2>1, <2>2, LegacyTrail
<1>5. audit_events \in [Trails -> Seq(Row)]
  BY <1>1, <1>4
<1>6. /\ idempotency \in [DOMAIN idempotency -> Requests]
      /\ DOMAIN idempotency \subseteq Institutions \X Keys
      /\ \A k \in DOMAIN idempotency : k[1] = default
  <2> DEFINE D == IF legacy THEN {default} \X DOMAIN LegacyRequests ELSE {}
  <2>1. \A k \in D : k[1] = default /\ k[2] \in DOMAIN LegacyRequests
                     /\ k \in Institutions \X Keys /\ LegacyRequests[k[2]] \in Requests
    BY <1>3
  <2>2. idempotency = [k \in D |-> LegacyRequests[k[2]]]
    BY <1>1
  <2> HIDE DEF D
  <2> QED
    BY <2>1, <2>2
<1>7. snapshots \subseteq Snapshot
      /\ \A s \in snapshots : s.institution = default /\ s.protection = plain
  BY <1>2, LegacySnapshot
<1>8. TypeOK
  <2>1. handle \in [Handles -> Phase] /\ \A h \in Handles : handle[h].phase = "closed"
    BY <1>1 DEF Phase, Closed
  <2>2. chain \in [Handles -> Seq(Event)]
    BY <1>1
  <2> QED
    BY <1>1, <1>5, <1>6, <1>7, <2>1, <2>2 DEF TypeOK
<1>9. PhasesAgree /\ PersistedAreCovered
  BY <1>1 DEF PhasesAgree, PersistedAreCovered, Closed, Migrating
<1>10. OldTables /\ LabelsAreTrue
  BY <1>4, <1>6, <1>7 DEF OldTables, LabelsAreTrue
<1>11. SnapshotsAreCovered
  <2> SUFFICES ASSUME NEW s \in snapshots
               PROVE  IsPrefix(s.content, trail(audit_events[<<s.institution, s.engagement>>]))
    BY DEF SnapshotsAreCovered
  <2>1. PICK n \in DOMAIN LegacySnapshots : s = legacy_snapshot(n)
    BY <1>2
  <2>2. <<default, LegacyEngagement>> \in Trails /\ legacy
    BY <1>2, <1>3 DEF Trails
  <2>3. audit_events[<<default, LegacyEngagement>>] = legacy_events
    BY <1>1, <2>2
  <2>4. /\ s.institution = default /\ s.engagement = LegacyEngagement
        /\ IsPrefix(s.content, LegacyChain)
    BY <2>1, LegacySnapshot
  <2> QED
    BY <2>3, <2>4, LegacyTrail
<1>12. Distinct
  BY <1>2, LegacySnapshot DEF Distinct
<1>13. Numbered
  <2> SUFFICES ASSUME NEW i \in Institutions, NEW e \in Engagements
               PROVE  \E n \in Nat : revisions(i, e) = 1..n
    BY DEF Numbered
  <2>1. CASE legacy /\ i = default /\ e = LegacyEngagement
    <3>1. DOMAIN LegacySnapshots = 1..Len(LegacySnapshots) /\ Len(LegacySnapshots) \in Nat
      BY StoreAssumptions
    <3>2. revisions(i, e) = DOMAIN LegacySnapshots
      <4>1. snapshots = old
        BY <1>1, <2>1
      <4>2. \A n : n \in revisions(i, e) <=>
               \E s \in snapshots : s.institution = i /\ s.engagement = e /\ s.revision = n
        BY DEF revisions
      <4>3. \A n : n \in revisions(i, e) => n \in DOMAIN LegacySnapshots
        BY <4>1, <4>2, LegacySnapshot
      <4>4. \A n \in DOMAIN LegacySnapshots : n \in revisions(i, e)
        BY <2>1, <4>1, <4>2, LegacySnapshot
      <4> QED
        BY <4>3, <4>4
    <3> QED
      BY <3>1, <3>2
  <2>2. CASE ~ (legacy /\ i = default /\ e = LegacyEngagement)
    <3>1. revisions(i, e) = {}
      BY <1>2, <2>2, LegacySnapshot DEF revisions
    <3>2. 1..0 = {}
      OBVIOUS
    <3> QED
      BY <3>1, <3>2
  <2> QED
    BY <2>1, <2>2
<1> QED
  BY <1>8, <1>9, <1>10, <1>11, <1>12, <1>13 DEF StoreInv

-----------------------------------------------------------------------------
(* Steps *)

LEMMA TrailTypes ==
    ASSUME TypeOK, NEW h \in Handles, NEW e \in Engagements
    PROVE  /\ <<Bound[h], e>> \in Trails /\ Bound[h] \in Institutions
           /\ audit_events[<<Bound[h], e>>] \in Seq(Row)
           /\ trail(audit_events[<<Bound[h], e>>]) \in Seq(Event)
           /\ chain[h] \in Seq(Event)
<1>1. <<Bound[h], e>> \in Trails /\ Bound[h] \in Institutions
  BY StoreAssumptions DEF Trails
<1> QED
  BY <1>1, TrailByElements DEF TypeOK

\* A step that leaves snapshots and trails alone keeps what is said of them.
LEMMA TablesKept ==
    ASSUME StoreInv, UNCHANGED <<snapshots, audit_events>>,
           TypeOK', PhasesAgree',
           version' # 3 => version # 3 /\ UNCHANGED idempotency,
           \A h \in Handles : handle'[h].phase = "persisted" =>
              handle'[h] = handle[h] /\ chain'[h] = chain[h]
    PROVE  StoreInv'
<1>1. OldTables'
  BY DEF StoreInv, OldTables
<1>2. Distinct' /\ LabelsAreTrue'
  BY DEF StoreInv, Distinct, LabelsAreTrue
<1>3. Numbered'
  BY DEF StoreInv, Numbered, revisions
<1>4. SnapshotsAreCovered'
  BY DEF StoreInv, SnapshotsAreCovered
<1>5. PersistedAreCovered'
  <2> SUFFICES ASSUME NEW h \in Handles, handle'[h].phase = "persisted"
               PROVE  IsPrefix(chain'[h],
                               trail(audit_events'[<<Bound[h], handle'[h].engagement>>]))
    BY DEF PersistedAreCovered
  <2> QED
    BY DEF StoreInv, PersistedAreCovered
<1> QED
  BY <1>1, <1>2, <1>3, <1>4, <1>5 DEF StoreInv

\* A handle that goes to another phase.
LEMMA PhaseType ==
    ASSUME TypeOK, NEW h \in Handles, NEW p \in Phase,
           handle' = [handle EXCEPT ![h] = p]
    PROVE  /\ handle' \in [Handles -> Phase] /\ handle'[h] = p
           /\ \A g \in Handles \ {h} : handle'[g] = handle[g]
  BY DEF TypeOK

LEMMA PlainPhases ==
    /\ Closed \in Phase /\ Ready \in Phase
    /\ \A v \in 0..2 : Migrating(v) \in Phase
    /\ Closed.phase = "closed" /\ Ready.phase = "ready"
    /\ \A v : Migrating(v).phase = "migrating" /\ Migrating(v).from = v
  BY DEF Phase, Closed, Ready, Migrating

LEMMA OpenStep ==
    ASSUME ExclusiveUpgrade, StoreInv, NEW h \in Handles, open(h)
    PROVE  StoreInv'
<1> DEFINE p == IF version = 3 THEN Ready ELSE Migrating(version)
<1>1. p \in Phase /\ p.phase # "persisted"
  BY PlainPhases DEF StoreInv, TypeOK
<1>2. handle' = [handle EXCEPT ![h] = p]
      /\ UNCHANGED <<version, snapshots, audit_events, idempotency, chain>>
  BY DEF open
<1>3. /\ handle' \in [Handles -> Phase] /\ handle'[h] = p
      /\ \A g \in Handles \ {h} : handle'[g] = handle[g]
  BY <1>1, <1>2, PhaseType DEF StoreInv
<1>4. p.phase \in {"ready", "persisted", "unused"} => version = 3
  BY PlainPhases
<1>5. \A v \in 0..2 : p = Migrating(v) => version = v
  BY PlainPhases
<1>6. version = 1 => \A g \in Handles \ {h} : handle[g] = Closed
  BY DEF open
<1> HIDE DEF p
<1>7. TypeOK'
  BY <1>2, <1>3, <1>4 DEF StoreInv, TypeOK
<1>8. PhasesAgree'
  <2>1. \A g \in Handles :
           /\ handle'[g].phase \in {"ready", "persisted", "unused"} => version = 3
           /\ handle'[g] = Migrating(0) => version \in {0, 3}
           /\ handle'[g] = Migrating(1) => version = 1
           /\ handle'[g] = Migrating(2) => version \in {2, 3}
    BY <1>3, <1>4, <1>5 DEF StoreInv, PhasesAgree
  <2> QED
    BY <1>2, <1>3, <1>6, <2>1 DEF PhasesAgree
<1> QED
  BY <1>1, <1>2, <1>3, <1>7, <1>8, TablesKept

\* A handle is closed: its process ended, or its constructor raised.
LEMMA CloseStep ==
    ASSUME StoreInv, NEW h \in Handles,
           handle' = [handle EXCEPT ![h] = Closed],
           chain' \in [Handles -> Seq(Event)],
           \A g \in Handles \ {h} : chain'[g] = chain[g],
           UNCHANGED <<version, snapshots, audit_events, idempotency>>
    PROVE  StoreInv'
<1>1. /\ handle' \in [Handles -> Phase] /\ handle'[h] = Closed
      /\ \A g \in Handles \ {h} : handle'[g] = handle[g]
  BY PhaseType, PlainPhases DEF StoreInv
<1>2. TypeOK'
  BY <1>1, PlainPhases DEF StoreInv, TypeOK
<1>3. PhasesAgree'
  BY <1>1, PlainPhases DEF StoreInv, PhasesAgree, Closed, Migrating
<1> QED
  BY <1>1, <1>2, <1>3, PlainPhases, TablesKept

LEMMA OpenFails ==
    ASSUME StoreInv, NEW h \in Handles, open_fails(h)
    PROVE  StoreInv'
<1>1. handle' = [handle EXCEPT ![h] = Closed] /\ chain' = chain
      /\ UNCHANGED <<version, snapshots, audit_events, idempotency>>
  BY DEF open_fails
<1>2. chain' \in [Handles -> Seq(Event)]
  BY <1>1 DEF StoreInv, TypeOK
<1> QED
  BY <1>1, <1>2, CloseStep

LEMMA CloseHandle ==
    ASSUME StoreInv, NEW h \in Handles, close(h)
    PROVE  StoreInv'
<1>1. handle' = [handle EXCEPT ![h] = Closed] /\ chain' = [chain EXCEPT ![h] = <<>>]
      /\ UNCHANGED <<version, snapshots, audit_events, idempotency>>
  BY DEF close
<1>2. chain' \in [Handles -> Seq(Event)] /\ \A g \in Handles \ {h} : chain'[g] = chain[g]
  <2>1. <<>> \in Seq(Event)
    OBVIOUS
  <2> QED
    BY <1>1, <2>1 DEF StoreInv, TypeOK
<1> QED
  BY <1>1, <1>2, CloseStep

\* A handle becomes ready on a database that has, or gets, the current schema.
LEMMA ReadyStep ==
    ASSUME StoreInv, NEW h \in Handles, version \in {0, 2, 3}, version' = 3,
           handle' = [handle EXCEPT ![h] = Ready],
           idempotency' \in [DOMAIN idempotency' -> Requests],
           DOMAIN idempotency' \subseteq Institutions \X Keys,
           UNCHANGED <<snapshots, audit_events, chain>>
    PROVE  StoreInv'
<1>1. /\ handle' \in [Handles -> Phase] /\ handle'[h] = Ready
      /\ \A g \in Handles \ {h} : handle'[g] = handle[g]
  BY PhaseType, PlainPhases DEF StoreInv
<1>2. TypeOK'
  BY <1>1, PlainPhases DEF StoreInv, TypeOK
<1>3. PhasesAgree'
  <2> SUFFICES ASSUME NEW g \in Handles
               PROVE  handle'[g] # Migrating(1)
    BY DEF PhasesAgree
  <2>1. handle[g] # Migrating(1)
    BY DEF StoreInv, PhasesAgree
  <2> QED
    BY <1>1, <2>1 DEF Ready, Migrating
<1> QED
  BY <1>1, <1>2, <1>3, PlainPhases, TablesKept

LEMMA CreateStep ==
    ASSUME StoreInv, NEW h \in Handles, create_v3_schema(h)
    PROVE  StoreInv'
<1>1. CASE open_fails(h)
  BY <1>1, OpenFails
<1>2. CASE /\ version = 0
           /\ version' = 3
           /\ handle' = [handle EXCEPT ![h] = Ready]
           /\ UNCHANGED <<snapshots, audit_events, idempotency, chain>>
  BY <1>2, ReadyStep DEF StoreInv, TypeOK
<1> QED
  BY <1>1, <1>2 DEF create_v3_schema

LEMMA AddColumnStep ==
    ASSUME StoreInv, NEW h \in Handles, migrate_v2_to_v3(h)
    PROVE  StoreInv'
<1>1. CASE open_fails(h)
  BY <1>1, OpenFails
<1>2. CASE /\ version = 2
           /\ version' = 3
           /\ handle' = [handle EXCEPT ![h] = Ready]
           /\ UNCHANGED <<snapshots, audit_events, idempotency, chain>>
  BY <1>2, ReadyStep DEF StoreInv, TypeOK
<1> QED
  BY <1>1, <1>2 DEF migrate_v2_to_v3

LEMMA RecordStep ==
    ASSUME StoreInv, NEW h \in Handles, NEW e \in Engagements, NEW id \in Ids,
           record(h, e, id)
    PROVE  StoreInv'
<1> DEFINE new == [engagement |-> e, id |-> id]
<1>1. new \in Event
  BY DEF Event
<1>2. /\ chain' = [chain EXCEPT ![h] = Append(@, new)]
      /\ UNCHANGED <<version, snapshots, audit_events, idempotency, handle>>
      /\ handle[h] = Ready
  BY DEF record
<1> HIDE DEF new
<1>3. chain' \in [Handles -> Seq(Event)] /\ \A g \in Handles \ {h} : chain'[g] = chain[g]
  BY <1>1, <1>2 DEF StoreInv, TypeOK
<1>4. TypeOK' /\ PhasesAgree'
  BY <1>2, <1>3 DEF StoreInv, TypeOK, PhasesAgree
<1> QED
  BY <1>2, <1>3, <1>4, PlainPhases, TablesKept

LEMMA SelectStep ==
    ASSUME StoreInv, NEW h \in Handles, NEW k \in Keys, NEW request \in Requests,
           select_idempotency(h, k, request)
    PROVE  StoreInv'
<1> DEFINE p == [phase |-> "unused", key |-> k, request |-> request]
<1>1. p \in Phase /\ p.phase = "unused" /\ \A v : p # Migrating(v)
  BY DEF Phase, Migrating
<1>2. p # Closed
  BY <1>1, PlainPhases
<1>3. /\ handle' = [handle EXCEPT ![h] = p] /\ handle[h] = Ready
      /\ UNCHANGED <<version, snapshots, audit_events, idempotency, chain>>
  BY DEF select_idempotency
<1> HIDE DEF p
<1>4. /\ handle' \in [Handles -> Phase] /\ handle'[h] = p
      /\ \A g \in Handles \ {h} : handle'[g] = handle[g]
  BY <1>1, <1>3, PhaseType DEF StoreInv
<1>5. version = 3
  BY <1>3, PlainPhases DEF StoreInv, PhasesAgree
<1>6. TypeOK'
  BY <1>3, <1>4, <1>5 DEF StoreInv, TypeOK
<1>7. PhasesAgree'
  <2> SUFFICES ASSUME NEW g \in Handles
               PROVE  handle'[g] # Migrating(1)
    BY <1>3, <1>5 DEF PhasesAgree
  <2> QED
    BY <1>1, <1>4, <1>5 DEF StoreInv, PhasesAgree
<1> QED
  BY <1>1, <1>3, <1>4, <1>6, <1>7, TablesKept

\* An unused key is recorded, or was recorded in the meantime.
LEMMA InsertTypes ==
    ASSUME StoreInv, NEW h \in Handles, insert_idempotency(h)
    PROVE  /\ version = 3
           /\ idempotency' \in [DOMAIN idempotency' -> Requests]
           /\ DOMAIN idempotency' \subseteq Institutions \X Keys
           /\ \A k \in DOMAIN idempotency :
                 k \in DOMAIN idempotency' /\ idempotency'[k] = idempotency[k]
<1>1. handle[h] \in Phase /\ handle[h].phase = "unused"
  BY DEF insert_idempotency, StoreInv, TypeOK
<1>2. handle[h].key \in Keys /\ handle[h].request \in Requests
  BY <1>1, PhaseCases, PlainPhases
<1>3. version = 3
  BY <1>1 DEF StoreInv, PhasesAgree
<1> DEFINE k == <<Bound[h], handle[h].key>>
<1>4. k \in Institutions \X Keys
  BY <1>2, StoreAssumptions
<1>5. idempotency \in [DOMAIN idempotency -> Requests]
      /\ DOMAIN idempotency \subseteq Institutions \X Keys
  BY DEF StoreInv, TypeOK
<1>6. idempotency' = IF k \in DOMAIN idempotency THEN idempotency
                     ELSE [x \in DOMAIN idempotency \cup {k} |->
                             IF x = k THEN handle[h].request ELSE idempotency[x]]
  BY DEF insert_idempotency
<1> HIDE DEF k
<1> QED
  BY <1>2, <1>3, <1>4, <1>5, <1>6

LEMMA InsertStep ==
    ASSUME StoreInv, NEW h \in Handles, insert_idempotency(h)
    PROVE  StoreInv'
<1>1. /\ handle' = [handle EXCEPT ![h] = Ready]
      /\ UNCHANGED <<version, snapshots, audit_events, chain>>
  BY DEF insert_idempotency
<1> QED
  BY <1>1, InsertTypes, ReadyStep

\* The first migration copies records of one institution, and nothing is protected yet.
LEMMA CopyTypes ==
    ASSUME StoreInv, NEW h \in Handles, handle[h] = Migrating(1)
    PROVE  /\ version = 1
           /\ \A s \in snapshots : s.institution = default /\ s.protection = plain
           /\ \A k \in DOMAIN idempotency : k[1] = default
           /\ \A t \in Trails :
                 audit_events[t] = IF t[1] = default THEN copied_events(t[2]) ELSE <<>>
<1>1. version = 1
  BY DEF StoreInv, PhasesAgree
<1>2. /\ \A s \in snapshots : s.institution = default /\ s.protection = plain
      /\ \A k \in DOMAIN idempotency : k[1] = default
      /\ \A t \in Trails : t[1] # default => audit_events[t] = <<>>
      /\ \A t \in Trails : \A n \in DOMAIN audit_events[t] :
            audit_events[t][n].protection = plain
  BY <1>1 DEF StoreInv, OldTables
<1>3. ASSUME NEW e \in Engagements
      PROVE  copied_events(e) = audit_events[<<default, e>>]
  <2> DEFINE owners == {i \in Institutions : audit_events[<<i, e>>] # <<>>}
             old == audit_events[<<default, e>>]
             rows == IF owners = {} THEN <<>>
                     ELSE audit_events[<<CHOOSE i \in owners : TRUE, e>>]
             new == [n \in DOMAIN rows |->
                       [rows[n] EXCEPT !.protection = unlabelled(@)]]
  <2>1. <<default, e>> \in Trails /\ default \in Institutions
    BY StoreAssumptions DEF Trails
  <2>2. \A i \in Institutions : i # default => audit_events[<<i, e>>] = <<>>
    <3> TAKE i \in Institutions
    <3>1. <<i, e>> \in Trails /\ <<i, e>>[1] = i
      BY DEF Trails
    <3> QED
      BY <1>2, <3>1
  <2>3. owners = {} \/ owners = {default}
    BY <2>1, <2>2
  <2>4. rows = old
    <3>1. CASE owners = {}
      BY <2>1, <3>1
    <3>2. CASE owners = {default}
      <4>1. (CHOOSE i \in owners : TRUE) = default
        BY <3>2
      <4> QED
        BY <3>2, <4>1
    <3> QED
      BY <2>3, <3>1, <3>2
  <2>5. old \in Seq(Row) /\ \A n \in DOMAIN old : old[n].protection = plain
    BY <1>2, <2>1 DEF StoreInv, TypeOK
  <2>6. copied_events(e) = new
    BY DEF copied_events
  <2> HIDE DEF rows, old, owners
  <2>7. \A n \in DOMAIN old : [old[n] EXCEPT !.protection = unlabelled(@)] = old[n]
    <3> TAKE n \in DOMAIN old
    <3>1. old[n] \in Row /\ old[n].protection = plain
      BY <2>5
    <3>2. unlabelled(plain) = plain
      BY DEF unlabelled, plain
    <3> QED
      BY <3>1, <3>2 DEF Row
  <2>8. new = [n \in DOMAIN old |-> old[n]]
    BY <2>4, <2>7
  <2>9. old = [n \in DOMAIN old |-> old[n]]
    BY <2>5
  <2> QED
    BY <2>6, <2>8, <2>9 DEF old
<1>4. ASSUME NEW t \in Trails
      PROVE  audit_events[t] = IF t[1] = default THEN copied_events(t[2]) ELSE <<>>
  <2>1. t = <<t[1], t[2]>> /\ t[2] \in Engagements
    BY DEF Trails
  <2> QED
    BY <1>2, <1>3, <2>1
<1> QED
  BY <1>1, <1>2, <1>4

\* The migration changes no record.
LEMMA MigrateTypes ==
    ASSUME StoreInv, NEW h \in Handles, migrate_v1_to_v2(h), ~ copy_conflict
    PROVE  /\ version = 1 /\ version' = 2
           /\ UNCHANGED <<snapshots, audit_events, idempotency, chain>>
           /\ handle' = [handle EXCEPT ![h] = Migrating(2)]
<1>1. /\ version = 1
      /\ \A s \in snapshots : s.institution = default /\ s.protection = plain
      /\ \A k \in DOMAIN idempotency : k[1] = default
      /\ \A t \in Trails :
            audit_events[t] = IF t[1] = default THEN copied_events(t[2]) ELSE <<>>
  BY CopyTypes DEF migrate_v1_to_v2
<1>2. /\ version' = 2
      /\ snapshots' = {[s EXCEPT !.institution = default, !.protection = unlabelled(@)] :
                          s \in snapshots}
      /\ audit_events' = [t \in Trails |->
            IF t[1] = default THEN copied_events(t[2]) ELSE <<>>]
      /\ idempotency' = [k \in {default} \X {x[2] : x \in DOMAIN idempotency} |->
            idempotency[CHOOSE x \in DOMAIN idempotency : x[2] = k[2]]]
      /\ handle' = [handle EXCEPT ![h] = Migrating(2)]
      /\ chain' = chain
  BY DEF migrate_v1_to_v2
<1>3. idempotency' = idempotency
  <2> DEFINE D == DOMAIN idempotency
             copied == {default} \X {x[2] : x \in D}
             row(k) == CHOOSE x \in D : x[2] = k[2]
  <2>1. D \subseteq Institutions \X Keys /\ idempotency = [k \in D |-> idempotency[k]]
    BY DEF StoreInv, TypeOK
  <2>2. \A k \in D : k = <<default, k[2]>>
    BY <1>1, <2>1
  <2>3. copied = D
    BY <2>2
  <2>4. \A k \in D : row(k) = k
    <3> TAKE k \in D
    <3>1. \A x \in D : x[2] = k[2] => x = k
      BY <2>2
    <3> QED
      BY <3>1
  <2>5. idempotency' = [k \in copied |-> idempotency[row(k)]]
    BY <1>2
  <2> HIDE DEF D, copied, row
  <2>6. idempotency' = [k \in D |-> idempotency[k]]
    BY <2>3, <2>4, <2>5
  <2> QED
    BY <2>1, <2>6 DEF D
<1>4. audit_events' = audit_events
  <2>1. audit_events \in [Trails -> Seq(Row)]
    BY DEF StoreInv, TypeOK
  <2> QED
    BY <1>1, <1>2, <2>1
<1>5. snapshots' = snapshots
  <2>1. \A s \in snapshots :
           [s EXCEPT !.institution = default, !.protection = unlabelled(@)] = s
    <3> TAKE s \in snapshots
    <3>1. s \in Snapshot /\ s.institution = default /\ s.protection = plain
      BY <1>1 DEF StoreInv, TypeOK
    <3>2. unlabelled(plain) = plain
      BY DEF unlabelled, plain
    <3> QED
      BY <3>1, <3>2 DEF Snapshot
  <2> QED
    BY <1>2, <2>1
<1> QED
  BY <1>1, <1>2, <1>3, <1>4, <1>5

LEMMA MigrateStep ==
    ASSUME StoreInv, NEW h \in Handles, migrate_v1_to_v2(h)
    PROVE  StoreInv'
<1>1. CASE copy_conflict
  BY <1>1, OpenFails DEF migrate_v1_to_v2
<1>2. CASE ~ copy_conflict
  <2>1. /\ version = 1 /\ version' = 2
        /\ UNCHANGED <<snapshots, audit_events, idempotency, chain>>
        /\ handle' = [handle EXCEPT ![h] = Migrating(2)]
    BY <1>2, MigrateTypes
  <2>2. /\ handle' \in [Handles -> Phase] /\ handle'[h] = Migrating(2)
        /\ \A g \in Handles \ {h} : handle'[g] = handle[g]
    <3>1. Migrating(2) \in Phase
      BY PlainPhases
    <3> QED
      BY <2>1, <3>1, PhaseType DEF StoreInv
  <2>3. handle[h] # Closed
    BY PlainPhases DEF migrate_v1_to_v2
  <2>4. \A g \in Handles \ {h} : handle'[g] = Closed
    BY <2>1, <2>2, <2>3 DEF StoreInv, PhasesAgree
  <2>5. TypeOK'
    BY <2>1, <2>2 DEF StoreInv, TypeOK
  <2>6. PhasesAgree'
    BY <2>1, <2>2, <2>4 DEF PhasesAgree, Migrating, Closed
  <2>7. OldTables'
    BY <2>1 DEF StoreInv, OldTables
  <2>8. Distinct' /\ LabelsAreTrue' /\ SnapshotsAreCovered'
    BY <2>1 DEF StoreInv, Distinct, LabelsAreTrue, SnapshotsAreCovered
  <2>9. Numbered'
    BY <2>1 DEF StoreInv, Numbered, revisions
  <2>10. PersistedAreCovered'
    BY <2>2, <2>4, PlainPhases DEF PersistedAreCovered
  <2> QED
    BY <2>5, <2>6, <2>7, <2>8, <2>9, <2>10 DEF StoreInv
<1> QED
  BY <1>1, <1>2

\* What is persisted is the chain, and the stored trail was a prefix of it.
LEMMA PersistTypes ==
    ASSUME StoreInv, NEW h \in Handles, NEW e \in Engagements, persist_audit_chain(h, e)
    PROVE  LET t == <<Bound[h], e>>
           IN  /\ t \in Trails
               /\ audit_events' \in [Trails -> Seq(Row)]
               /\ \A u \in Trails \ {t} : audit_events'[u] = audit_events[u]
               /\ trail(audit_events'[t]) = chain[h]
               /\ IsPrefix(trail(audit_events[t]), chain[h])
               /\ \A i \in DOMAIN audit_events'[t] :
                     audit_events'[t][i].protection \in {plain, sealed}
<1> DEFINE t == <<Bound[h], e>>
           stored == audit_events[t]
           added == SubSeq(chain[h], Len(stored) + 1, Len(chain[h]))
           more == [i \in DOMAIN added |->
                      [event |-> added[i], protection |-> _protect_document(h)]]
           new == stored \o more
<1>1. /\ t \in Trails /\ stored \in Seq(Row) /\ chain[h] \in Seq(Event)
      /\ trail(stored) \in Seq(Event)
  BY TrailTypes DEF StoreInv
<1>2. /\ Len(stored) <= Len(chain[h])
      /\ \A i \in DOMAIN stored : stored[i].event = chain[h][i]
      /\ audit_events' = [audit_events EXCEPT ![t] = new]
  BY DEF persist_audit_chain, exact_prefix
<1>3. \A i \in DOMAIN stored : stored[i].protection \in {plain, sealed}
  BY <1>1 DEF StoreInv, LabelsAreTrue
<1>4. _protect_document(h) \in {plain, sealed} /\ {plain, sealed} \subseteq Protection
  BY DEF _protect_document, plain, sealed, Protection
<1> HIDE DEF t, stored
<1> DEFINE m == Len(stored)
           all == Len(chain[h])
<1>5. m \in Nat /\ all \in Nat /\ m <= all /\ DOMAIN stored = 1..m
  BY <1>1, <1>2
<1>6. /\ added \in Seq(Event) /\ Len(added) = all - m
      /\ \A i \in 1..(all - m) : added[i] = chain[h][m + i]
  <2> DEFINE c == chain[h]
  <2>1. c \in Seq(Event) /\ m \in Nat /\ m <= Len(c) /\ Len(c) \in Nat
    BY <1>1, <1>5
  <2> HIDE DEF c, m
  <2>2. \A i \in (m + 1)..Len(c) : c[i] \in Event
    BY <2>1
  <2>3. /\ SubSeq(c, m + 1, Len(c)) \in Seq(Event)
        /\ Len(SubSeq(c, m + 1, Len(c))) = Len(c) - m
        /\ \A i \in 1..(Len(c) - m) : SubSeq(c, m + 1, Len(c))[i] = c[m + i]
    BY <2>1, <2>2, SubSeqProperties
  <2> QED
    BY <2>3 DEF c, m
<1> HIDE DEF added
<1>7. /\ more \in Seq(Row) /\ Len(more) = all - m
      /\ \A i \in 1..(all - m) : /\ more[i].event = added[i]
                                 /\ more[i].protection \in {plain, sealed}
  <2>1. DOMAIN added = 1..(all - m)
    BY <1>6
  <2>2. \A i \in 1..(all - m) :
           [event |-> added[i], protection |-> _protect_document(h)] \in Row
    BY <1>4, <1>6, <2>1 DEF Row
  <2> QED
    BY <1>4, <1>5, <2>1, <2>2
<1> HIDE DEF more
<1>8. /\ new \in Seq(Row) /\ Len(new) = all
      /\ \A i \in 1..m : new[i] = stored[i]
      /\ \A i \in (m + 1)..all : new[i] = more[i - m]
  BY <1>1, <1>5, <1>7
<1> HIDE DEF new
<1>9. \A i \in 1..all : /\ new[i].event = chain[h][i]
                        /\ new[i].protection \in {plain, sealed}
  <2> TAKE i \in 1..all
  <2>1. CASE i \in 1..m
    BY <1>2, <1>3, <1>5, <1>8, <2>1
  <2>2. CASE i \notin 1..m
    <3>1. i \in (m + 1)..all /\ i - m \in 1..(all - m) /\ m + (i - m) = i
      BY <1>5, <2>2
    <3>2. new[i] = more[i - m]
      BY <1>8, <3>1
    <3>3. more[i - m].event = added[i - m] /\ more[i - m].protection \in {plain, sealed}
      BY <1>7, <3>1
    <3>4. added[i - m] = chain[h][m + (i - m)]
      BY <1>6, <3>1
    <3> QED
      BY <3>1, <3>2, <3>3, <3>4
  <2> QED
    BY <2>1, <2>2
<1>10. trail(new) = chain[h]
  <2>1. /\ trail(new) \in Seq(Event) /\ Len(trail(new)) = all
        /\ \A i \in 1..all : trail(new)[i] = chain[h][i]
    BY <1>8, <1>9, TrailByElements
  <2> QED
    BY <1>1, <2>1, SeqEqual
<1>11. IsPrefix(trail(stored), chain[h])
  <2>1. /\ Len(trail(stored)) = m
        /\ \A i \in 1..m : trail(stored)[i] = chain[h][i]
    BY <1>1, <1>2, <1>5, TrailByElements
  <2> QED
    BY <1>1, <1>5, <2>1, PrefixByElements
<1>12. /\ audit_events' \in [Trails -> Seq(Row)] /\ audit_events'[t] = new
       /\ \A u \in Trails \ {t} : audit_events'[u] = audit_events[u]
  BY <1>1, <1>2, <1>8 DEF StoreInv, TypeOK
<1>13. \A i \in DOMAIN new : new[i].protection \in {plain, sealed}
  BY <1>8, <1>9
<1> QED
  BY <1>1, <1>10, <1>11, <1>12, <1>13 DEF t, stored

\* Trails that only grow still cover what they covered.
LEMMA CoverageGrows ==
    ASSUME StoreInv, NEW t \in Trails, NEW c \in Seq(Event),
           audit_events' \in [Trails -> Seq(Row)],
           IsPrefix(c, trail(audit_events[t])),
           IsPrefix(trail(audit_events[t]), trail(audit_events'[t]))
    PROVE  IsPrefix(c, trail(audit_events'[t]))
<1>1. trail(audit_events[t]) \in Seq(Event) /\ trail(audit_events'[t]) \in Seq(Event)
  BY TrailByElements DEF StoreInv, TypeOK
<1> QED
  BY <1>1, PrefixTransitive

LEMMA PersistStep ==
    ASSUME StoreInv, NEW h \in Handles, NEW e \in Engagements, persist_audit_chain(h, e)
    PROVE  StoreInv'
<1> DEFINE t == <<Bound[h], e>>
           p == [phase |-> "persisted", engagement |-> e]
<1>1. /\ t \in Trails
      /\ audit_events' \in [Trails -> Seq(Row)]
      /\ \A u \in Trails \ {t} : audit_events'[u] = audit_events[u]
      /\ trail(audit_events'[t]) = chain[h]
      /\ IsPrefix(trail(audit_events[t]), chain[h])
      /\ \A i \in DOMAIN audit_events'[t] :
            audit_events'[t][i].protection \in {plain, sealed}
  BY PersistTypes
<1>2. /\ version = 3 /\ handle[h] = Ready
      /\ handle' = [handle EXCEPT ![h] = p]
      /\ UNCHANGED <<version, snapshots, idempotency, chain>>
  BY DEF persist_audit_chain
<1>3. p \in Phase /\ p.phase = "persisted" /\ p.engagement = e /\ \A v : p # Migrating(v)
  BY DEF Phase, Migrating
<1> HIDE DEF p
<1>4. /\ handle' \in [Handles -> Phase] /\ handle'[h] = p
      /\ \A g \in Handles \ {h} : handle'[g] = handle[g]
  BY <1>2, <1>3, PhaseType DEF StoreInv
<1>5. \A u \in Trails : /\ IsPrefix(trail(audit_events[u]), trail(audit_events'[u]))
                        /\ trail(audit_events'[u]) \in Seq(Event)
  <2> TAKE u \in Trails
  <2>1. trail(audit_events[u]) \in Seq(Event) /\ trail(audit_events'[u]) \in Seq(Event)
    BY <1>1, TrailByElements DEF StoreInv, TypeOK
  <2>2. IsPrefix(trail(audit_events[u]), trail(audit_events[u]))
    BY <2>1, PrefixByElements
  <2> QED
    BY <1>1, <2>1, <2>2
<1> HIDE DEF t
<1>6. TypeOK'
  BY <1>1, <1>2, <1>4 DEF StoreInv, TypeOK
<1>7. PhasesAgree'
  BY <1>2, <1>3, <1>4 DEF StoreInv, PhasesAgree
<1>8. OldTables' /\ Distinct'
  BY <1>2 DEF StoreInv, OldTables, Distinct
<1>9. Numbered'
  BY <1>2 DEF StoreInv, Numbered, revisions
<1>10. LabelsAreTrue'
  BY <1>1, <1>2 DEF StoreInv, LabelsAreTrue
<1>11. SnapshotsAreCovered'
  <2> SUFFICES ASSUME NEW s \in snapshots
               PROVE  IsPrefix(s.content,
                               trail(audit_events'[<<s.institution, s.engagement>>]))
    BY <1>2 DEF SnapshotsAreCovered
  <2>1. s.content \in Seq(Event) /\ <<s.institution, s.engagement>> \in Trails
    BY DEF StoreInv, TypeOK, Snapshot, Trails
  <2>2. IsPrefix(s.content, trail(audit_events[<<s.institution, s.engagement>>]))
    BY DEF StoreInv, SnapshotsAreCovered
  <2> QED
    BY <1>1, <1>5, <2>1, <2>2, CoverageGrows
<1>12. PersistedAreCovered'
  <2> SUFFICES ASSUME NEW g \in Handles, handle'[g].phase = "persisted"
               PROVE  IsPrefix(chain[g],
                               trail(audit_events'[<<Bound[g], handle'[g].engagement>>]))
    BY <1>2 DEF PersistedAreCovered
  <2>1. CASE g = h
    <3>1. chain[h] \in Seq(Event)
      BY DEF StoreInv, TypeOK
    <3>2. IsPrefix(chain[h], chain[h])
      BY <3>1, PrefixByElements
    <3> QED
      BY <1>1, <1>3, <1>4, <2>1, <3>2 DEF t
  <2>2. CASE g # h
    <3>1. handle'[g] = handle[g] /\ handle[g] \in Phase
      BY <1>4, <2>2 DEF StoreInv, TypeOK
    <3>2. handle[g].engagement \in Engagements
      BY <3>1, PhaseCases, PlainPhases
    <3>3. chain[g] \in Seq(Event) /\ <<Bound[g], handle[g].engagement>> \in Trails
      BY <3>2, TrailTypes DEF StoreInv
    <3>4. IsPrefix(chain[g], trail(audit_events[<<Bound[g], handle[g].engagement>>]))
      BY <3>1 DEF StoreInv, PersistedAreCovered
    <3> QED
      BY <1>1, <1>5, <3>1, <3>3, <3>4, CoverageGrows
  <2> QED
    BY <2>1, <2>2
<1> QED
  BY <1>6, <1>7, <1>8, <1>9, <1>10, <1>11, <1>12 DEF StoreInv

\* The revision after k others is k + 1.
LEMMA NextRevision ==
    ASSUME NEW i, NEW e, NEW k \in Nat, revisions(i, e) = 1..k
    PROVE  next_revision(i, e) = k + 1
<1> DEFINE N == {0} \cup revisions(i, e)
<1>1. k \in N /\ \A y \in N : k >= y
  OBVIOUS
<1>2. \A x \in N : (\A y \in N : x >= y) => x = k
  OBVIOUS
<1> HIDE DEF N
<1>3. Max(N) = k
  BY <1>1, <1>2 DEF Max
<1> QED
  BY <1>3 DEF next_revision, N

\* A snapshot that is new has the next number and another content.
LEMMA SavedSnapshot ==
    ASSUME StoreInv, NEW i \in Institutions, NEW e \in Engagements, NEW new \in Snapshot,
           new.institution = i, new.engagement = e,
           new.revision = next_revision(i, e),
           ~ \E s \in snapshots : /\ s.institution = i /\ s.engagement = e
                                  /\ s.content = new.content,
           snapshots' = snapshots \cup {new}
    PROVE  Distinct' /\ Numbered'
<1>1. PICK k \in Nat : revisions(i, e) = 1..k
  BY DEF StoreInv, Numbered
<1>2. new.revision = k + 1
  BY <1>1, NextRevision
<1>3. \A s \in snapshots : s.institution = i /\ s.engagement = e => s.revision \in 1..k
  BY <1>1 DEF revisions
<1>4. Distinct'
  <2>1. \A s \in snapshots :
           s.institution = i /\ s.engagement = e
              => s.revision # new.revision /\ s.content # new.content
    BY <1>2, <1>3
  <2> QED
    BY <2>1 DEF StoreInv, Distinct
<1>5. Numbered'
  <2> SUFFICES ASSUME NEW j \in Institutions, NEW x \in Engagements
               PROVE  \E n \in Nat : revisions(j, x)' = 1..n
    BY DEF Numbered
  <2>1. CASE j = i /\ x = e
    <3>1. revisions(i, e)' = revisions(i, e) \cup {new.revision}
      BY DEF revisions
    <3>2. revisions(i, e)' = 1..(k + 1)
      BY <1>1, <1>2, <3>1
    <3> QED
      BY <2>1, <3>2
  <2>2. CASE ~ (j = i /\ x = e)
    <3>1. revisions(j, x)' = revisions(j, x)
      BY <2>2 DEF revisions
    <3> QED
      BY <3>1 DEF StoreInv, Numbered
  <2> QED
    BY <2>1, <2>2
<1> QED
  BY <1>4, <1>5

LEMMA SaveStep ==
    ASSUME StoreInv, NEW h \in Handles, save_snapshot(h)
    PROVE  StoreInv'
<1> DEFINE i == Bound[h]
           e == handle[h].engagement
           new == [institution |-> i, engagement |-> e,
                   revision |-> next_revision(i, e),
                   content |-> chain[h], protection |-> _protect_document(h)]
           existing == \E s \in snapshots : /\ s.institution = i /\ s.engagement = e
                                            /\ s.content = chain[h]
<1>1. /\ handle[h].phase = "persisted" /\ version = 3
      /\ snapshots' = IF existing THEN snapshots ELSE snapshots \cup {new}
      /\ handle' = [handle EXCEPT ![h] = Ready]
      /\ UNCHANGED <<version, audit_events, idempotency, chain>>
  BY DEF save_snapshot
<1>2. e \in Engagements
  <2>1. handle[h] \in Phase
    BY DEF StoreInv, TypeOK
  <2> QED
    BY <1>1, <2>1, PhaseCases, PlainPhases
<1>3. /\ <<i, e>> \in Trails /\ i \in Institutions /\ chain[h] \in Seq(Event)
  BY <1>2, TrailTypes DEF StoreInv
<1>4. IsPrefix(chain[h], trail(audit_events[<<i, e>>]))
  BY <1>1 DEF StoreInv, PersistedAreCovered
<1>5. CASE existing
  <2>1. snapshots' = snapshots
    BY <1>1, <1>5
  <2>2. idempotency' \in [DOMAIN idempotency' -> Requests]
        /\ DOMAIN idempotency' \subseteq Institutions \X Keys
    BY <1>1 DEF StoreInv, TypeOK
  <2> QED
    BY <1>1, <2>1, <2>2, ReadyStep
<1>6. CASE ~ existing
  <2>1. /\ new.institution = i /\ new.engagement = e /\ new.content = chain[h]
        /\ new.revision = next_revision(i, e)
        /\ new.protection \in {plain, sealed}
    BY DEF _protect_document
  <2>2. new \in Snapshot
    <3>1. PICK k \in Nat : revisions(i, e) = 1..k
      BY <1>2, <1>3 DEF StoreInv, Numbered
    <3>2. next_revision(i, e) \in Nat \ {0}
      BY <3>1, NextRevision
    <3>3. _protect_document(h) \in Protection
      BY DEF _protect_document, plain, sealed, Protection
    <3> QED
      BY <1>2, <1>3, <3>2, <3>3 DEF Snapshot
  <2>3. snapshots' = snapshots \cup {new}
    BY <1>1, <1>6
  <2>4. ~ \E s \in snapshots : /\ s.institution = i /\ s.engagement = e
                               /\ s.content = new.content
    BY <1>6
  <2> HIDE DEF new, existing
  <2>5. Distinct' /\ Numbered'
    BY <1>2, <1>3, <2>1, <2>2, <2>3, <2>4, SavedSnapshot
  <2>6. /\ handle' \in [Handles -> Phase] /\ handle'[h] = Ready
        /\ \A g \in Handles \ {h} : handle'[g] = handle[g]
    BY <1>1, PhaseType, PlainPhases DEF StoreInv
  <2>7. TypeOK'
    BY <1>1, <2>2, <2>3, <2>6 DEF StoreInv, TypeOK
  <2>8. PhasesAgree'
    BY <1>1, <2>6 DEF StoreInv, PhasesAgree, Ready, Migrating
  <2>9. OldTables'
    BY <1>1 DEF OldTables
  <2>10. LabelsAreTrue'
    BY <1>1, <2>1, <2>3 DEF StoreInv, LabelsAreTrue
  <2>11. SnapshotsAreCovered'
    BY <1>1, <1>4, <2>1, <2>3 DEF StoreInv, SnapshotsAreCovered
  <2>12. PersistedAreCovered'
    BY <1>1, <2>6, PlainPhases DEF StoreInv, PersistedAreCovered
  <2> QED
    BY <2>5, <2>7, <2>8, <2>9, <2>10, <2>11, <2>12 DEF StoreInv
<1> QED
  BY <1>5, <1>6

\* A snapshot and a row as encryption leaves them.
EncryptedSnapshot(s, i) ==
    IF s.institution = i THEN [s EXCEPT !.protection = encrypted(@)] ELSE s

LEMMA EncryptedTypes ==
    ASSUME NEW i, NEW s \in Snapshot, s.protection \in {plain, sealed}
    PROVE  /\ EncryptedSnapshot(s, i) \in Snapshot
           /\ EncryptedSnapshot(s, i).institution = s.institution
           /\ EncryptedSnapshot(s, i).engagement = s.engagement
           /\ EncryptedSnapshot(s, i).revision = s.revision
           /\ EncryptedSnapshot(s, i).content = s.content
           /\ EncryptedSnapshot(s, i).protection \in {plain, sealed}
<1>1. encrypted(s.protection) = sealed /\ sealed \in Protection
  BY DEF encrypted, plain, sealed, Protection
<1> QED
  BY <1>1 DEF EncryptedSnapshot, Snapshot

LEMMA EncryptedRows ==
    ASSUME NEW rows \in Seq(Row), \A n \in DOMAIN rows : rows[n].protection \in {plain, sealed}
    PROVE  LET new == [n \in DOMAIN rows |-> [rows[n] EXCEPT !.protection = encrypted(@)]]
           IN  /\ new \in Seq(Row) /\ trail(new) = trail(rows)
               /\ \A n \in DOMAIN new : new[n].protection \in {plain, sealed}
<1> DEFINE row(n) == [rows[n] EXCEPT !.protection = encrypted(@)]
           new == [n \in DOMAIN rows |-> row(n)]
<1>1. ASSUME NEW n \in DOMAIN rows
      PROVE  /\ row(n) \in Row
             /\ row(n).event = rows[n].event
             /\ row(n).protection = sealed
  <2>1. encrypted(rows[n].protection) = sealed /\ sealed \in Protection
    BY DEF encrypted, plain, sealed, Protection
  <2>2. rows[n] \in Row
    OBVIOUS
  <2> QED
    BY <2>1, <2>2 DEF Row
<1>2. DOMAIN rows = 1..Len(rows) /\ Len(rows) \in Nat
  OBVIOUS
<1>3. /\ new \in Seq(Row) /\ Len(new) = Len(rows)
      /\ \A n \in 1..Len(rows) : /\ new[n].event = rows[n].event
                                 /\ new[n].protection = sealed
  <2> HIDE DEF row
  <2> QED
    BY <1>1, <1>2
<1> HIDE DEF new
<1>4. trail(new) = trail(rows)
  BY <1>3, RewrittenRows
<1>5. \A n \in DOMAIN new : new[n].protection \in {plain, sealed}
  BY <1>3
<1> QED
  BY <1>3, <1>4, <1>5 DEF new, row

\* Encryption changes no event.
LEMMA EncryptTypes ==
    ASSUME StoreInv, NEW h \in Handles, encrypt_existing_records(h)
    PROVE  /\ audit_events' \in [Trails -> Seq(Row)]
           /\ \A t \in Trails : /\ trail(audit_events'[t]) = trail(audit_events[t])
                                /\ \A n \in DOMAIN audit_events'[t] :
                                      audit_events'[t][n].protection \in {plain, sealed}
           /\ snapshots' = {EncryptedSnapshot(s, Bound[h]) : s \in snapshots}
<1>1. audit_events' = [t \in Trails |->
         IF t[1] = Bound[h]
         THEN [n \in DOMAIN audit_events[t] |->
                  [audit_events[t][n] EXCEPT !.protection = encrypted(@)]]
         ELSE audit_events[t]]
  BY DEF encrypt_existing_records
<1>2. ASSUME NEW t \in Trails
      PROVE  /\ audit_events'[t] \in Seq(Row)
             /\ trail(audit_events'[t]) = trail(audit_events[t])
             /\ \A n \in DOMAIN audit_events'[t] :
                   audit_events'[t][n].protection \in {plain, sealed}
  <2> DEFINE rows == audit_events[t]
             new == [n \in DOMAIN rows |-> [rows[n] EXCEPT !.protection = encrypted(@)]]
  <2>1. rows \in Seq(Row) /\ \A n \in DOMAIN rows : rows[n].protection \in {plain, sealed}
    BY DEF StoreInv, TypeOK, LabelsAreTrue
  <2>2. audit_events'[t] = new \/ audit_events'[t] = rows
    BY <1>1
  <2> HIDE DEF rows
  <2>3. /\ new \in Seq(Row) /\ trail(new) = trail(rows)
        /\ \A n \in DOMAIN new : new[n].protection \in {plain, sealed}
    BY <2>1, EncryptedRows
  <2> HIDE DEF new
  <2>4. CASE audit_events'[t] = new
    BY <2>3, <2>4 DEF rows
  <2>5. CASE audit_events'[t] = rows
    BY <2>1, <2>5 DEF rows
  <2> QED
    BY <2>2, <2>4, <2>5
<1>3. audit_events' \in [Trails -> Seq(Row)]
  BY <1>1, <1>2
<1>4. snapshots' = {EncryptedSnapshot(s, Bound[h]) : s \in snapshots}
  BY DEF encrypt_existing_records, EncryptedSnapshot
<1> QED
  BY <1>2, <1>3, <1>4

LEMMA EncryptStep ==
    ASSUME StoreInv, NEW h \in Handles, encrypt_existing_records(h)
    PROVE  StoreInv'
<1>1. /\ audit_events' \in [Trails -> Seq(Row)]
      /\ \A t \in Trails : /\ trail(audit_events'[t]) = trail(audit_events[t])
                           /\ \A n \in DOMAIN audit_events'[t] :
                                 audit_events'[t][n].protection \in {plain, sealed}
      /\ snapshots' = {EncryptedSnapshot(s, Bound[h]) : s \in snapshots}
  BY EncryptTypes
<1>2. version = 3 /\ UNCHANGED <<version, idempotency, handle, chain>>
  BY DEF encrypt_existing_records
<1>3. \A s \in snapshots :
         /\ EncryptedSnapshot(s, Bound[h]) \in Snapshot
         /\ EncryptedSnapshot(s, Bound[h]).institution = s.institution
         /\ EncryptedSnapshot(s, Bound[h]).engagement = s.engagement
         /\ EncryptedSnapshot(s, Bound[h]).revision = s.revision
         /\ EncryptedSnapshot(s, Bound[h]).content = s.content
         /\ EncryptedSnapshot(s, Bound[h]).protection \in {plain, sealed}
  BY EncryptedTypes DEF StoreInv, TypeOK, LabelsAreTrue
<1>4. TypeOK'
  BY <1>1, <1>2, <1>3 DEF StoreInv, TypeOK
<1>5. PhasesAgree' /\ OldTables'
  BY <1>2 DEF StoreInv, PhasesAgree, OldTables
<1>6. Distinct'
  BY <1>1, <1>3 DEF StoreInv, Distinct
<1>7. Numbered'
  <2> SUFFICES ASSUME NEW i \in Institutions, NEW e \in Engagements
               PROVE  \E n \in Nat : revisions(i, e)' = 1..n
    BY DEF Numbered
  <2>1. revisions(i, e)' = revisions(i, e)
    <3>1. \A n : n \in revisions(i, e)' <=> \E s \in snapshots' :
             s.institution = i /\ s.engagement = e /\ s.revision = n
      BY DEF revisions
    <3>2. \A n : n \in revisions(i, e) <=> \E s \in snapshots :
             s.institution = i /\ s.engagement = e /\ s.revision = n
      BY DEF revisions
    <3>3. \A n : n \in revisions(i, e)' <=> n \in revisions(i, e)
      BY <1>1, <1>3, <3>1, <3>2
    <3> QED
      BY <3>3
  <2> QED
    BY <2>1 DEF StoreInv, Numbered
<1>8. LabelsAreTrue'
  BY <1>1, <1>3 DEF LabelsAreTrue
<1>9. SnapshotsAreCovered'
  <2> SUFFICES ASSUME NEW s \in snapshots
               PROVE  IsPrefix(s.content,
                               trail(audit_events'[<<s.institution, s.engagement>>]))
    BY <1>1, <1>3 DEF SnapshotsAreCovered
  <2>1. <<s.institution, s.engagement>> \in Trails
    BY DEF StoreInv, TypeOK, Snapshot, Trails
  <2> QED
    BY <1>1, <2>1 DEF StoreInv, SnapshotsAreCovered
<1>10. PersistedAreCovered'
  <2> SUFFICES ASSUME NEW g \in Handles, handle[g].phase = "persisted"
               PROVE  IsPrefix(chain[g],
                               trail(audit_events'[<<Bound[g], handle[g].engagement>>]))
    BY <1>2 DEF PersistedAreCovered
  <2>1. handle[g].engagement \in Engagements
    BY PhaseCases, PlainPhases DEF StoreInv, TypeOK
  <2>2. <<Bound[g], handle[g].engagement>> \in Trails
    BY <2>1, TrailTypes DEF StoreInv
  <2> QED
    BY <1>1, <2>2 DEF StoreInv, PersistedAreCovered
<1> QED
  BY <1>4, <1>5, <1>6, <1>7, <1>8, <1>9, <1>10 DEF StoreInv

-----------------------------------------------------------------------------
(* Theorems *)

LEMMA StepKeeps ==
    ASSUME ExclusiveUpgrade
    PROVE  StoreInv /\ [Next]_vars => StoreInv'
<1> SUFFICES ASSUME StoreInv, [Next]_vars PROVE StoreInv'
  OBVIOUS
<1>1. ASSUME NEW h \in Handles,
             open(h) \/ create_v3_schema(h) \/ migrate_v1_to_v2(h) \/ migrate_v2_to_v3(h)
      PROVE  StoreInv'
  BY <1>1, OpenStep, CreateStep, MigrateStep, AddColumnStep
<1>2. ASSUME NEW h \in Handles, close(h)
      PROVE  StoreInv'
  BY <1>2, CloseHandle
<1>3. ASSUME NEW h \in Handles, NEW e \in Engagements, NEW id \in Ids, record(h, e, id)
      PROVE  StoreInv'
  BY <1>3, RecordStep
<1>4. ASSUME NEW h \in Handles, NEW e \in Engagements, persist_audit_chain(h, e)
      PROVE  StoreInv'
  BY <1>4, PersistStep
<1>5. ASSUME NEW h \in Handles, save_snapshot(h) \/ encrypt_existing_records(h)
      PROVE  StoreInv'
  BY <1>5, SaveStep, EncryptStep
<1>6. ASSUME NEW h \in Handles, NEW k \in Keys, NEW request \in Requests,
             select_idempotency(h, k, request)
      PROVE  StoreInv'
  BY <1>6, SelectStep
<1>7. ASSUME NEW h \in Handles, insert_idempotency(h)
      PROVE  StoreInv'
  BY <1>7, InsertStep
<1>8. CASE UNCHANGED vars
  <2>1. UNCHANGED <<version, snapshots, audit_events, idempotency, handle, chain>>
    BY <1>8 DEF vars
  <2>2. TypeOK' /\ PhasesAgree'
    BY <2>1 DEF StoreInv, TypeOK, PhasesAgree
  <2> QED
    BY <2>1, <2>2, TablesKept
<1> QED
  BY <1>1, <1>2, <1>3, <1>4, <1>5, <1>6, <1>7, <1>8 DEF Next

LEMMA StoreInvHolds ==
    ASSUME ExclusiveUpgrade
    PROVE  Spec => []StoreInv
<1>1. StoreInv /\ [Next]_vars => StoreInv'
  BY StepKeeps
<1> QED
  BY <1>1, InitEstablishes, PTL DEF Spec

\* Every state is well-typed, whatever version the database had.
THEOREM TypeCorrect == ExclusiveUpgrade => (Spec => []TypeOK)
<1> SUFFICES ASSUME ExclusiveUpgrade PROVE Spec => []TypeOK
  OBVIOUS
<1>1. StoreInv => TypeOK
  BY DEF StoreInv
<1>2. Spec => []StoreInv
  BY StoreInvHolds
<1> QED
  BY <1>1, <1>2, PTL

\* Every stored snapshot's chain is in the stored trail.
THEOREM SnapshotsStayCovered == ExclusiveUpgrade => (Spec => []SnapshotsAreCovered)
<1> SUFFICES ASSUME ExclusiveUpgrade PROVE Spec => []SnapshotsAreCovered
  OBVIOUS
<1>1. StoreInv => SnapshotsAreCovered
  BY DEF StoreInv
<1>2. Spec => []StoreInv
  BY StoreInvHolds
<1> QED
  BY <1>1, <1>2, PTL

\* The protection column tells what a stored document is.
THEOREM LabelsStayTrue == ExclusiveUpgrade => (Spec => []LabelsAreTrue)
<1> SUFFICES ASSUME ExclusiveUpgrade PROVE Spec => []LabelsAreTrue
  OBVIOUS
<1>1. StoreInv => LabelsAreTrue
  BY DEF StoreInv
<1>2. Spec => []StoreInv
  BY StoreInvHolds
<1> QED
  BY <1>1, <1>2, PTL

\* Revisions number the distinct snapshots of an engagement without a gap.
THEOREM RevisionsAreNumbers == ExclusiveUpgrade => (Spec => []RevisionsNumberSnapshots)
<1> SUFFICES ASSUME ExclusiveUpgrade PROVE Spec => []RevisionsNumberSnapshots
  OBVIOUS
<1>1. StoreInv => RevisionsNumberSnapshots
  <2> SUFFICES ASSUME StoreInv, NEW s \in snapshots
               PROVE  LET same == {t \in snapshots : /\ t.institution = s.institution
                                                     /\ t.engagement = s.engagement}
                      IN  /\ revisions(s.institution, s.engagement) = 1..Cardinality(same)
                          /\ Cardinality({t.content : t \in same}) = Cardinality(same)
    BY DEF RevisionsNumberSnapshots
  <2> DEFINE same == {t \in snapshots : /\ t.institution = s.institution
                                        /\ t.engagement = s.engagement}
             numbers == revisions(s.institution, s.engagement)
             contents == {t.content : t \in same}
             number == [t \in same |-> t.revision]
             content == [t \in same |-> t.content]
  <2>1. s.institution \in Institutions /\ s.engagement \in Engagements
    BY DEF StoreInv, TypeOK, Snapshot
  <2>2. PICK k \in Nat : numbers = 1..k
    BY <2>1 DEF StoreInv, Numbered
  <2>3. IsFiniteSet(numbers) /\ Cardinality(numbers) = k
    <3>1. IsFiniteSet(1..k) /\ Cardinality(1..k) = k
      BY FS_Interval
    <3> QED
      BY <2>2, <3>1
  <2>4. \A t, u \in same : t.revision = u.revision \/ t.content = u.content => t = u
    BY DEF StoreInv, Distinct
  <2>5. numbers = {t.revision : t \in same}
    BY DEF revisions
  <2> HIDE DEF numbers, same
  <2>6. number \in Injection(same, numbers) /\ number \in Surjection(same, numbers)
    BY <2>4, <2>5 DEF Injection, Surjection, IsInjective
  <2>7. content \in Injection(same, contents) /\ content \in Surjection(same, contents)
    BY <2>4 DEF Injection, Surjection, IsInjective
  <2> HIDE DEF number, content, contents
  <2>8. IsFiniteSet(same) /\ Cardinality(same) = Cardinality(numbers)
    BY <2>3, <2>6, FS_Injection
  <2>9. Cardinality(contents) = Cardinality(same)
    BY <2>7, <2>8, FS_Surjection
  <2> QED
    BY <2>2, <2>3, <2>8, <2>9 DEF numbers, same, contents
<1>2. Spec => []StoreInv
  BY StoreInvHolds
<1> QED
  BY <1>1, <1>2, PTL

\* A key stands for the first request that was recorded for it.
THEOREM KeysKeepRequests == ExclusiveUpgrade => (Spec => KeyKeepsFirstRequest)
<1> SUFFICES ASSUME ExclusiveUpgrade PROVE Spec => KeyKeepsFirstRequest
  OBVIOUS
<1>1. StoreInv /\ [Next]_vars =>
         [\A k \in DOMAIN idempotency :
             k \in DOMAIN idempotency' /\ idempotency'[k] = idempotency[k]]_vars
  <2> SUFFICES ASSUME StoreInv, Next, NEW k \in DOMAIN idempotency
               PROVE  k \in DOMAIN idempotency' /\ idempotency'[k] = idempotency[k]
    OBVIOUS
  <2>1. ASSUME NEW h \in Handles, insert_idempotency(h)
        PROVE  k \in DOMAIN idempotency' /\ idempotency'[k] = idempotency[k]
    BY <2>1, InsertTypes
  <2>2. ASSUME NEW h \in Handles, migrate_v1_to_v2(h)
        PROVE  k \in DOMAIN idempotency' /\ idempotency'[k] = idempotency[k]
    <3>1. idempotency' = idempotency
      BY <2>2, MigrateTypes DEF migrate_v1_to_v2, open_fails
    <3> QED
      BY <3>1
  <2>3. CASE UNCHANGED idempotency
    BY <2>3
  <2> QED
    BY <2>1, <2>2, <2>3 DEF Next, open, open_fails, create_v3_schema, migrate_v2_to_v3,
       close, record, persist_audit_chain, save_snapshot, encrypt_existing_records,
       select_idempotency
<1>2. Spec => []StoreInv
  BY StoreInvHolds
<1> QED
  BY <1>1, <1>2, PTL DEF Spec, KeyKeepsFirstRequest

\* What a step does to the trails.
LEMMA TrailsExtend ==
    ASSUME StoreInv, Next
    PROVE  \/ \A t \in Trails : trail(audit_events'[t]) = trail(audit_events[t])
           \/ \E t \in Trails :
                 /\ \A u \in Trails \ {t} : audit_events'[u] = audit_events[u]
                 /\ IsPrefix(trail(audit_events[t]), trail(audit_events'[t]))
<1>1. ASSUME NEW h \in Handles, NEW e \in Engagements, persist_audit_chain(h, e)
      PROVE  \E t \in Trails :
                /\ \A u \in Trails \ {t} : audit_events'[u] = audit_events[u]
                /\ IsPrefix(trail(audit_events[t]), trail(audit_events'[t]))
  <2> DEFINE t == <<Bound[h], e>>
  <2>1. /\ t \in Trails
        /\ \A u \in Trails \ {t} : audit_events'[u] = audit_events[u]
        /\ trail(audit_events'[t]) = chain[h]
        /\ IsPrefix(trail(audit_events[t]), chain[h])
    BY <1>1, PersistTypes
  <2> HIDE DEF t
  <2> QED
    BY <2>1
<1>2. ASSUME NEW h \in Handles, encrypt_existing_records(h)
      PROVE  \A t \in Trails : trail(audit_events'[t]) = trail(audit_events[t])
  BY <1>2, EncryptTypes
<1>3. ASSUME NEW h \in Handles, migrate_v1_to_v2(h)
      PROVE  audit_events' = audit_events
  BY <1>3, MigrateTypes DEF migrate_v1_to_v2, open_fails
<1>4. CASE audit_events' = audit_events
  BY <1>4
<1> QED
  BY <1>1, <1>2, <1>3, <1>4 DEF Next, open, open_fails, create_v3_schema,
     migrate_v2_to_v3, close, record, save_snapshot, select_idempotency,
     insert_idempotency

\* The store implements an append-only log for each institution and engagement.
THEOREM AuditImplementsLogs == ExclusiveUpgrade => (Spec => AuditIsAppendOnly)
<1> SUFFICES ASSUME ExclusiveUpgrade PROVE Spec => AuditIsAppendOnly
  OBVIOUS
<1> DEFINE logs == [t \in Trails |-> trail(audit_events[t])]
<1>1. StoreInv => \A t \in Trails : logs[t] \in Seq(Event)
  BY TrailByElements DEF StoreInv, TypeOK
<1>2. Init => Logs!Init
  <2>1. Init => logs \in [Trails -> Seq(Event)]
    BY <1>1, InitEstablishes
  <2> QED
    BY <2>1 DEF Logs!Init
<1>3. StoreInv /\ [Next]_vars => [Logs!Next]_logs
  <2> SUFFICES ASSUME StoreInv, [Next]_vars, logs' # logs
               PROVE  \E t \in Trails : /\ \A u \in Trails \ {t} : logs'[u] = logs[u]
                                        /\ IsStrictPrefix(logs[t], logs'[t])
    BY DEF Logs!Next, Logs!Extend, Logs!IsStrictPrefix, Logs!IsPrefix,
           IsStrictPrefix, IsPrefix
  <2>1. Next
    BY DEF vars
  <2>2. ~ \A t \in Trails : trail(audit_events'[t]) = trail(audit_events[t])
    OBVIOUS
  <2>3. PICK t \in Trails :
           /\ \A u \in Trails \ {t} : audit_events'[u] = audit_events[u]
           /\ IsPrefix(trail(audit_events[t]), trail(audit_events'[t]))
    BY <2>1, <2>2, TrailsExtend
  <2>4. trail(audit_events[t]) # trail(audit_events'[t])
    BY <2>2, <2>3
  <2> QED
    BY <2>3, <2>4 DEF IsStrictPrefix
<1>4. Spec => []StoreInv
  BY StoreInvHolds
<1> QED
  BY <1>2, <1>3, <1>4, PTL DEF Spec, AuditIsAppendOnly, Logs!Spec

\* No record is lost by an institution, or taken over by another one, if databases of
\* version 1 are opened by one process at a time.
THEOREM RecordsStay == ExclusiveUpgrade => (Spec => RecordsKeepTheirInstitution)
<1> SUFFICES ASSUME ExclusiveUpgrade PROVE Spec => RecordsKeepTheirInstitution
  OBVIOUS
<1>1. StoreInv /\ [Next]_vars =>
         [\A i \in Institutions \ {default}, e \in Engagements :
             /\ IsPrefix(trail(audit_events[<<i, e>>]), trail(audit_events'[<<i, e>>]))
             /\ revisions(i, e) \subseteq revisions(i, e)']_vars
  <2> SUFFICES ASSUME StoreInv, Next, NEW i \in Institutions \ {default},
                      NEW e \in Engagements
               PROVE  /\ IsPrefix(trail(audit_events[<<i, e>>]),
                                  trail(audit_events'[<<i, e>>]))
                      /\ revisions(i, e) \subseteq revisions(i, e)'
    OBVIOUS
  <2>1. IsPrefix(trail(audit_events[<<i, e>>]), trail(audit_events'[<<i, e>>]))
    <3>1. <<i, e>> \in Trails
      BY DEF Trails
    <3>2. trail(audit_events[<<i, e>>]) \in Seq(Event)
      BY <3>1, TrailByElements DEF StoreInv, TypeOK
    <3>3. IsPrefix(trail(audit_events[<<i, e>>]), trail(audit_events[<<i, e>>]))
      BY <3>2, PrefixByElements
    <3> QED
      BY <3>1, <3>3, TrailsExtend
  <2>2. revisions(i, e) \subseteq revisions(i, e)'
    <3>1. CASE snapshots \subseteq snapshots'
      BY <3>1 DEF revisions
    <3>2. ASSUME NEW h \in Handles, encrypt_existing_records(h)
          PROVE  revisions(i, e) \subseteq revisions(i, e)'
      <4>1. snapshots' = {EncryptedSnapshot(s, Bound[h]) : s \in snapshots}
        BY <3>2, EncryptTypes
      <4>2. \A s \in snapshots :
               /\ EncryptedSnapshot(s, Bound[h]).institution = s.institution
               /\ EncryptedSnapshot(s, Bound[h]).engagement = s.engagement
               /\ EncryptedSnapshot(s, Bound[h]).revision = s.revision
        BY EncryptedTypes DEF StoreInv, TypeOK, LabelsAreTrue
      <4> QED
        BY <4>1, <4>2 DEF revisions
    <3>3. ASSUME NEW h \in Handles, migrate_v1_to_v2(h)
          PROVE  snapshots \subseteq snapshots'
      BY <3>3, MigrateTypes DEF migrate_v1_to_v2, open_fails
    <3> QED
      BY <3>1, <3>2, <3>3 DEF Next, open, open_fails, create_v3_schema, migrate_v2_to_v3,
         close, record, persist_audit_chain, save_snapshot, select_idempotency,
         insert_idempotency
  <2> QED
    BY <2>1, <2>2
<1>2. Spec => []StoreInv
  BY StoreInvHolds
<1> QED
  BY <1>1, <1>2, PTL DEF Spec, RecordsKeepTheirInstitution
=============================================================================
