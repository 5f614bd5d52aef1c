-------------------------- MODULE EvidenceVaultProofs --------------------------
(***************************************************************************)
(* Proofs about EvidenceVault for any vaults, evidence, callers, dates and *)
(* number of calls: every history verifies, deletion is not approved under *)
(* a hold, and what is restored is the custody of another vault, unless it *)
(* came from elsewhere.                                                    *)
(***************************************************************************)
EXTENDS EvidenceVault, FiniteSetTheorems, SequenceTheorems, TLAPS

-----------------------------------------------------------------------------
(* Sequences and dates *)

\* One sequence is a prefix of another if it agrees with it as far as it goes.
LEMMA PrefixByElements ==
    ASSUME NEW S, NEW s \in Seq(S), NEW t \in Seq(S)
    PROVE  IsPrefix(s, t) <=> Len(s) <= Len(t) /\ \A i \in 1..Len(s) : s[i] = t[i]
<1> DEFINE m == Len(s)
<1>1. CASE m <= Len(t)
  <2>1. \A i \in 1..m : s[i] \in S /\ t[i] \in S
    BY <1>1
  <2>2. /\ SubSeq(s, 1, m) \in Seq(S) /\ Len(SubSeq(s, 1, m)) = m
        /\ \A i \in 1..m : SubSeq(s, 1, m)[i] = s[i]
    BY <1>1
  <2>3. /\ SubSeq(t, 1, m) \in Seq(S) /\ Len(SubSeq(t, 1, m)) = m
        /\ \A i \in 1..m : SubSeq(t, 1, m)[i] = t[i]
    BY <1>1
  <2>4. SubSeq(s, 1, m) = SubSeq(t, 1, m) <=> \A i \in 1..m : s[i] = t[i]
    <3>1. ASSUME \A i \in 1..m : s[i] = t[i]
          PROVE  SubSeq(s, 1, m) = SubSeq(t, 1, m)
      BY <2>2, <2>3, <3>1, SeqEqual
    <3>2. ASSUME SubSeq(s, 1, m) = SubSeq(t, 1, m), NEW i \in 1..m
          PROVE  s[i] = t[i]
      BY <2>2, <2>3, <3>2
    <3> QED
      BY <3>1, <3>2
  <2> QED
    BY <1>1, <2>4 DEF IsPrefix
<1>2. CASE ~ (m <= Len(t))
  BY <1>2 DEF IsPrefix
<1> QED
  BY <1>1, <1>2

LEMMA PrefixTransitive ==
    ASSUME NEW S, NEW s \in Seq(S), NEW t \in Seq(S), NEW u \in Seq(S),
           IsPrefix(s, t), IsPrefix(t, u)
    PROVE  IsPrefix(s, u)
<1>1. Len(s) <= Len(t) /\ \A i \in 1..Len(s) : s[i] = t[i]
  BY PrefixByElements
<1>2. Len(t) <= Len(u) /\ \A i \in 1..Len(t) : t[i] = u[i]
  BY PrefixByElements
<1>3. \A i \in 1..Len(s) : s[i] = u[i]
  BY <1>1, <1>2
<1> QED
  BY <1>1, <1>2, <1>3, PrefixByElements

\* A sequence is a prefix of itself and of what is appended to.
LEMMA PrefixOfAppend ==
    ASSUME NEW S, NEW s \in Seq(S), NEW e \in S
    PROVE  IsPrefix(s, s) /\ IsPrefix(s, Append(s, e)) /\ IsPrefix(<<>>, s)
<1> DEFINE t == Append(s, e)
           none == <<>>
<1>1. /\ t \in Seq(S) /\ Len(s) \in Nat /\ Len(t) = Len(s) + 1
      /\ \A i \in 1..Len(s) : s[i] = t[i]
      /\ none \in Seq(S) /\ Len(none) = 0
  OBVIOUS
<1> HIDE DEF t, none
<1>2. IsPrefix(s, t)
  BY <1>1, PrefixByElements
<1>3. IsPrefix(none, s)
  <2>1. Len(none) <= Len(s) /\ \A i \in 1..Len(none) : none[i] = s[i]
    BY <1>1
  <2> QED
    BY <1>1, <2>1, PrefixByElements
<1>4. IsPrefix(s, s)
  BY <1>1, PrefixByElements
<1> QED
  BY <1>2, <1>3, <1>4 DEF t, none

\* The history before an event, and before the one after the last.
LEMMA BeforeByElements ==
    ASSUME NEW history \in Seq(Event), NEW n \in 1..(Len(history) + 1)
    PROVE  /\ before(history, n) \in Seq(Event)
           /\ Len(before(history, n)) = n - 1
           /\ \A i \in 1..(n - 1) : before(history, n)[i] = history[i]
           /\ n = Len(history) + 1 => before(history, n) = history
<1>1. /\ before(history, n) \in Seq(Event)
      /\ Len(before(history, n)) = n - 1
      /\ \A i \in 1..(n - 1) : before(history, n)[i] = history[i]
  BY DEF before
<1> QED
  BY <1>1, SeqEqual

\* Histories that agree are the same before an event they have both.
LEMMA BeforeOfPrefix ==
    ASSUME NEW s \in Seq(Event), NEW t \in Seq(Event), IsPrefix(s, t),
           NEW n \in 1..(Len(s) + 1)
    PROVE  before(s, n) = before(t, n) /\ IsPrefix(before(s, n), t)
<1>1. Len(s) <= Len(t) /\ \A i \in 1..Len(s) : s[i] = t[i]
  BY PrefixByElements
<1>2. n \in 1..(Len(t) + 1)
  BY <1>1
<1>3. /\ before(s, n) \in Seq(Event) /\ before(t, n) \in Seq(Event)
      /\ Len(before(s, n)) = n - 1 /\ Len(before(t, n)) = n - 1
      /\ \A i \in 1..(n - 1) : before(s, n)[i] = s[i] /\ before(t, n)[i] = t[i]
  BY <1>2, BeforeByElements
<1>4. before(s, n) = before(t, n)
  <2>1. \A i \in 1..(n - 1) : before(s, n)[i] = before(t, n)[i]
    BY <1>1, <1>3
  <2> QED
    BY <1>3, <2>1, SeqEqual
<1>5. IsPrefix(before(s, n), t)
  <2>1. n - 1 <= Len(t)
    BY <1>1
  <2>2. \A i \in 1..(n - 1) : before(s, n)[i] = t[i]
    BY <1>1, <1>3
  <2> QED
    BY <1>3, <2>1, <2>2, PrefixByElements
<1> QED
  BY <1>4, <1>5

\* A finite set of numbers has a greatest: no nonempty subset can be the smallest
\* without one, for with one element less it has one.
LEMMA LatestExists ==
    ASSUME NEW S, IsFiniteSet(S), S # {}, S \subseteq Nat
    PROVE  \E x \in S : \A y \in S : x >= y
<1> DEFINE Greatest(U) == \E x \in U : \A y \in U : x >= y
           Without == {U \in SUBSET S : U # {} /\ ~Greatest(U)}
<1>1. SUFFICES ASSUME ~Greatest(S) PROVE FALSE
  OBVIOUS
<1>2. IsWellFoundedOn(StrictSubsetOrdering(S), SUBSET S)
  BY FS_FiniteSubsetsOfFinite, FS_StrictSubsetOrderingWellFounded
<1>3. Without \subseteq SUBSET S /\ Without # {}
  BY <1>1
<1>4. \E U \in Without : \A V \in Without : <<V, U>> \notin StrictSubsetOrdering(S)
  <2> HIDE DEF Without
  <2> QED
    BY <1>2, <1>3, WFMin
<1>5. PICK U \in Without : \A V \in Without : <<V, U>> \notin StrictSubsetOrdering(S)
  BY <1>4
<1>6. PICK x \in U : TRUE
  BY <1>5
<1>7. <<U \ {x}, U>> \in StrictSubsetOrdering(S)
  BY <1>3, <1>5, <1>6 DEF StrictSubsetOrdering
<1>8. U \ {x} = {} \/ \E m \in U \ {x} : \A y \in U \ {x} : m >= y
  BY <1>5, <1>7
<1>9. U \subseteq Nat /\ x \in Nat
  BY <1>5, <1>6
<1>10. Greatest(U)
  <2>1. CASE U \ {x} = {}
    <3>1. \A y \in U : x >= y
      BY <1>9, <2>1
    <3> QED
      BY <1>6, <3>1
  <2>2. ASSUME NEW m \in U \ {x}, \A y \in U \ {x} : m >= y
        PROVE  Greatest(U)
    <3>1. m \in Nat
      BY <1>9
    <3>2. CASE m >= x
      BY <2>2, <3>2
    <3>3. CASE x >= m
      <4>1. \A y \in U : x >= y
        BY <1>9, <2>2, <3>1, <3>3
      <4> QED
        BY <1>6, <4>1
    <3> QED
      BY <1>9, <3>1, <3>2, <3>3
  <2> QED
    BY <1>8, <2>1, <2>2
<1> QED
  BY <1>5, <1>10

\* Retention is at least the record's and whatever it was extended to.
LEMMA RetentionIsLatest ==
    ASSUME NEW record \in Records, NEW history \in Seq(Event)
    PROVE  /\ retention(record, history) \in Nat
           /\ record.retention_until <= retention(record, history)
           /\ \A n \in with_action(history, "retention_extended") :
                 history[n].until \in Nat /\ history[n].until <= retention(record, history)
<1> DEFINE extended == with_action(history, "retention_extended")
           dates == {history[n].until : n \in extended}
           f == [n \in extended |-> history[n].until]
           D == {record.retention_until} \cup dates
<1>1. extended \subseteq 1..Len(history) /\ Len(history) \in Nat
  BY DEF with_action
<1>2. \A n \in extended : history[n].until \in Nat
  <2> TAKE n \in extended
  <2>1. history[n] \in Event /\ history[n].action = "retention_extended"
    BY DEF with_action
  <2> QED
    BY <2>1, VaultAssumptions DEF Event
<1>3. IsFiniteSet(dates)
  <2>1. IsFiniteSet(extended)
    <3>1. IsFiniteSet(1..Len(history))
      BY <1>1, FS_Interval
    <3> QED
      BY <1>1, <3>1, FS_Subset
  <2>2. f \in Surjection(extended, dates)
    BY DEF Surjection
  <2> QED
    BY <2>1, <2>2, FS_Surjection
<1>4. IsFiniteSet(D)
  <2>1. D = dates \cup {record.retention_until}
    OBVIOUS
  <2> QED
    BY <1>3, <2>1, FS_AddElement
<1>5. D # {} /\ D \subseteq Nat
  <2>1. record.retention_until \in Nat
    BY VaultAssumptions DEF Record
  <2> QED
    BY <1>2, <2>1
<1>6. \E x \in D : \A y \in D : x >= y
  <2> HIDE DEF D
  <2> QED
    BY <1>4, <1>5, LatestExists
<1>7. retention(record, history) = Max(D)
  BY DEF retention
<1>8. Max(D) \in D /\ \A y \in D : Max(D) >= y
  <2> HIDE DEF D
  <2> QED
    BY <1>6 DEF Max
<1>9. record.retention_until \in D /\ \A n \in extended : history[n].until \in D
  OBVIOUS
<1> HIDE DEF D
<1> QED
  BY <1>2, <1>5, <1>7, <1>8, <1>9

-----------------------------------------------------------------------------
(* Histories *)

\* A history that verifies still does with a legal event at its end.
LEMMA VerifyAppended ==
    ASSUME NEW record \in Records, NEW history \in Seq(Event), NEW e \in Event,
           verify_vault_history(record, history), legal(record, history, e)
    PROVE  verify_vault_history(record, Append(history, e))
<1> DEFINE longer == Append(history, e)
<1>1. /\ longer \in Seq(Event) /\ longer # <<>> /\ Len(longer) = Len(history) + 1
      /\ Len(history) \in Nat
      /\ longer[Len(history) + 1] = e
      /\ \A i \in 1..Len(history) : longer[i] = history[i]
  OBVIOUS
<1>2. IsPrefix(history, longer)
  BY PrefixOfAppend
<1> HIDE DEF longer
<1>3. ASSUME NEW n \in DOMAIN longer
      PROVE  legal(record, before(longer, n), longer[n])
  <2>1. n \in 1..(Len(history) + 1)
    BY <1>1
  <2>2. before(longer, n) = before(history, n)
    BY <1>1, <1>2, <2>1, BeforeOfPrefix
  <2>3. CASE n = Len(history) + 1
    <3>1. before(history, n) = history
      BY <2>1, <2>3, BeforeByElements
    <3> QED
      BY <1>1, <2>2, <2>3, <3>1
  <2>4. CASE n \in 1..Len(history)
    <3>1. n \in DOMAIN history /\ longer[n] = history[n]
      BY <1>1, <2>4
    <3> QED
      BY <2>2, <3>1 DEF verify_vault_history
  <2> QED
    BY <1>1, <2>1, <2>3, <2>4
<1> QED
  BY <1>1, <1>3 DEF verify_vault_history, longer

\* In a history that verifies, no approval of deletion comes while a hold is active
\* or before the end of retention.
LEMMA VerifiedHoldsBlock ==
    ASSUME NEW record \in Records, NEW history \in Seq(Event),
           verify_vault_history(record, history),
           NEW n \in with_action(history, "deletion_approved")
    PROVE  /\ \A m \in with_action(history, "legal_hold_applied") : m < n =>
                 \E k \in with_action(history, "legal_hold_released") :
                     m < k /\ k < n /\ history[k].hold = history[m].hold
           /\ record.retention_until <= date(history[n].timestamp)
           /\ \A m \in with_action(history, "retention_extended") :
                 m < n => history[m].until <= date(history[n].timestamp)
<1>1. DOMAIN history = 1..Len(history) /\ Len(history) \in Nat
  OBVIOUS
<1>2. \A i \in 1..Len(history) :
         /\ before(history, i) \in Seq(Event)
         /\ Len(before(history, i)) = i - 1
         /\ \A j \in 1..(i - 1) : before(history, i)[j] = history[j]
  BY <1>1, BeforeByElements
<1>3. \A i \in 1..Len(history) : legal(record, before(history, i), history[i])
  BY <1>1 DEF verify_vault_history
<1>4. n \in 1..Len(history) /\ history[n].action = "deletion_approved"
  BY <1>1 DEF with_action
<1> DEFINE past == before(history, n)
<1>5. evaluate_deletion_eligibility(record, past, history[n].timestamp)
  BY <1>3, <1>4 DEF legal
<1>6. \A i \in 1..Len(history) : \A action :
         with_action(before(history, i), action)
            = {j \in 1..(i - 1) : history[j].action = action}
  <2> TAKE i \in 1..Len(history)
  <2> TAKE action
  <2>1. DOMAIN before(history, i) = 1..(i - 1)
    BY <1>2
  <2> QED
    BY <1>2, <2>1 DEF with_action
<1>7. ASSUME NEW m \in with_action(history, "legal_hold_applied"), m < n
      PROVE  \E k \in with_action(history, "legal_hold_released") :
                m < k /\ k < n /\ history[k].hold = history[m].hold
  <2>1. m \in 1..(n - 1) /\ m \in 1..Len(history) /\ history[m].action = "legal_hold_applied"
    BY <1>1, <1>4, <1>7 DEF with_action
  <2>2. m \in with_action(past, "legal_hold_applied") /\ past[m] = history[m]
    BY <1>2, <1>4, <1>6, <2>1
  <2>3. history[m].hold \in seen_holds(past)
    BY <2>2 DEF seen_holds
  <2>4. active_holds(past) = {}
    BY <1>5 DEF evaluate_deletion_eligibility
  <2>5. PICK k \in with_action(past, "legal_hold_released") :
           past[k].hold = history[m].hold
    BY <2>3, <2>4 DEF active_holds
  <2>6. /\ k \in 1..(n - 1) /\ k \in 1..Len(history) /\ past[k] = history[k]
        /\ history[k].action = "legal_hold_released"
    BY <1>1, <1>2, <1>4, <1>6, <2>5
  <2>7. history[k].hold \in seen_holds(before(history, k))
    BY <1>3, <2>6 DEF legal, active_holds
  <2>8. PICK a \in with_action(before(history, k), "legal_hold_applied") :
           before(history, k)[a].hold = history[k].hold
    BY <2>7 DEF seen_holds
  <2>9. /\ a \in 1..(k - 1) /\ history[a].action = "legal_hold_applied"
        /\ history[a].hold = history[m].hold
    <3>1. a \in 1..(k - 1) /\ history[a].action = "legal_hold_applied"
      BY <1>6, <2>6, <2>8
    <3>2. before(history, k)[a] = history[a]
      BY <1>2, <2>6, <3>1
    <3> QED
      BY <2>5, <2>6, <2>8, <3>1, <3>2
  <2>10. ~ (a < m)
    <3>1. SUFFICES ASSUME a < m PROVE FALSE
      OBVIOUS
    <3>2. a \in 1..(m - 1)
      BY <2>1, <2>6, <2>9, <3>1
    <3>3. a \in with_action(before(history, m), "legal_hold_applied")
      BY <1>6, <2>1, <2>9, <3>2
    <3>4. before(history, m)[a] = history[a]
      BY <1>2, <2>1, <3>2
    <3>5. history[m].hold \in seen_holds(before(history, m))
      BY <2>9, <3>3, <3>4 DEF seen_holds
    <3> QED
      BY <1>3, <2>1, <3>5 DEF legal
  <2>11. m < k
    BY <2>1, <2>6, <2>9, <2>10
  <2>12. k \in with_action(history, "legal_hold_released") /\ k < n
    BY <1>1, <1>4, <2>6 DEF with_action
  <2> QED
    BY <2>5, <2>6, <2>11, <2>12
<1>8. past \in Seq(Event)
  BY <1>2, <1>4
<1>9. date(history[n].timestamp) \in Int
  <2>1. history[n].timestamp \in Nat
    <3>1. history[n] \in Event
      BY <1>4
    <3> QED
      BY <3>1, VaultAssumptions DEF Event
  <2> QED
    BY <2>1, VaultAssumptions DEF date
<1>10. record.retention_until \in Nat
  BY VaultAssumptions DEF Record
<1>11. retention(record, past) <= date(history[n].timestamp)
  BY <1>5, <1>8, <1>9, RetentionIsLatest DEF evaluate_deletion_eligibility
<1>12. record.retention_until <= date(history[n].timestamp)
  BY <1>8, <1>9, <1>10, <1>11, RetentionIsLatest
<1>13. ASSUME NEW m \in with_action(history, "retention_extended"), m < n
       PROVE  history[m].until <= date(history[n].timestamp)
  <2>1. m \in 1..(n - 1) /\ m \in 1..Len(history) /\ history[m].action = "retention_extended"
    BY <1>1, <1>4, <1>13 DEF with_action
  <2>2. m \in with_action(past, "retention_extended") /\ past[m] = history[m]
    BY <1>2, <1>4, <1>6, <2>1
  <2>3. past[m].until \in Nat /\ past[m].until <= retention(record, past)
    BY <1>8, <2>2, RetentionIsLatest
  <2>4. retention(record, past) \in Nat
    BY <1>8, RetentionIsLatest
  <2> QED
    BY <1>9, <1>11, <2>2, <2>3, <2>4
<1> QED
  BY <1>7, <1>12, <1>13

-----------------------------------------------------------------------------
(* The invariant *)

\* A call that has passed the first verification holds an event that is legal after
\* what it saw; callers never make up that something was restored.
CallsDecided ==
    \A c \in Callers : calls[c] # Idle =>
        /\ records[calls[c].item] # NoRecord
        /\ calls[c].event.action # "restored"
        /\ calls[c].phase = "verified" =>
              legal(records[calls[c].item], calls[c].seen, calls[c].event)

\* Bundles are the custody of a vault up to an export, with its record.
BundlesAreGenuine ==
    \A b \in bundles : \E v \in Vaults :
        /\ records[<<v, b.evidence>>] = b.record
        /\ IsPrefix(b.custody_events, events[<<v, b.evidence>>])
        /\ b.custody_events # <<>>
        /\ Last(b.custody_events).action = "exported"

VaultInv ==
    /\ TypeOK
    /\ HistoriesVerify
    /\ CallsDecided
    /\ BundlesAreGenuine
    /\ RestoredHistoryIsGenuine

\* Creating a record's history is what ingest and restore do to the tables.
LEMMA CreateTypes ==
    ASSUME TypeOK, NEW i \in Items, NEW record \in Records, NEW history \in Seq(Event),
           create(i, record, history)
    PROVE  /\ records' = [records EXCEPT ![i] = record]
           /\ events' = [events EXCEPT ![i] = history]
           /\ records' \in [Items -> Records \cup {NoRecord}]
           /\ events' \in [Items -> Seq(Event)]
           /\ \A j \in Items : records'[j] = NoRecord <=> events'[j] = <<>>
           /\ records[i] = NoRecord /\ events[i] = <<>>
           /\ \A j \in Items \ {i} : records'[j] = records[j] /\ events'[j] = events[j]
           /\ records'[i] = record /\ events'[i] = history
           /\ verify_vault_history(record, history) /\ history # <<>>
<1>1. record # NoRecord /\ history # <<>>
  BY VaultAssumptions DEF create, verify_vault_history
<1> QED
  BY <1>1 DEF TypeOK, create

\* Creating a history extends it from nothing and leaves the others alone.
LEMMA CreateExtends ==
    ASSUME TypeOK, NEW i \in Items, NEW record \in Records, NEW history \in Seq(Event),
           create(i, record, history)
    PROVE  /\ events' \in [Items -> Seq(Event)]
           /\ \A j \in Items : /\ IsPrefix(events[j], events'[j])
                               /\ records[j] # NoRecord => records'[j] = records[j]
<1>1. /\ events' \in [Items -> Seq(Event)]
      /\ records[i] = NoRecord /\ events[i] = <<>> /\ events'[i] = history
      /\ \A j \in Items \ {i} : records'[j] = records[j] /\ events'[j] = events[j]
  BY CreateTypes
<1>2. IsPrefix(<<>>, history)
  <2>1. Len(<<>>) = 0 /\ <<>> \in Seq(Event)
    OBVIOUS
  <2>2. Len(<<>>) <= Len(history) /\ \A k \in 1..Len(<<>>) : <<>>[k] = history[k]
    BY <2>1
  <2> QED
    BY <2>1, <2>2, PrefixByElements
<1>3. \A j \in Items : events[j] \in Seq(Event) /\ IsPrefix(events[j], events[j])
  BY PrefixByElements DEF TypeOK
<1> QED
  BY <1>1, <1>2, <1>3

\* A bundle's custody with the event that restores it.
LEMMA RestoredTypes ==
    ASSUME NEW b \in Bundle, NEW now \in Times
    PROVE  /\ b.record \in Records /\ b.custody_events \in Seq(Event)
           /\ event("restored", now) \in Event
           /\ Append(b.custody_events, event("restored", now)) \in Seq(Event)
<1>1. event("restored", now) \in Event
  BY DEF event, Event
<1> QED
  BY <1>1 DEF Bundle

\* The custody operations all load a history, with an event that may follow it.
LEMMA OperateLoads ==
    ASSUME NEW c \in Callers, NEW i \in Items, NEW now \in Times, Operate(c, i, now)
    PROVE  \E e \in Event : load(c, i, e) /\ e.action # "restored"
<1>1. CASE access(c, i, now)
  <2> DEFINE e == event("accessed", now)
  <2>1. e \in Event /\ e.action # "restored"
    BY DEF event, Event
  <2> QED
    BY <1>1, <2>1 DEF access
<1>2. CASE export_recovery_bundle(c, i, now)
  <2> DEFINE e == event("exported", now)
  <2>1. e \in Event /\ e.action # "restored"
    BY DEF event, Event
  <2> QED
    BY <1>2, <2>1 DEF export_recovery_bundle
<1>3. ASSUME NEW hold \in Holds, apply_legal_hold(c, i, hold, now)
      PROVE  \E e \in Event : load(c, i, e) /\ e.action # "restored"
  <2> DEFINE e == hold_event("legal_hold_applied", now, hold)
  <2>1. e \in Event /\ e.action # "restored"
    BY DEF hold_event, Event
  <2> QED
    BY <1>3, <2>1 DEF apply_legal_hold, _append
<1>4. ASSUME NEW hold \in Holds, release_legal_hold(c, i, hold, now)
      PROVE  \E e \in Event : load(c, i, e) /\ e.action # "restored"
  <2> DEFINE e == hold_event("legal_hold_released", now, hold)
  <2>1. e \in Event /\ e.action # "restored"
    BY DEF hold_event, Event
  <2> QED
    BY <1>4, <2>1 DEF release_legal_hold, _append
<1>5. ASSUME NEW until \in Dates, extend_retention(c, i, until, now)
      PROVE  \E e \in Event : load(c, i, e) /\ e.action # "restored"
  <2> DEFINE e == [action |-> "retention_extended", timestamp |-> now, until |-> until]
  <2>1. e \in Event /\ e.action # "restored"
    BY DEF Event
  <2> QED
    BY <1>5, <2>1 DEF extend_retention, _append
<1>6. CASE approve_deletion(c, i, now)
  <2> DEFINE e == event("deletion_approved", now)
  <2>1. e \in Event /\ e.action # "restored"
    BY DEF event, Event
  <2> QED
    BY <1>6, <2>1 DEF approve_deletion, _append
<1> QED
  BY <1>1, <1>2, <1>3, <1>4, <1>5, <1>6 DEF Operate

\* A call that is under way.
LEMMA CallTypes ==
    ASSUME TypeOK, NEW c \in Callers, calls[c] # Idle
    PROVE  /\ calls[c].item \in Items /\ calls[c].seen \in Seq(Event)
           /\ calls[c].event \in Event /\ calls[c].phase \in {"loaded", "verified"}
           /\ calls[c].item = <<calls[c].item[1], calls[c].item[2]>>
           /\ calls[c].item[1] \in Vaults /\ calls[c].item[2] \in Evidence
  BY DEF TypeOK, Call, Items

\* What a custody event that is inserted does to the tables.
LEMMA InsertTypes ==
    ASSUME VaultInv, NEW c \in Callers, _insert_event(c), head_unchanged(c)
    PROVE  /\ calls[c] # Idle
           /\ events' = [events EXCEPT ![calls[c].item] = Append(@, calls[c].event)]
           /\ events' \in [Items -> Seq(Event)]
           /\ records' = records
           /\ records[calls[c].item] \in Records
           /\ events[calls[c].item] = calls[c].seen
           /\ events'[calls[c].item] = Append(calls[c].seen, calls[c].event)
           /\ \A j \in Items \ {calls[c].item} : events'[j] = events[j]
           /\ legal(records[calls[c].item], calls[c].seen, calls[c].event)
           /\ calls' = [calls EXCEPT ![c] = Idle]
           /\ bundles' = IF calls[c].event.action = "exported"
                         THEN bundles \cup {exported_bundle(c)} ELSE bundles
<1>1. calls[c] # Idle /\ calls[c].phase = "verified"
  BY DEF _insert_event, Idle
<1>2. calls[c].item \in Items /\ calls[c].seen \in Seq(Event) /\ calls[c].event \in Event
  BY <1>1, CallTypes DEF VaultInv
<1>3. events \in [Items -> Seq(Event)] /\ records \in [Items -> Records \cup {NoRecord}]
  BY DEF VaultInv, TypeOK
<1>4. /\ events' = [events EXCEPT ![calls[c].item] = Append(@, calls[c].event)]
      /\ bundles' = IF calls[c].event.action = "exported"
                    THEN bundles \cup {exported_bundle(c)} ELSE bundles
      /\ calls' = [calls EXCEPT ![c] = Idle]
      /\ records' = records
  BY DEF _insert_event
<1>5. events[calls[c].item] = calls[c].seen
  BY DEF head_unchanged
<1>6. Append(events[calls[c].item], calls[c].event) \in Seq(Event)
  BY <1>2, <1>3
<1>7. records[calls[c].item] # NoRecord
      /\ legal(records[calls[c].item], calls[c].seen, calls[c].event)
  BY <1>1 DEF VaultInv, CallsDecided
<1> QED
  BY <1>1, <1>2, <1>3, <1>4, <1>5, <1>6, <1>7

\* What is said of a restored event still holds when histories are extended and records
\* kept: of a restore, wherever it came from.
LEMMA RestoredStays ==
    ASSUME VaultInv, events' \in [Items -> Seq(Event)],
           \A j \in Items : /\ IsPrefix(events[j], events'[j])
                            /\ records[j] # NoRecord => records'[j] = records[j],
           NEW v \in Vaults, NEW x \in Evidence,
           NEW n \in with_action(events[<<v, x>>], "restored")
    PROVE  restored_from_another(v, x, n)' \/ restored_from_elsewhere(v, x, n)'
<1> DEFINE old == events[<<v, x>>]
           new == events'[<<v, x>>]
<1>1. <<v, x>> \in Items
  BY DEF Items
<1>2. old \in Seq(Event) /\ new \in Seq(Event) /\ IsPrefix(old, new)
  BY <1>1 DEF VaultInv, TypeOK
<1>3. n \in 1..Len(old) /\ old[n].action = "restored"
  BY <1>2 DEF with_action
<1>4. restored_from_another(v, x, n) \/ restored_from_elsewhere(v, x, n)
  BY DEF VaultInv, RestoredHistoryIsGenuine
<1>5. records[<<v, x>>] # NoRecord /\ records'[<<v, x>>] = records[<<v, x>>]
  <2>1. old # <<>>
    BY <1>3
  <2> QED
    BY <1>1, <2>1 DEF VaultInv, TypeOK
<1>6. legal(records[<<v, x>>], before(old, 1), old[1])
  <2>1. 1 \in DOMAIN old
    BY <1>2, <1>3
  <2> QED
    BY <1>1, <1>5, <2>1 DEF VaultInv, HistoriesVerify, verify_vault_history
<1> HIDE DEF old, new
<1>7. n # 1
  <2>1. SUFFICES ASSUME n = 1 PROVE FALSE
    OBVIOUS
  <2>2. before(old, 1) = <<>>
    BY DEF before
  <2> QED
    BY <1>3, <1>6, <2>1, <2>2 DEF legal
<1>8. Len(old) <= Len(new) /\ \A j \in 1..Len(old) : old[j] = new[j]
  BY <1>2, PrefixByElements
<1>9. n \in 1..(Len(old) + 1) /\ n + 1 \in 1..(Len(old) + 1) /\ n - 1 \in 1..Len(old)
  BY <1>2, <1>3, <1>7
<1>10. before(old, n) = before(new, n) /\ before(old, n + 1) = before(new, n + 1)
  BY <1>2, <1>9, BeforeOfPrefix
<1>11. old[n - 1] = new[n - 1]
  BY <1>8, <1>9
<1>12. CASE restored_from_another(v, x, n)
  <2>1. PICK w \in Vaults \ {v} :
           /\ IsPrefix(before(old, n), events[<<w, x>>])
           /\ old[n - 1].action = "exported"
           /\ records[<<w, x>>] = records[<<v, x>>]
    BY <1>12 DEF restored_from_another, old
  <2>2. /\ <<w, x>> \in Items /\ records'[<<w, x>>] = records[<<w, x>>]
        /\ events[<<w, x>>] \in Seq(Event) /\ events'[<<w, x>>] \in Seq(Event)
    BY <1>5, <2>1 DEF Items, VaultInv, TypeOK
  <2>3. before(old, n) \in Seq(Event)
    BY <1>2, <1>9, BeforeByElements
  <2>4. IsPrefix(before(old, n), events'[<<w, x>>])
    BY <2>1, <2>2, <2>3, PrefixTransitive
  <2> QED
    BY <1>5, <1>10, <1>11, <2>1, <2>2, <2>4 DEF restored_from_another, new
<1>13. CASE restored_from_elsewhere(v, x, n)
  BY <1>5, <1>10, <1>13 DEF restored_from_elsewhere, old, new
<1> QED
  BY <1>4, <1>12, <1>13

\* A step that touches no table keeps what is said of the tables.
LEMMA QuietStep ==
    ASSUME VaultInv, UNCHANGED <<records, events, bundles>>,
           calls' \in [Callers -> Call], CallsDecided'
    PROVE  VaultInv'
<1>1. TypeOK' /\ HistoriesVerify'
  BY DEF VaultInv, TypeOK, HistoriesVerify
<1>2. BundlesAreGenuine'
  BY DEF VaultInv, BundlesAreGenuine
<1>3. RestoredHistoryIsGenuine'
  <2>1. /\ events' \in [Items -> Seq(Event)]
        /\ \A j \in Items : /\ IsPrefix(events[j], events'[j])
                            /\ records[j] # NoRecord => records'[j] = records[j]
    BY PrefixByElements DEF VaultInv, TypeOK
  <2>2. ASSUME NEW v \in Vaults, NEW x \in Evidence,
               NEW n \in with_action(events'[<<v, x>>], "restored")
        PROVE  restored_from_another(v, x, n)' \/ restored_from_elsewhere(v, x, n)'
    BY <2>1, RestoredStays
  <2> QED
    BY <2>2 DEF RestoredHistoryIsGenuine
<1> QED
  BY <1>1, <1>2, <1>3 DEF VaultInv

\* A call that ends touches nothing else.
LEMMA RefusedStep ==
    ASSUME VaultInv, NEW c \in Callers, refused(c)
    PROVE  VaultInv'
<1>1. calls' \in [Callers -> Call] /\ UNCHANGED <<records, events, bundles>>
  BY DEF VaultInv, TypeOK, Call, refused
<1>2. CallsDecided'
  BY DEF VaultInv, TypeOK, CallsDecided, refused
<1> QED
  BY <1>1, <1>2, QuietStep

LEMMA LoadStep ==
    ASSUME VaultInv, NEW c \in Callers, NEW i \in Items, NEW e \in Event,
           load(c, i, e), e.action # "restored"
    PROVE  VaultInv'
<1> DEFINE call == [phase |-> "loaded", item |-> i, seen |-> events[i], event |-> e]
<1>1. call \in Call
  BY DEF VaultInv, TypeOK, Call
<1>2. calls' = [calls EXCEPT ![c] = call] /\ UNCHANGED <<records, events, bundles>>
      /\ records[i] # NoRecord
  BY DEF load
<1>3. call.item = i /\ call.event = e /\ call.phase = "loaded"
  OBVIOUS
<1> HIDE DEF call
<1>4. calls' \in [Callers -> Call]
  BY <1>1, <1>2 DEF VaultInv, TypeOK
<1>5. CallsDecided'
  BY <1>2, <1>3 DEF VaultInv, TypeOK, CallsDecided
<1> QED
  BY <1>2, <1>4, <1>5, QuietStep

LEMMA AppendStep ==
    ASSUME VaultInv, NEW c \in Callers, append_event(c)
    PROVE  VaultInv'
<1>1. calls[c] # Idle /\ calls[c].phase = "loaded"
  BY DEF append_event, Idle
<1> DEFINE i == calls[c].item
           e == calls[c].event
           call == [calls[c] EXCEPT !.phase = "verified"]
<1>2. CASE refused(c)
  BY <1>2, RefusedStep
<1>3. CASE /\ events[i] = calls[c].seen
           /\ legal(records[i], events[i], e)
           /\ calls' = [calls EXCEPT ![c].phase = "verified"]
           /\ UNCHANGED <<records, events, bundles>>
  <2>1. calls[c] \in [phase: {"loaded", "verified"}, item: Items, seen: Seq(Event),
                      event: Event]
    BY <1>1 DEF VaultInv, TypeOK, Call
  <2>2. /\ call \in Call /\ call.item = i /\ call.event = e
        /\ call.seen = calls[c].seen /\ call.phase = "verified"
    BY <2>1 DEF Call
  <2>3. calls' = [calls EXCEPT ![c] = call]
    BY <1>3
  <2>4. records[i] # NoRecord /\ e.action # "restored"
    BY <1>1 DEF VaultInv, CallsDecided
  <2>5. UNCHANGED <<records, events, bundles>> /\ legal(records[i], call.seen, e)
    BY <1>3, <2>2
  <2> HIDE DEF call
  <2>6. calls' \in [Callers -> Call]
    BY <2>2, <2>3 DEF VaultInv, TypeOK
  <2>7. CallsDecided'
    <3> SUFFICES ASSUME NEW d \in Callers, calls'[d] # Idle
                 PROVE  /\ records'[calls'[d].item] # NoRecord
                        /\ calls'[d].event.action # "restored"
                        /\ calls'[d].phase = "verified" =>
                              legal(records'[calls'[d].item], calls'[d].seen,
                                    calls'[d].event)
      BY DEF CallsDecided
    <3>1. CASE d = c
      <4>1. calls'[d] = call
        BY <2>3, <3>1 DEF VaultInv, TypeOK
      <4> QED
        BY <2>2, <2>4, <2>5, <4>1
    <3>2. CASE d # c
      <4>1. calls'[d] = calls[d]
        BY <2>3, <3>2 DEF VaultInv, TypeOK
      <4> QED
        BY <2>5, <4>1 DEF VaultInv, CallsDecided
    <3> QED
      BY <3>1, <3>2
  <2> QED
    BY <2>5, <2>6, <2>7, QuietStep
<1> QED
  BY <1>2, <1>3 DEF append_event

\* A new history, of an identifier that was free, does not disturb the others.
LEMMA CreateKeeps ==
    ASSUME VaultInv, NEW i \in Items, NEW record \in Records, NEW history \in Seq(Event),
           create(i, record, history), UNCHANGED <<bundles, calls>>
    PROVE  TypeOK' /\ HistoriesVerify' /\ CallsDecided' /\ BundlesAreGenuine'
<1> USE DEF VaultInv
<1>1. /\ records' \in [Items -> Records \cup {NoRecord}]
      /\ events' \in [Items -> Seq(Event)]
      /\ \A j \in Items : records'[j] = NoRecord <=> events'[j] = <<>>
      /\ records[i] = NoRecord /\ events[i] = <<>>
      /\ \A j \in Items \ {i} : records'[j] = records[j] /\ events'[j] = events[j]
      /\ records'[i] = record /\ events'[i] = history
      /\ verify_vault_history(record, history)
  BY CreateTypes
<1>2. TypeOK'
  BY <1>1 DEF TypeOK
<1>3. HistoriesVerify'
  BY <1>1 DEF HistoriesVerify
<1>4. CallsDecided'
  <2> SUFFICES ASSUME NEW d \in Callers, calls[d] # Idle
               PROVE  /\ records'[calls[d].item] # NoRecord
                      /\ calls[d].event.action # "restored"
                      /\ calls[d].phase = "verified" =>
                            legal(records'[calls[d].item], calls[d].seen, calls[d].event)
    BY DEF CallsDecided
  <2>1. /\ records[calls[d].item] # NoRecord /\ calls[d].event.action # "restored"
        /\ calls[d].phase = "verified" =>
              legal(records[calls[d].item], calls[d].seen, calls[d].event)
    BY DEF CallsDecided
  <2>2. calls[d].item \in Items \ {i}
    BY <1>1, <2>1, CallTypes
  <2> QED
    BY <1>1, <2>1, <2>2
<1>5. BundlesAreGenuine'
  <2> SUFFICES ASSUME NEW b \in bundles
               PROVE  \E v \in Vaults :
                         /\ records'[<<v, b.evidence>>] = b.record
                         /\ IsPrefix(b.custody_events, events'[<<v, b.evidence>>])
                         /\ b.custody_events # <<>>
                         /\ Last(b.custody_events).action = "exported"
    BY DEF BundlesAreGenuine
  <2>1. PICK v \in Vaults :
           /\ records[<<v, b.evidence>>] = b.record
           /\ IsPrefix(b.custody_events, events[<<v, b.evidence>>])
           /\ b.custody_events # <<>>
           /\ Last(b.custody_events).action = "exported"
    BY DEF BundlesAreGenuine
  <2>2. b.record # NoRecord /\ <<v, b.evidence>> \in Items
    BY VaultAssumptions DEF TypeOK, Bundle, Items
  <2>3. <<v, b.evidence>> \in Items \ {i}
    BY <1>1, <2>1, <2>2
  <2> QED
    BY <1>1, <2>1, <2>3
<1> QED
  BY <1>2, <1>3, <1>4, <1>5

LEMMA IngestStep ==
    ASSUME VaultInv, NEW i \in Items, NEW record \in Records, NEW now \in Times,
           ingest(i, record, now)
    PROVE  VaultInv'
<1> DEFINE e == event("ingested", now)
           history == <<e>>
<1>1. e \in Event /\ e.action = "ingested"
  BY DEF event, Event
<1>2. /\ history \in Seq(Event) /\ Len(history) = 1 /\ DOMAIN history = 1..1
      /\ history[1].action = "ingested"
  BY <1>1
<1>3. create(i, record, history) /\ UNCHANGED <<bundles, calls>>
  BY DEF ingest
<1> HIDE DEF history
<1>4. TypeOK' /\ HistoriesVerify' /\ CallsDecided' /\ BundlesAreGenuine'
  BY <1>2, <1>3, CreateKeeps
<1>5. /\ \A j \in Items \ {i} : records'[j] = records[j] /\ events'[j] = events[j]
      /\ events'[i] = history /\ records[i] = NoRecord
  BY <1>2, <1>3, CreateTypes DEF VaultInv
<1>6. /\ events' \in [Items -> Seq(Event)]
      /\ \A j \in Items : /\ IsPrefix(events[j], events'[j])
                          /\ records[j] # NoRecord => records'[j] = records[j]
  BY <1>2, <1>3, CreateExtends DEF VaultInv
<1>7. RestoredHistoryIsGenuine'
  <2> SUFFICES ASSUME NEW v \in Vaults, NEW x \in Evidence,
                      NEW n \in with_action(events'[<<v, x>>], "restored")
               PROVE  restored_from_another(v, x, n)' \/ restored_from_elsewhere(v, x, n)'
    BY DEF RestoredHistoryIsGenuine
  <2>1. <<v, x>> \in Items
    BY DEF Items
  <2>2. <<v, x>> # i
    <3>1. \A k \in DOMAIN history : history[k].action # "restored"
      BY <1>2
    <3>2. with_action(history, "restored") = {}
      BY <3>1 DEF with_action
    <3> QED
      BY <1>5, <3>2
  <2>3. n \in with_action(events[<<v, x>>], "restored")
    BY <1>5, <2>1, <2>2
  <2> QED
    BY <1>6, <2>3, RestoredStays
<1> QED
  BY <1>4, <1>7 DEF VaultInv

LEMMA RestoreStep ==
    ASSUME VaultInv, NEW z \in Vaults, NEW b \in bundles \cup ForeignBundles, NEW now \in Times,
           restore_recovery_bundle(z, b, now)
    PROVE  VaultInv'
<1> DEFINE i == <<z, b.evidence>>
           e == event("restored", now)
           custody == b.custody_events
           history == Append(custody, e)
<1>1. b \in Bundle /\ i \in Items
  BY BundleAssumptions DEF VaultInv, TypeOK, Bundle, Items
<1>2. /\ b.record \in Records /\ custody \in Seq(Event) /\ e \in Event
      /\ history \in Seq(Event)
  BY <1>1, RestoredTypes
<1>3. /\ Len(history) = Len(custody) + 1 /\ Len(custody) \in Nat
      /\ DOMAIN history = 1..(Len(custody) + 1)
      /\ \A j \in 1..Len(custody) : history[j] = custody[j]
  BY <1>2
<1>4. IsPrefix(custody, history)
  BY <1>2, PrefixOfAppend
<1>5. create(i, b.record, history) /\ UNCHANGED <<bundles, calls>>
  BY DEF restore_recovery_bundle
<1> HIDE DEF i, custody, e, history
<1>6. TypeOK' /\ HistoriesVerify' /\ CallsDecided' /\ BundlesAreGenuine'
  BY <1>1, <1>2, <1>5, CreateKeeps
<1>7. /\ \A j \in Items \ {i} : records'[j] = records[j] /\ events'[j] = events[j]
      /\ events'[i] = history /\ records'[i] = b.record
      /\ records[i] = NoRecord /\ events[i] = <<>>
  BY <1>1, <1>2, <1>5, CreateTypes DEF VaultInv
<1>8. /\ events' \in [Items -> Seq(Event)]
      /\ \A j \in Items : /\ IsPrefix(events[j], events'[j])
                          /\ records[j] # NoRecord => records'[j] = records[j]
  BY <1>1, <1>2, <1>5, CreateExtends DEF VaultInv
<1>9. RestoredHistoryIsGenuine'
  <2> SUFFICES ASSUME NEW v \in Vaults, NEW x \in Evidence,
                      NEW n \in with_action(events'[<<v, x>>], "restored")
               PROVE  restored_from_another(v, x, n)' \/ restored_from_elsewhere(v, x, n)'
    BY DEF RestoredHistoryIsGenuine
  <2>1. <<v, x>> \in Items
    BY DEF Items
  <2>2. CASE <<v, x>> # i
    <3>1. n \in with_action(events[<<v, x>>], "restored")
      BY <1>7, <2>1, <2>2
    <3> QED
      BY <1>8, <3>1, RestoredStays
  <2>3. CASE <<v, x>> = i
    <3>1. /\ v = z /\ x = b.evidence
          /\ events'[<<v, x>>] = history /\ records'[<<v, x>>] = b.record
      BY <1>7, <2>3 DEF i
    <3>2. /\ n \in 1..(Len(custody) + 1)
          /\ n \in 1..Len(custody) => custody[n].action = "restored"
      BY <1>3, <3>1 DEF with_action
    <3>3. before(history, Len(custody) + 1) = custody
      BY <1>2, <1>3, <1>4, BeforeOfPrefix, BeforeByElements
    <3>4. \A k \in 1..(Len(custody) + 1) : before(history, k) = before(custody, k)
      BY <1>2, <1>4, BeforeOfPrefix
    <3>5. CASE b \in ForeignBundles
      <4>1. CASE n = Len(custody) + 1
        <5>1. before(events'[<<v, x>>], n) = b.custody_events
          BY <3>1, <3>3, <4>1 DEF custody
        <5> QED
          BY <3>1, <3>5, <5>1 DEF restored_from_elsewhere
      <4>2. CASE n # Len(custody) + 1
        <5>1. n + 1 \in 1..(Len(custody) + 1)
          BY <1>3, <3>2, <4>2
        <5>2. IsPrefix(custody, custody)
          BY <1>2, PrefixByElements
        <5>3. IsPrefix(before(custody, n + 1), custody)
          BY <1>2, <5>1, <5>2, BeforeOfPrefix
        <5>4. IsPrefix(before(events'[<<v, x>>], n + 1), b.custody_events)
          BY <3>1, <3>4, <5>1, <5>3 DEF custody
        <5> QED
          BY <3>1, <3>5, <5>4 DEF restored_from_elsewhere
      <4> QED
        BY <4>1, <4>2
    <3>6. CASE b \in bundles
      <4>1. PICK w \in Vaults :
               /\ records[<<w, x>>] = b.record
               /\ IsPrefix(custody, events[<<w, x>>])
               /\ custody # <<>>
               /\ Last(custody).action = "exported"
        BY <3>1, <3>6 DEF VaultInv, BundlesAreGenuine, custody
      <4> DEFINE other == events[<<w, x>>]
      <4>2. b.record # NoRecord /\ records[<<z, x>>] = NoRecord
        BY <1>2, <1>7, <3>1, VaultAssumptions DEF i
      <4>3. /\ \A u \in Vaults : records[<<u, x>>] = b.record => u # z /\ <<u, x>> \in Items \ {i}
            /\ other \in Seq(Event)
            /\ verify_vault_history(b.record, other)
        BY <3>1, <4>1, <4>2 DEF i, Items, VaultInv, TypeOK, HistoriesVerify
      <4>4. IsPrefix(custody, other)
        BY <4>1
      <4>5. CASE n = Len(custody) + 1
        <5>1. Len(custody) \in 1..Len(custody)
          BY <1>2, <4>1
        <5>2. history[n - 1] = Last(custody)
          BY <1>3, <4>5, <5>1 DEF Last
        <5> QED
          BY <1>7, <3>1, <3>3, <4>1, <4>3, <4>5, <5>2 DEF restored_from_another
      <4>6. CASE n # Len(custody) + 1
        <5> HIDE DEF other
        <5>1. n \in 1..Len(custody) /\ custody[n].action = "restored"
          BY <1>3, <3>2, <4>6
        <5>2. Len(custody) <= Len(other) /\ \A j \in 1..Len(custody) : custody[j] = other[j]
          BY <1>2, <4>3, <4>4, PrefixByElements
        <5>3. n \in with_action(other, "restored")
          BY <4>3, <5>1, <5>2 DEF with_action
        <5>4. \A k \in 1..(Len(custody) + 1) : before(history, k) = before(other, k)
          BY <1>2, <3>4, <4>3, <4>4, BeforeOfPrefix
        <5>5. n # 1
          <6>1. SUFFICES ASSUME n = 1 PROVE FALSE
            OBVIOUS
          <6>2. before(other, 1) = <<>>
            BY DEF before
          <6>3. legal(b.record, <<>>, other[1]) /\ other[1].action = "restored"
            BY <4>3, <5>3, <6>1, <6>2 DEF verify_vault_history, with_action
          <6> QED
            BY <6>3 DEF legal
        <5>6. n + 1 \in 1..(Len(custody) + 1) /\ n - 1 \in 1..Len(custody)
          BY <1>3, <5>1, <5>5
        <5>7. history[n - 1] = other[n - 1]
          BY <1>3, <5>2, <5>6
        <5>8. restored_from_another(w, x, n) \/ restored_from_elsewhere(w, x, n)
          BY <5>3 DEF VaultInv, RestoredHistoryIsGenuine, other
        <5>9. CASE restored_from_another(w, x, n)
          <6>1. PICK u \in Vaults \ {w} :
                   /\ IsPrefix(before(other, n), events[<<u, x>>])
                   /\ other[n - 1].action = "exported"
                   /\ records[<<u, x>>] = b.record
            BY <4>1, <5>9 DEF restored_from_another, other
          <6>2. u # z /\ events'[<<u, x>>] = events[<<u, x>>]
                /\ records'[<<u, x>>] = b.record
            BY <1>7, <4>3, <6>1
          <6>3. before(history, n) = before(other, n)
            BY <3>2, <5>4
          <6> QED
            BY <3>1, <5>7, <6>1, <6>2, <6>3 DEF restored_from_another
        <5>10. CASE restored_from_elsewhere(w, x, n)
          <6>1. /\ before(history, n) = before(other, n)
                /\ before(history, n + 1) = before(other, n + 1)
            BY <3>2, <5>4, <5>6
          <6> QED
            BY <3>1, <4>1, <5>10, <6>1 DEF restored_from_elsewhere, other
        <5> QED
          BY <5>8, <5>9, <5>10
      <4> QED
        BY <4>5, <4>6
    <3> QED
      BY <3>5, <3>6
  <2> QED
    BY <2>2, <2>3
<1> QED
  BY <1>6, <1>9 DEF VaultInv

LEMMA InsertStep ==
    ASSUME VaultInv, NEW c \in Callers, _insert_event(c), head_unchanged(c)
    PROVE  VaultInv'
<1> DEFINE i == calls[c].item
           e == calls[c].event
           seen == calls[c].seen
           longer == Append(seen, e)
<1>1. /\ calls[c] # Idle /\ i \in Items /\ seen \in Seq(Event) /\ e \in Event
      /\ i = <<i[1], i[2]>> /\ i[1] \in Vaults /\ i[2] \in Evidence
  BY InsertTypes, CallTypes DEF VaultInv
<1>2. /\ events' \in [Items -> Seq(Event)] /\ records' = records
      /\ records[i] \in Records
      /\ events[i] = seen /\ events'[i] = longer
      /\ \A j \in Items \ {i} : events'[j] = events[j]
      /\ legal(records[i], seen, e)
      /\ calls' = [calls EXCEPT ![c] = Idle]
      /\ bundles' = IF e.action = "exported" THEN bundles \cup {exported_bundle(c)}
                    ELSE bundles
  BY InsertTypes
<1>3. /\ longer \in Seq(Event) /\ longer # <<>> /\ Len(longer) = Len(seen) + 1
      /\ Len(seen) \in Nat /\ longer[Len(seen) + 1] = e
      /\ \A j \in 1..Len(seen) : longer[j] = seen[j]
      /\ IsPrefix(seen, longer) /\ IsPrefix(longer, longer)
  <2>1. /\ longer \in Seq(Event) /\ longer # <<>> /\ Len(longer) = Len(seen) + 1
        /\ Len(seen) \in Nat /\ longer[Len(seen) + 1] = e
        /\ \A j \in 1..Len(seen) : longer[j] = seen[j]
    <3>1. seen \in Seq(Event) /\ e \in Event
      BY <1>1
    <3> HIDE DEF e, seen
    <3> QED
      BY <3>1
  <2>2. IsPrefix(seen, longer)
    BY <1>1, PrefixOfAppend
  <2> HIDE DEF longer
  <2>3. IsPrefix(longer, longer)
    BY <2>1, PrefixByElements
  <2> QED
    BY <2>1, <2>2, <2>3
<1>4. e.action # "restored"
  BY <1>1 DEF VaultInv, CallsDecided
<1>5. /\ exported_bundle(c).evidence = i[2] /\ exported_bundle(c).record = records[i]
      /\ exported_bundle(c).custody_events = longer
      /\ exported_bundle(c) \in Bundle
  BY <1>1, <1>2, <1>3 DEF exported_bundle, Bundle
<1> HIDE DEF i, e, seen, longer
<1>6. TypeOK'
  <2>1. \A j \in Items : records'[j] = NoRecord <=> events'[j] = <<>>
    BY <1>1, <1>2, <1>3, VaultAssumptions DEF VaultInv, TypeOK
  <2>2. bundles' \subseteq Bundle
    BY <1>2, <1>5 DEF VaultInv, TypeOK
  <2>3. calls' \in [Callers -> Call]
    BY <1>2 DEF VaultInv, TypeOK, Call
  <2> QED
    BY <1>2, <2>1, <2>2, <2>3 DEF VaultInv, TypeOK
<1>7. HistoriesVerify'
  <2> SUFFICES ASSUME NEW j \in Items, records[j] # NoRecord
               PROVE  verify_vault_history(records[j], events'[j])
    BY <1>2 DEF HistoriesVerify
  <2>1. verify_vault_history(records[j], events[j])
    BY DEF VaultInv, HistoriesVerify
  <2>2. CASE j = i
    <3>1. verify_vault_history(records[i], Append(seen, e))
      BY <1>1, <1>2, <2>1, <2>2, VerifyAppended
    <3> QED
      BY <1>2, <2>2, <3>1 DEF longer
  <2>3. CASE j # i
    BY <1>2, <2>1, <2>3
  <2> QED
    BY <2>2, <2>3
<1>8. CallsDecided'
  BY <1>2 DEF VaultInv, TypeOK, CallsDecided
<1>9. \A j \in Items : events[j] \in Seq(Event) /\ events'[j] \in Seq(Event)
                       /\ IsPrefix(events[j], events'[j])
  <2> TAKE j \in Items
  <2>1. events[j] \in Seq(Event) /\ events'[j] \in Seq(Event)
    BY <1>2 DEF VaultInv, TypeOK
  <2>2. j = i => IsPrefix(events[j], events'[j])
    BY <1>2, <1>3
  <2>3. j # i => events'[j] = events[j]
    BY <1>2
  <2>4. IsPrefix(events[j], events[j])
    BY <2>1, PrefixByElements
  <2> QED
    BY <2>1, <2>2, <2>3, <2>4
<1>10. BundlesAreGenuine'
  <2> SUFFICES ASSUME NEW b \in bundles'
               PROVE  \E v \in Vaults :
                         /\ records[<<v, b.evidence>>] = b.record
                         /\ IsPrefix(b.custody_events, events'[<<v, b.evidence>>])
                         /\ b.custody_events # <<>>
                         /\ Last(b.custody_events).action = "exported"
    BY <1>2 DEF BundlesAreGenuine
  <2>1. CASE b \in bundles
    <3>1. PICK v \in Vaults :
             /\ records[<<v, b.evidence>>] = b.record
             /\ IsPrefix(b.custody_events, events[<<v, b.evidence>>])
             /\ b.custody_events # <<>>
             /\ Last(b.custody_events).action = "exported"
      BY <2>1 DEF VaultInv, BundlesAreGenuine
    <3>2. b.custody_events \in Seq(Event) /\ <<v, b.evidence>> \in Items
      BY <2>1 DEF VaultInv, TypeOK, Bundle, Items
    <3>3. IsPrefix(b.custody_events, events'[<<v, b.evidence>>])
      BY <1>9, <3>1, <3>2, PrefixTransitive
    <3> QED
      BY <3>1, <3>3
  <2>2. CASE b = exported_bundle(c) /\ e.action = "exported"
    <3>1. b.evidence = i[2] /\ b.record = records[i] /\ b.custody_events = longer
      BY <1>5, <2>2
    <3>2. Last(longer).action = "exported" /\ IsPrefix(longer, events'[i])
      BY <1>2, <1>3, <2>2 DEF Last
    <3>3. i = <<i[1], b.evidence>> /\ i[1] \in Vaults
      BY <1>1, <3>1
    <3> QED
      BY <1>3, <3>1, <3>2, <3>3
  <2> QED
    BY <1>2, <2>1, <2>2
<1>11. RestoredHistoryIsGenuine'
  <2> SUFFICES ASSUME NEW v \in Vaults, NEW x \in Evidence,
                      NEW n \in with_action(events'[<<v, x>>], "restored")
               PROVE  restored_from_another(v, x, n)' \/ restored_from_elsewhere(v, x, n)'
    BY DEF RestoredHistoryIsGenuine
  <2> DEFINE old == events[<<v, x>>]
             new == events'[<<v, x>>]
  <2>1. <<v, x>> \in Items
    BY DEF Items
  <2>2. old \in Seq(Event) /\ new \in Seq(Event) /\ IsPrefix(old, new)
    BY <1>9, <2>1
  <2>3. n \in 1..Len(new) /\ new[n].action = "restored"
    BY <2>2 DEF with_action
  <2>4. <<v, x>> = i => old = seen /\ new = longer
    BY <1>2
  <2>5. <<v, x>> # i => new = old
    BY <1>2, <2>1
  <2> HIDE DEF old, new
  <2>6. n \in 1..Len(old)
    <3>1. CASE <<v, x>> = i
      <4>1. n # Len(seen) + 1
        BY <1>3, <1>4, <2>3, <2>4, <3>1
      <4> QED
        BY <1>3, <2>3, <2>4, <3>1, <4>1
    <3>2. CASE <<v, x>> # i
      BY <2>3, <2>5, <3>2
    <3> QED
      BY <3>1, <3>2
  <2>7. Len(old) <= Len(new) /\ \A j \in 1..Len(old) : old[j] = new[j]
    BY <2>2, PrefixByElements
  <2>8. n \in with_action(events[<<v, x>>], "restored")
    BY <2>2, <2>3, <2>6, <2>7 DEF with_action, old
  <2> QED
    BY <1>2, <1>9, <2>8, RestoredStays
<1> QED
  BY <1>6, <1>7, <1>8, <1>10, <1>11 DEF VaultInv

-----------------------------------------------------------------------------
(* Theorems *)

LEMMA InitEstablishes == Init => VaultInv
<1> SUFFICES ASSUME Init PROVE VaultInv
  OBVIOUS
<1>1. \A i \in Items : records[i] = NoRecord /\ events[i] = <<>>
  BY DEF Init
<1>2. TypeOK /\ HistoriesVerify /\ CallsDecided /\ BundlesAreGenuine
  BY <1>1 DEF Init, TypeOK, HistoriesVerify, CallsDecided, BundlesAreGenuine, Call
<1>3. RestoredHistoryIsGenuine
  <2>1. \A v \in Vaults, x \in Evidence : events[<<v, x>>] = <<>>
    BY <1>1 DEF Items
  <2>2. with_action(<<>>, "restored") = {}
    BY DEF with_action
  <2> QED
    BY <2>1, <2>2 DEF RestoredHistoryIsGenuine
<1> QED
  BY <1>2, <1>3 DEF VaultInv

LEMMA StepKeeps == VaultInv /\ [Next]_vars => VaultInv'
<1> SUFFICES ASSUME VaultInv, [Next]_vars PROVE VaultInv'
  OBVIOUS
<1>1. ASSUME NEW i \in Items, NEW record \in Records, NEW now \in Times,
             ingest(i, record, now)
      PROVE  VaultInv'
  BY <1>1, IngestStep
<1>2. ASSUME NEW c \in Callers, NEW i \in Items, NEW now \in Times, Operate(c, i, now)
      PROVE  VaultInv'
  <2>1. PICK e \in Event : load(c, i, e) /\ e.action # "restored"
    BY <1>2, OperateLoads
  <2> QED
    BY <2>1, LoadStep
<1>3. ASSUME NEW c \in Callers, append_event(c)
      PROVE  VaultInv'
  BY <1>3, AppendStep
<1>4. ASSUME NEW c \in Callers, _insert_event(c)
      PROVE  VaultInv'
  <2>1. CASE head_unchanged(c)
    BY <1>4, <2>1, InsertStep
  <2>2. CASE ~ head_unchanged(c)
    <3>1. refused(c)
      BY <1>4, <2>2 DEF _insert_event
    <3> QED
      BY <3>1, RefusedStep
  <2> QED
    BY <2>1, <2>2
<1>5. ASSUME NEW v \in Vaults, NEW b \in bundles \cup ForeignBundles, NEW now \in Times,
             restore_recovery_bundle(v, b, now)
      PROVE  VaultInv'
  BY <1>5, RestoreStep
<1>6. CASE UNCHANGED vars
  <2>1. UNCHANGED <<records, events, bundles>> /\ calls' = calls
    BY <1>6 DEF vars
  <2>2. calls' \in [Callers -> Call] /\ CallsDecided'
    BY <2>1 DEF VaultInv, TypeOK, CallsDecided
  <2> QED
    BY <2>1, <2>2, QuietStep
<1> QED
  BY <1>1, <1>2, <1>3, <1>4, <1>5, <1>6 DEF Next

LEMMA VaultInvHolds == Spec => []VaultInv
  BY InitEstablishes, StepKeeps, PTL DEF Spec

\* Every state is well-typed, and no record is without custody.
THEOREM TypeCorrect == Spec => []TypeOK
<1>1. VaultInv => TypeOK
  BY DEF VaultInv
<1> QED
  BY <1>1, VaultInvHolds, PTL

\* Every stored history verifies, whoever operated on it at the same time.
THEOREM AllHistoriesVerify == Spec => []HistoriesVerify
<1>1. VaultInv => HistoriesVerify
  BY DEF VaultInv
<1> QED
  BY <1>1, VaultInvHolds, PTL

\* Deletion is not approved under a hold or before the end of retention, also when
\* the approver looked before the hold was applied.
THEOREM HoldsHold == Spec => []HoldsBlockDeletion
<1>1. VaultInv => HoldsBlockDeletion
  <2> SUFFICES ASSUME VaultInv, NEW i \in Items,
                      NEW n \in with_action(events[i], "deletion_approved")
               PROVE  /\ \A m \in with_action(events[i], "legal_hold_applied") : m < n =>
                            \E k \in with_action(events[i], "legal_hold_released") :
                               m < k /\ k < n /\ events[i][k].hold = events[i][m].hold
                      /\ records[i].retention_until <= date(events[i][n].timestamp)
                      /\ \A m \in with_action(events[i], "retention_extended") :
                            m < n => events[i][m].until <= date(events[i][n].timestamp)
    BY DEF HoldsBlockDeletion
  <2>1. events[i] # <<>>
    BY DEF with_action
  <2>2. events[i] \in Seq(Event) /\ records[i] \in Records
        /\ verify_vault_history(records[i], events[i])
    BY <2>1 DEF VaultInv, TypeOK, HistoriesVerify
  <2> QED
    BY <2>2, VerifiedHoldsBlock
<1> QED
  BY <1>1, VaultInvHolds, PTL

\* What is restored is the custody of another vault of the institution, or came from none.
THEOREM RestoresAreGenuine == Spec => []RestoredHistoryIsGenuine
<1>1. VaultInv => RestoredHistoryIsGenuine
  BY DEF VaultInv
<1> QED
  BY <1>1, VaultInvHolds, PTL

\* The vaults implement an append-only log for each piece of evidence.
THEOREM CustodyImplementsLogs == Spec => CustodyIsAppendOnly
<1>1. Init => Custody!Init
  <2> SUFFICES ASSUME Init PROVE events \in [Items -> Seq(Event)]
    BY DEF Custody!Init
  <2> QED
    BY DEF Init
<1>2. VaultInv /\ [Next]_vars => [Custody!Next]_events
  <2> SUFFICES ASSUME VaultInv, Next, events' # events
               PROVE  \E i \in Items : /\ \A j \in Items \ {i} : events'[j] = events[j]
                                       /\ IsStrictPrefix(events[i], events'[i])
    BY DEF vars, Custody!Next, Custody!Extend, Custody!IsStrictPrefix, Custody!IsPrefix,
           IsStrictPrefix, IsPrefix
  <2>1. ASSUME NEW i \in Items, NEW record \in Records, NEW history \in Seq(Event),
               create(i, record, history)
        PROVE  /\ \A j \in Items \ {i} : events'[j] = events[j]
               /\ IsStrictPrefix(events[i], events'[i])
    <3>1. /\ \A j \in Items \ {i} : events'[j] = events[j]
          /\ events[i] = <<>> /\ events'[i] = history /\ history # <<>>
      BY <2>1, CreateTypes DEF VaultInv
    <3>2. IsPrefix(<<>>, history)
      <4> DEFINE none == <<>>
      <4>1. none \in Seq(Event) /\ Len(none) = 0 /\ Len(none) <= Len(history)
            /\ \A j \in 1..Len(none) : none[j] = history[j]
        OBVIOUS
      <4> HIDE DEF none
      <4>2. IsPrefix(none, history)
        BY <4>1, PrefixByElements
      <4> QED
        BY <4>2 DEF none
    <3> QED
      BY <3>1, <3>2 DEF IsStrictPrefix
  <2>2. ASSUME NEW i \in Items, NEW record \in Records, NEW now \in Times,
               ingest(i, record, now)
        PROVE  \E j \in Items : /\ \A k \in Items \ {j} : events'[k] = events[k]
                                /\ IsStrictPrefix(events[j], events'[j])
    <3>1. <<event("ingested", now)>> \in Seq(Event)
      BY DEF event, Event
    <3>2. create(i, record, <<event("ingested", now)>>)
      BY <2>2 DEF ingest
    <3> QED
      BY <2>1, <3>1, <3>2
  <2>3. ASSUME NEW v \in Vaults, NEW b \in bundles \cup ForeignBundles, NEW now \in Times,
               restore_recovery_bundle(v, b, now)
        PROVE  \E j \in Items : /\ \A k \in Items \ {j} : events'[k] = events[k]
                                /\ IsStrictPrefix(events[j], events'[j])
    <3>1. b \in Bundle /\ <<v, b.evidence>> \in Items
      BY BundleAssumptions DEF VaultInv, TypeOK, Bundle, Items
    <3>2. /\ b.record \in Records
          /\ Append(b.custody_events, event("restored", now)) \in Seq(Event)
      BY <3>1, RestoredTypes
    <3>3. create(<<v, b.evidence>>, b.record,
                 Append(b.custody_events, event("restored", now)))
      BY <2>3 DEF restore_recovery_bundle
    <3> QED
      BY <2>1, <3>1, <3>2, <3>3
  <2>4. ASSUME NEW c \in Callers, _insert_event(c)
        PROVE  \E j \in Items : /\ \A k \in Items \ {j} : events'[k] = events[k]
                                /\ IsStrictPrefix(events[j], events'[j])
    <3>1. head_unchanged(c)
      BY <2>4 DEF _insert_event, refused
    <3>2. /\ calls[c] # Idle
          /\ events[calls[c].item] = calls[c].seen
          /\ events'[calls[c].item] = Append(calls[c].seen, calls[c].event)
          /\ \A j \in Items \ {calls[c].item} : events'[j] = events[j]
      BY <2>4, <3>1, InsertTypes
    <3>3. calls[c].item \in Items /\ calls[c].seen \in Seq(Event) /\ calls[c].event \in Event
      BY <3>2, CallTypes DEF VaultInv
    <3>4. /\ IsPrefix(calls[c].seen, Append(calls[c].seen, calls[c].event))
          /\ Append(calls[c].seen, calls[c].event) # calls[c].seen
      <4>1. Len(Append(calls[c].seen, calls[c].event)) # Len(calls[c].seen)
        BY <3>3
      <4> QED
        BY <3>3, <4>1, PrefixOfAppend
    <3> QED
      BY <3>2, <3>3, <3>4 DEF IsStrictPrefix
  <2>5. ASSUME NEW c \in Callers, append_event(c)
        PROVE  FALSE
    BY <2>5 DEF append_event, refused
  <2>6. ASSUME NEW c \in Callers, NEW i \in Items, NEW now \in Times, Operate(c, i, now)
        PROVE  FALSE
    BY <2>6, OperateLoads DEF load
  <2> QED
    BY <2>2, <2>3, <2>4, <2>5, <2>6 DEF Next
<1> QED
  BY <1>1, <1>2, VaultInvHolds, PTL DEF Spec, CustodyIsAppendOnly, Custody!Spec
=============================================================================
