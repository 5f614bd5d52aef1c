------------------------ MODULE IntakeAndDossierProofs ------------------------
(***************************************************************************)
(* Proofs about AuditDossier for any artifacts, callers, reports, answers  *)
(* and releases, and any number of events and bundles: what breaks a       *)
(* manifest and that it stays broken, what a verified bundle vouches for,  *)
(* and what successive comparisons of reports may hide.  And proofs about  *)
(* FindingIntake for any runs and results, and any limits: what a merged   *)
(* candidate says of its occurrences, and that the counts agree.  Sums are *)
(* recursive functions on the subsets of a finite set, and what they add   *)
(* up follows by taking a smallest set for which it would not hold.        *)
(***************************************************************************)
EXTENDS AuditDossier, FindingIntake, SequenceTheorems, FiniteSetTheorems,
        WellFoundedInduction, TLAPS

CustodyEvent == [evidence_id : ids(EvidenceArtifact), action : CustodyAction,
                 timestamp : Times, artifact_digest : EvidenceArtifact \cup {NONE}]

-----------------------------------------------------------------------------
(* The custody invariant *)

DisposedAreKnown == _disposed \subseteq ids(_artifacts)

IdsAreUnique == \A a, b \in _artifacts : a.evidence_id = b.evidence_id => a = b

EventsAreAboutArtifacts == \A i \in DOMAIN _custody : _custody[i].evidence_id \in ids(_artifacts)

DisposedAreMarked ==
    \A i \in DOMAIN _custody : _custody[i].action = "disposed" => _custody[i].evidence_id \in _disposed

\* After the first event about a piece of evidence no registration follows, and
\* after its disposal nothing.
EventsFollowRegistration ==
    \A i, j \in DOMAIN _custody :
        i < j /\ _custody[i].evidence_id = _custody[j].evidence_id =>
            _custody[j].action # "registered" /\ _custody[i].action # "disposed"

\* An artifact is registered after its collection, under its own identifier.
RegistrationsFit ==
    \A i \in DOMAIN _custody : _custody[i].action = "registered" =>
        /\ _custody[i].artifact_digest \in EvidenceArtifact
        /\ _custody[i].artifact_digest.collected_at <= _custody[i].timestamp

CustodyInv ==
    /\ CustodyTypeOK
    /\ DisposedAreKnown
    /\ IdsAreUnique
    /\ chronological(_custody)
    /\ EventsAreAboutArtifacts
    /\ DisposedAreMarked
    /\ EventsFollowRegistration
    /\ RegistrationsFit

\* The custody chain starts empty.
LEMMA CustodyInitially == CustodyInit => CustodyInv
<1> SUFFICES ASSUME CustodyInit
             PROVE  CustodyInv
  OBVIOUS
<1>1. _custody = <<>> /\ DOMAIN _custody = {} /\ <<>> \in Seq(CustodyEvent)
  BY DEF CustodyInit
<1>2. CustodyTypeOK
  BY <1>1 DEF CustodyInit, CustodyTypeOK, CustodyEvent
<1> QED
  BY <1>1, <1>2 DEF CustodyInit, CustodyInv, DisposedAreKnown, IdsAreUnique, chronological,
     EventsAreAboutArtifacts, DisposedAreMarked, EventsFollowRegistration, RegistrationsFit

\* What is known of the elements of an extended chain.
LEMMA ExtendedChain ==
    ASSUME _custody \in Seq(CustodyEvent), NEW e \in CustodyEvent
    PROVE  /\ Append(_custody, e) \in Seq(CustodyEvent)
           /\ DOMAIN Append(_custody, e) = DOMAIN _custody \cup {Len(_custody) + 1}
           /\ \A i \in DOMAIN _custody : Append(_custody, e)[i] = _custody[i]
           /\ Append(_custody, e)[Len(_custody) + 1] = e
           /\ DOMAIN _custody = 1..Len(_custody) /\ Len(_custody) \in Nat
           /\ \A i \in DOMAIN _custody : _custody[i] \in CustodyEvent
OBVIOUS

\* The chain's own check keeps it chronological.
LEMMA ChronologicalStep ==
    ASSUME CustodyInv, NEW e \in CustodyEvent, NEW actor_id,
           _append_accepts(actor_id, e.timestamp)
    PROVE  chronological(Append(_custody, e))
<1> DEFINE new == Append(_custody, e)
           n == Len(_custody)
<1>1. _custody \in Seq(CustodyEvent)
  BY DEF CustodyInv, CustodyTypeOK, CustodyEvent
<1>2. /\ DOMAIN new = DOMAIN _custody \cup {n + 1} /\ DOMAIN _custody = 1..n /\ n \in Nat
      /\ \A i \in DOMAIN _custody : new[i] = _custody[i] /\ _custody[i] \in CustodyEvent
      /\ new[n + 1] = e
  BY <1>1, ExtendedChain
<1>3. \A i \in DOMAIN _custody : _custody[i].timestamp \in Nat
  BY <1>2, CustodyAssumptions DEF CustodyEvent
<1>4. e.timestamp \in Nat
  BY CustodyAssumptions DEF CustodyEvent
<1>5. \A i, j \in DOMAIN _custody : i < j => _custody[i].timestamp <= _custody[j].timestamp
  BY DEF CustodyInv, chronological
<1>6. \A i \in DOMAIN _custody : _custody[i].timestamp <= e.timestamp
  <2> SUFFICES ASSUME NEW i \in DOMAIN _custody
               PROVE  _custody[i].timestamp <= e.timestamp
    OBVIOUS
  <2>1. n \in DOMAIN _custody /\ i \in 1..n /\ _custody # <<>>
    BY <1>1, <1>2
  <2>2. _custody[n].timestamp <= e.timestamp
    BY <2>1, <1>3, <1>4 DEF _append_accepts
  <2>3. _custody[i].timestamp <= _custody[n].timestamp
    <3>1. CASE i = n
      BY <3>1, <1>3
    <3>2. CASE i < n
      BY <3>2, <2>1, <1>5
    <3> QED
      BY <3>1, <3>2, <2>1, <1>2
  <2> QED
    BY <2>1, <2>2, <2>3, <1>3, <1>4
<1> HIDE DEF new
<1>7. ASSUME NEW i \in DOMAIN new, NEW j \in DOMAIN new, i < j
      PROVE  new[i].timestamp <= new[j].timestamp
  <2>1. i \in DOMAIN _custody
    BY <1>2, <1>7
  <2>2. CASE j = n + 1
    BY <2>1, <2>2, <1>2, <1>6
  <2>3. CASE j \in DOMAIN _custody
    BY <2>1, <2>3, <1>2, <1>5, <1>7
  <2> QED
    BY <2>2, <2>3, <1>2
<1> QED
  BY <1>7 DEF chronological, new

\* An event about evidence that has artifacts, which is a registration only if it is
\* the first one and follows no disposal, keeps the invariant.
LEMMA AppendKeepsCustody ==
    ASSUME CustodyInv, NEW e \in CustodyEvent, NEW actor_id,
           _append_accepts(actor_id, e.timestamp),
           _custody' = Append(_custody, e),
           _artifacts \subseteq _artifacts', _artifacts' \subseteq EvidenceArtifact,
           IdsAreUnique',
           _disposed \subseteq _disposed', _disposed' \subseteq ids(_artifacts'),
           e.evidence_id \in ids(_artifacts'),
           e.action = "disposed" => e.evidence_id \in _disposed',
           e.evidence_id \notin _disposed,
           e.action = "registered" =>
               /\ e.evidence_id \notin ids(_artifacts)
               /\ e.artifact_digest \in EvidenceArtifact
               /\ e.artifact_digest.collected_at <= e.timestamp
    PROVE  CustodyInv'
<1> DEFINE n == Len(_custody)
<1>1. _custody \in Seq(CustodyEvent)
  BY DEF CustodyInv, CustodyTypeOK, CustodyEvent
<1>2. /\ DOMAIN _custody' = DOMAIN _custody \cup {n + 1} /\ DOMAIN _custody = 1..n /\ n \in Nat
      /\ \A i \in DOMAIN _custody : _custody'[i] = _custody[i]
      /\ _custody'[n + 1] = e
      /\ _custody' \in Seq(CustodyEvent)
  BY <1>1, ExtendedChain
<1>3. CustodyTypeOK' /\ DisposedAreKnown'
  BY <1>2 DEF CustodyTypeOK, CustodyEvent, DisposedAreKnown, ids
<1>4. chronological(_custody')
  BY ChronologicalStep
<1>5. EventsAreAboutArtifacts'
  BY <1>2 DEF CustodyInv, EventsAreAboutArtifacts, ids
<1>6. DisposedAreMarked'
  BY <1>2 DEF CustodyInv, DisposedAreMarked
<1>7. EventsFollowRegistration'
  <2> SUFFICES ASSUME NEW i \in DOMAIN _custody', NEW j \in DOMAIN _custody', i < j,
                      _custody'[i].evidence_id = _custody'[j].evidence_id
               PROVE  _custody'[j].action # "registered" /\ _custody'[i].action # "disposed"
    BY DEF EventsFollowRegistration
  <2>1. i \in DOMAIN _custody
    BY <1>2
  <2>2. CASE j \in DOMAIN _custody
    BY <2>1, <2>2, <1>2 DEF CustodyInv, EventsFollowRegistration
  <2>3. CASE j = n + 1
    <3>1. _custody[i].evidence_id = e.evidence_id /\ _custody'[i] = _custody[i] /\ _custody'[j] = e
      BY <2>1, <2>3, <1>2
    <3>2. _custody[i].evidence_id \in ids(_artifacts)
      BY <2>1 DEF CustodyInv, EventsAreAboutArtifacts
    <3>3. _custody[i].action # "disposed"
      BY <2>1, <3>1 DEF CustodyInv, DisposedAreMarked
    <3> QED
      BY <3>1, <3>2, <3>3
  <2> QED
    BY <2>2, <2>3, <1>2
<1>8. RegistrationsFit'
  BY <1>2 DEF CustodyInv, RegistrationsFit
<1> QED
  BY <1>3, <1>4, <1>5, <1>6, <1>7, <1>8 DEF CustodyInv

\* register keeps the invariant, also when the registration event is refused.
LEMMA RegisterKeepsCustody ==
    ASSUME CustodyInv, NEW artifact \in EvidenceArtifact, NEW actor_id, NEW now \in Times,
           register(artifact, actor_id, now)
    PROVE  CustodyInv'
<1> DEFINE e == Event(artifact.evidence_id, "registered", now, artifact)
<1>1. /\ artifact.evidence_id \notin ids(_artifacts)
      /\ now >= artifact.collected_at
      /\ _artifacts' = _artifacts \cup {artifact}
      /\ _disposed' = _disposed
  BY DEF register
<1>2. _artifacts' \subseteq EvidenceArtifact
  BY <1>1 DEF CustodyInv, CustodyTypeOK
<1>3. IdsAreUnique'
  BY <1>1 DEF CustodyInv, IdsAreUnique, ids
<1>4. ids(_artifacts) \subseteq ids(_artifacts') /\ artifact.evidence_id \in ids(_artifacts')
  BY <1>1 DEF ids
<1>9. _disposed' \subseteq ids(_artifacts')
  BY <1>1, <1>4 DEF CustodyInv, DisposedAreKnown
<1>5. CASE _append_accepts(actor_id, now)
  <2>1. _custody' = Append(_custody, e)
    BY <1>5 DEF register
  <2>2. /\ e \in CustodyEvent /\ e.timestamp = now /\ e.action = "registered"
        /\ e.evidence_id = artifact.evidence_id /\ e.artifact_digest = artifact
    BY DEF CustodyEvent, Event, ids, CustodyAction
  <2>3. artifact.evidence_id \notin _disposed
    BY <1>1 DEF CustodyInv, DisposedAreKnown
  <2>4. artifact.collected_at <= now
    BY <1>1, CustodyAssumptions
  <2> HIDE DEF e
  <2> QED
    BY <1>1, <1>2, <1>3, <1>4, <1>5, <1>9, <2>1, <2>2, <2>3, <2>4, AppendKeepsCustody
<1>6. CASE ~ _append_accepts(actor_id, now)
  <2>1. _custody' = _custody
    BY <1>6 DEF register
  <2> QED
    BY <1>1, <1>2, <1>3, <1>4, <1>9, <2>1 DEF CustodyInv, CustodyTypeOK, DisposedAreKnown, chronological,
       EventsAreAboutArtifacts, DisposedAreMarked, EventsFollowRegistration, RegistrationsFit
<1> QED
  BY <1>5, <1>6

\* record keeps the invariant.
LEMMA RecordKeepsCustody ==
    ASSUME CustodyInv, NEW evidence_id \in ids(_artifacts), NEW action \in Recordable,
           NEW actor_id, NEW now \in Times, record(evidence_id, action, actor_id, now)
    PROVE  CustodyInv'
<1> DEFINE e == Event(evidence_id, action, now, NONE)
<1>1. /\ evidence_id \in ids(_artifacts) /\ evidence_id \notin _disposed
      /\ _append_accepts(actor_id, now)
      /\ _custody' = Append(_custody, e)
      /\ _artifacts' = _artifacts
      /\ _disposed' = IF action = "disposed" THEN _disposed \cup {evidence_id} ELSE _disposed
  BY DEF record
<1>2. ids(_artifacts) \subseteq ids(EvidenceArtifact)
  BY DEF CustodyInv, CustodyTypeOK, ids
<1>3. action \in CustodyAction /\ action # "registered"
  BY CustodyAssumptions
<1>4. /\ e \in CustodyEvent /\ e.timestamp = now /\ e.action = action
      /\ e.evidence_id = evidence_id
  BY <1>1, <1>2, <1>3 DEF CustodyEvent, Event
<1>5. _artifacts' \subseteq EvidenceArtifact /\ _disposed' \subseteq ids(_artifacts')
  BY <1>1 DEF CustodyInv, CustodyTypeOK, DisposedAreKnown
<1>6. IdsAreUnique' /\ e.evidence_id \in ids(_artifacts')
  BY <1>1, <1>4 DEF CustodyInv, IdsAreUnique
<1> HIDE DEF e
<1> QED
  BY <1>1, <1>3, <1>4, <1>5, <1>6, AppendKeepsCustody

LEMMA CustodyStep ==
    ASSUME CustodyInv, [CustodyNext]_custodyVars
    PROVE  CustodyInv'
<1>1. CASE CustodyNext
  BY <1>1, RegisterKeepsCustody, RecordKeepsCustody DEF CustodyNext
<1>2. CASE UNCHANGED custodyVars
  BY <1>2 DEF CustodyInv, custodyVars, CustodyTypeOK, DisposedAreKnown, IdsAreUnique, chronological, ids,
     EventsAreAboutArtifacts, DisposedAreMarked, EventsFollowRegistration, RegistrationsFit
<1> QED
  BY <1>1, <1>2

-----------------------------------------------------------------------------
(* Manifests *)

\* What begins with its registration is in order.
LEMMA RegisteredIsOrderly ==
    ASSUME CustodyInv, NEW a \in _artifacts, begins_with_registration(a, _custody)
    PROVE  orderly(a, _custody)
<1>1. PICK r \in about(_custody, a.evidence_id) :
         /\ _custody[r].action = "registered"
         /\ _custody[r].artifact_digest = a
         /\ \A j \in about(_custody, a.evidence_id) : r <= j
  BY DEF begins_with_registration
<1>2. _custody \in Seq(CustodyEvent) /\ a \in EvidenceArtifact
  BY DEF CustodyInv, CustodyTypeOK, CustodyEvent
<1>3. DOMAIN _custody \subseteq Nat /\ \A i \in DOMAIN _custody : _custody[i].timestamp \in Nat
  <2>1. DOMAIN _custody = 1..Len(_custody) /\ Len(_custody) \in Nat
        /\ \A i \in DOMAIN _custody : _custody[i] \in CustodyEvent
    BY <1>2, ElementOfSeq
  <2>2. DOMAIN _custody \subseteq Nat
    BY <2>1
  <2>3. \A e \in CustodyEvent : e.timestamp \in Nat
    BY CustodyAssumptions DEF CustodyEvent
  <2> QED
    BY <2>1, <2>2, <2>3
<1>4. a.collected_at \in Nat /\ a.collected_at <= _custody[r].timestamp
  BY <1>1, <1>2, CustodyAssumptions DEF CustodyInv, RegistrationsFit, about
<1>5. ASSUME NEW i \in about(_custody, a.evidence_id)
      PROVE  _custody[i].timestamp >= a.collected_at
  <2>1. r \in DOMAIN _custody /\ i \in DOMAIN _custody /\ r <= i
    BY <1>1 DEF about
  <2>2. _custody[r].timestamp <= _custody[i].timestamp
    <3>1. CASE r = i
      BY <3>1, <2>1, <1>3
    <3>2. CASE r < i
      BY <3>2, <2>1 DEF CustodyInv, chronological
    <3> QED
      BY <3>1, <3>2, <2>1, <1>3
  <2> QED
    BY <2>1, <2>2, <1>3, <1>4
<1>6. ASSUME NEW i \in about(_custody, a.evidence_id), NEW j \in about(_custody, a.evidence_id),
             i < j
      PROVE  _custody[j].action # "registered" /\ _custody[i].action # "disposed"
  BY <1>6 DEF CustodyInv, EventsFollowRegistration, about
<1> QED
  BY <1>5, <1>6 DEF orderly

LEMMA VerifiesUnless == CustodyInv => OnlyRefusalsBreakCustody
<1> SUFFICES ASSUME CustodyInv
             PROVE  OnlyRefusalsBreakCustody
  OBVIOUS
<1>1. manifest.artifacts = _artifacts /\ manifest.custody_events = _custody
  BY DEF manifest
<1>2. /\ \A a, b \in _artifacts : a.evidence_id = b.evidence_id => a = b
      /\ chronological(_custody)
      /\ \A i \in DOMAIN _custody : _custody[i].evidence_id \in ids(_artifacts)
  BY DEF CustodyInv, IdsAreUnique, EventsAreAboutArtifacts
<1> QED
  BY <1>1, <1>2, RegisteredIsOrderly DEF OnlyRefusalsBreakCustody, verify

\* Nothing takes an artifact back, and what is registered had no artifact before.
LEMMA RegistersNew ==
    ASSUME CustodyInv, CustodyNext
    PROVE  /\ _artifacts \subseteq _artifacts'
           /\ \/ _custody' = _custody
              \/ \E e \in CustodyEvent :
                    /\ _custody' = Append(_custody, e)
                    /\ e.action = "registered" => e.evidence_id \notin ids(_artifacts)
<1>1. ASSUME NEW artifact \in EvidenceArtifact, NEW actor_id, NEW now \in Times,
             register(artifact, actor_id, now)
      PROVE  /\ _artifacts \subseteq _artifacts'
             /\ \/ _custody' = _custody
                \/ \E e \in CustodyEvent :
                      /\ _custody' = Append(_custody, e)
                      /\ e.action = "registered" => e.evidence_id \notin ids(_artifacts)
  <2> DEFINE e == Event(artifact.evidence_id, "registered", now, artifact)
  <2>1. e \in CustodyEvent /\ e.evidence_id = artifact.evidence_id
    BY DEF CustodyEvent, Event, ids, CustodyAction
  <2>2. /\ _artifacts \subseteq _artifacts' /\ artifact.evidence_id \notin ids(_artifacts)
        /\ _custody' = Append(_custody, e) \/ _custody' = _custody
    BY <1>1 DEF register
  <2> HIDE DEF e
  <2> QED
    BY <2>1, <2>2
<1>2. ASSUME NEW evidence_id \in ids(_artifacts), NEW action \in Recordable,
             NEW actor_id, NEW now \in Times, record(evidence_id, action, actor_id, now)
      PROVE  /\ _artifacts \subseteq _artifacts'
             /\ \E e \in CustodyEvent : /\ _custody' = Append(_custody, e)
                                        /\ e.action # "registered"
  <2> DEFINE e == Event(evidence_id, action, now, NONE)
  <2>1. ids(_artifacts) \subseteq ids(EvidenceArtifact)
    BY DEF CustodyInv, CustodyTypeOK, ids
  <2>2. e \in CustodyEvent /\ e.action # "registered"
    BY <2>1, CustodyAssumptions DEF CustodyEvent, Event
  <2>3. _artifacts' = _artifacts /\ _custody' = Append(_custody, e)
    BY <1>2 DEF record
  <2> HIDE DEF e
  <2> QED
    BY <2>2, <2>3
<1> QED
  BY <1>1, <1>2 DEF CustodyNext

LEMMA BrokenStays ==
    ASSUME CustodyInv, CustodyInv', CustodyNext, ~ verify(manifest)
    PROVE  ~ verify(manifest)'
<1>1. OnlyRefusalsBreakCustody
  BY VerifiesUnless
<1>2. OnlyRefusalsBreakCustody'
  BY VerifiesUnless, PTL
<1>3. _artifacts \subseteq _artifacts'
  BY RegistersNew
<1>4. CASE ~ unique_locators(_artifacts)
  <2>1. ~ unique_locators(_artifacts')
    BY <1>3, <1>4 DEF unique_locators
  <2> QED
    BY <1>2, <2>1 DEF OnlyRefusalsBreakCustody
<1>5. ASSUME NEW a \in _artifacts, ~ begins_with_registration(a, _custody)
      PROVE  ~ begins_with_registration(a, _custody')
  <2>1. CASE _custody' = _custody
    BY <1>5, <2>1
  <2>2. CASE _custody' # _custody
    <3>1. PICK e \in CustodyEvent :
             /\ _custody' = Append(_custody, e)
             /\ e.action = "registered" => e.evidence_id \notin ids(_artifacts)
      BY <2>2, RegistersNew
    <3>2. _custody \in Seq(CustodyEvent)
      BY DEF CustodyInv, CustodyTypeOK, CustodyEvent
    <3>3. /\ DOMAIN _custody' = DOMAIN _custody \cup {Len(_custody) + 1}
          /\ \A i \in DOMAIN _custody : _custody'[i] = _custody[i]
          /\ _custody'[Len(_custody) + 1] = e
      BY <3>1, <3>2, ExtendedChain
    <3>4. a.evidence_id \in ids(_artifacts)
      BY DEF ids
    <3>5. ASSUME NEW i \in about(_custody', a.evidence_id),
                 _custody'[i].action = "registered", _custody'[i].artifact_digest = a,
                 \A j \in about(_custody', a.evidence_id) : i <= j
          PROVE  FALSE
      <4>1. i \in DOMAIN _custody
        BY <3>1, <3>3, <3>4, <3>5 DEF about
      <4>2. about(_custody, a.evidence_id) \subseteq about(_custody', a.evidence_id)
        BY <3>3 DEF about
      <4>3. i \in about(_custody, a.evidence_id)
        BY <4>1, <3>3, <3>5 DEF about
      <4> QED
        BY <1>5, <3>3, <3>5, <4>1, <4>2, <4>3 DEF begins_with_registration
    <3> QED
      BY <3>5 DEF begins_with_registration
  <2> QED
    BY <2>1, <2>2
<1>6. CASE \E a \in _artifacts : ~ begins_with_registration(a, _custody)
  <2>1. \E a \in _artifacts' : ~ begins_with_registration(a, _custody')
    BY <1>3, <1>5, <1>6
  <2> QED
    BY <1>2, <2>1 DEF OnlyRefusalsBreakCustody
<1> QED
  BY <1>1, <1>4, <1>6 DEF OnlyRefusalsBreakCustody

-----------------------------------------------------------------------------
(* Bundles *)

\* What build_audit_bundle has checked holds of a bundle and its own release.
BundlesAreChecked ==
    \A b \in bundles :
        /\ verify(b.evidence)
        /\ report_valid(b.report, b.profile)
        /\ delta_matches(b.delta, b.report)
        /\ b.submission_blockers =
              _submission_blockers(b.report, b.applicability, b.evidence, b.profile)
        /\ b.ready_for_submission = (b.submission_blockers = {})
        /\ b.purpose = "regulatory_submission" => b.ready_for_submission

DossierInv ==
    /\ TypeOK
    /\ CustodyInv
    /\ BundlesAreChecked

LEMMA BuildStep ==
    ASSUME DossierInv, Build
    PROVE  DossierInv'
<1>1. PICK report \in Reports, applicability \in Derived \cup EditedApplicability,
           delta \in deltas \cup {NONE}, purpose \in BundlePurpose, overlooked \in Overlooked :
         build_audit_bundle(report, applicability, delta, purpose, overlooked)
  BY DEF Build
<1> DEFINE m == manifest
           blockers == _submission_blockers(report, applicability, m, profile)
           bundle == bundle_of(report, applicability, delta, purpose, overlooked, profile)
<1>2. /\ bundle.report = report /\ bundle.applicability = applicability
      /\ bundle.evidence = m /\ bundle.delta = delta /\ bundle.purpose = purpose
      /\ bundle.profile = profile /\ bundle.submission_blockers = blockers
      /\ bundle.ready_for_submission = (blockers = {})
  <2> HIDE DEF blockers, m
  <2>1. bundle = [report |-> report, applicability |-> applicability, evidence |-> m,
                  delta |-> delta, purpose |-> purpose, profile |-> profile,
                  overlooked |-> overlooked,
                  submission_blockers |-> blockers, ready_for_submission |-> blockers = {}]
    BY DEF bundle_of, blockers, m
  <2> HIDE DEF bundle
  <2> QED
    BY <2>1
<1>3. /\ report_valid(report, profile) /\ delta_matches(delta, report)
      /\ verify(bundle.evidence)
      /\ purpose = "regulatory_submission" => bundle.ready_for_submission
      /\ bundles' = bundles \cup {bundle}
      /\ UNCHANGED <<custodyVars, profile, deltas>>
  BY <1>1 DEF build_audit_bundle
<1> HIDE DEF bundle, blockers
<1>4. BundlesAreChecked'
  <2> SUFFICES ASSUME NEW b \in bundles'
               PROVE  /\ verify(b.evidence)
                      /\ report_valid(b.report, b.profile)
                      /\ delta_matches(b.delta, b.report)
                      /\ b.submission_blockers =
                            _submission_blockers(b.report, b.applicability, b.evidence, b.profile)
                      /\ b.ready_for_submission = (b.submission_blockers = {})
                      /\ b.purpose = "regulatory_submission" => b.ready_for_submission
    BY DEF BundlesAreChecked
  <2>1. CASE b \in bundles
    BY <2>1 DEF DossierInv, BundlesAreChecked
  <2>2. CASE b = bundle
    BY <2>2, <1>2, <1>3 DEF blockers
  <2> QED
    BY <2>1, <2>2, <1>3
<1>5. TypeOK'
  BY <1>1, <1>2, <1>3 DEF DossierInv, TypeOK, CustodyTypeOK, custodyVars
<1>6. CustodyInv'
  BY <1>3, CustodyStep DEF DossierInv
<1> QED
  BY <1>4, <1>5, <1>6 DEF DossierInv

LEMMA CompareStep ==
    ASSUME DossierInv, NEW baseline \in Reports, NEW current \in Reports,
           Compare(baseline, current)
    PROVE  DossierInv'
<1> DEFINE delta == compare_reports(baseline, current)
<1>1. /\ comparable(baseline, current)
      /\ deltas' = deltas \cup {delta}
      /\ UNCHANGED <<custodyVars, profile, bundles>>
  BY DEF Compare
<1>2. delta.baseline = baseline /\ delta.current = current
  BY DEF compare_reports
<1> HIDE DEF delta
<1>3. \A d \in deltas' : /\ {d.baseline, d.current} \subseteq Reports
                         /\ comparable(d.baseline, d.current)
                         /\ d = compare_reports(d.baseline, d.current)
  <2>1. delta = compare_reports(delta.baseline, delta.current)
    BY <1>2 DEF delta
  <2>2. \A d \in deltas : /\ {d.baseline, d.current} \subseteq Reports
                          /\ comparable(d.baseline, d.current)
                          /\ d = compare_reports(d.baseline, d.current)
    BY DEF DossierInv, TypeOK
  <2>3. /\ {delta.baseline, delta.current} \subseteq Reports
        /\ comparable(delta.baseline, delta.current)
    BY <1>1, <1>2
  <2> QED
    BY <1>1, <2>1, <2>2, <2>3
<1>4. CustodyInv'
  BY <1>1, CustodyStep DEF DossierInv
<1>5. TypeOK'
  BY <1>1, <1>3, <1>4 DEF DossierInv, TypeOK, CustodyInv
<1>6. BundlesAreChecked'
  BY <1>1 DEF DossierInv, BundlesAreChecked
<1> QED
  BY <1>4, <1>5, <1>6 DEF DossierInv

LEMMA DossierInvHolds == Spec => []DossierInv
<1>1. Init => DossierInv
  BY CustodyInitially DEF Init, DossierInv, TypeOK, BundlesAreChecked, CustodyInv
<1>2. DossierInv /\ [Next]_vars => DossierInv'
  <2> SUFFICES ASSUME DossierInv, [Next]_vars
               PROVE  DossierInv'
    OBVIOUS
  <2>1. CASE Custody
    <3>1. CustodyNext /\ UNCHANGED <<profile, deltas, bundles>>
      BY <2>1 DEF Custody
    <3>2. CustodyInv'
      BY <3>1, CustodyStep DEF DossierInv
    <3> QED
      BY <3>1, <3>2 DEF DossierInv, TypeOK, BundlesAreChecked, CustodyInv
  <2>2. ASSUME NEW p \in DOMAIN Profiles, Install(p)
        PROVE  DossierInv'
    <3>1. UNCHANGED <<custodyVars, deltas, bundles>> /\ profile' = p
      BY <2>2 DEF Install
    <3>2. CustodyInv'
      BY <3>1, CustodyStep DEF DossierInv
    <3> QED
      BY <3>1, <3>2 DEF DossierInv, TypeOK, BundlesAreChecked, CustodyInv
  <2>3. CASE UNCHANGED vars
    <3>1. UNCHANGED custodyVars /\ UNCHANGED <<profile, deltas, bundles>>
      BY <2>3 DEF vars, custodyVars
    <3>2. CustodyInv'
      BY <3>1, CustodyStep DEF DossierInv
    <3> QED
      BY <3>1, <3>2 DEF DossierInv, TypeOK, BundlesAreChecked, CustodyInv
  <2> QED
    BY <2>1, <2>2, <2>3, BuildStep, CompareStep DEF Next
<1> QED
  BY <1>1, <1>2, PTL DEF Spec

-----------------------------------------------------------------------------
(* What a verified bundle vouches for *)

LEMMA VerifiedIsReconciled ==
    ASSUME DossierInv, NEW b \in bundles, verify_audit_bundle(b), b.ready_for_submission
    PROVE  LET context == b.applicability.context
               decisions == b.applicability.decisions
           IN  /\ b.report.status = "issued" /\ Cardinality(b.report.human_approvals) >= 2
               /\ b.report.organization = context.institution_name
               /\ context.confirmed_by # ""
               /\ \A ref \in b.report.evidence_refs : \E a \in b.evidence.artifacts :
                     /\ a.locator = ref
                     /\ begins_with_registration(a, b.evidence.custody_events)
               /\ \A c \in controls_for(profile, b.report.assessment_type) :
                     /\ c.control_id \in DOMAIN b.report.conclusions
                     /\ LET excluded == b.report.conclusions[c.control_id] = "not_applicable"
                        IN  /\ \E d \in DOMAIN decisions :
                                  /\ d.control_id = c.control_id
                                  /\ decisions[d] = IF excluded THEN "not_applicable"
                                                    ELSE "applicable"
                            /\ b.applicability \in Derived =>
                                  context.in_scope[c.authority] =
                                     IF excluded THEN "out_of_scope" ELSE "in_scope"
<1> DEFINE context == b.applicability.context
           decisions == b.applicability.decisions
<1>1. \A d \in DOMAIN decisions : decisions[d] \in ApplicabilityDecision
  <2>1. CASE b.applicability \in EditedApplicability
    BY <2>1, DossierAssumptions
  <2>2. CASE b.applicability \in Derived
    <3>1. PICK answers \in ApplicabilityContext, p \in DOMAIN Profiles :
             b.applicability = assess_applicability(answers, p)
      BY <2>2 DEF Derived
    <3>2. decisions = [d \in controls_for(p, answers.assessment_type) |->
                          decision(answers.in_scope[d.authority])]
      BY <3>1 DEF assess_applicability
    <3>3. \A d \in controls_for(p, answers.assessment_type) :
             answers.in_scope[d.authority] \in {"unanswered", "in_scope", "out_of_scope"}
      BY DossierAssumptions DEF controls_for
    <3> QED
      BY <3>2, <3>3 DEF decision, ApplicabilityDecision
  <2> QED
    BY <2>1, <2>2 DEF DossierInv, TypeOK
<1>2. _submission_blockers(b.report, b.applicability, b.evidence, profile) = {}
  BY DEF verify_audit_bundle
<1>3. /\ b.report.profile = profile /\ b.applicability.profile = profile
      /\ context.assessment_type = b.report.assessment_type
      /\ context.institution_name = b.report.organization
      /\ ready_for_audit(b.applicability)
      /\ ready_for_issue(b.report, profile) /\ b.report.status = "issued"
      /\ b.report.evidence_refs \subseteq locators(b.evidence)
      /\ control_ids(DOMAIN decisions) =
            control_ids(controls_for(profile, b.report.assessment_type))
      /\ \A d \in DOMAIN decisions :
            ~ unreconciled(decisions[d], b.report.conclusions, d.control_id)
  <2> DEFINE blocked == _submission_blockers(b.report, b.applicability, b.evidence, profile)
  <2>1. /\ "profile" \notin blocked /\ "subject" \notin blocked
        /\ "confirmation" \notin blocked /\ "issue" \notin blocked
        /\ "evidence" \notin blocked /\ "coverage" \notin blocked
        /\ "reconciliation" \notin blocked
    BY <1>2
  <2> QED
    BY <2>1 DEF _submission_blockers
<1>4. /\ verify(b.evidence)
      /\ DOMAIN b.report.conclusions =
            control_ids(controls_for(profile, b.report.assessment_type))
      /\ Cardinality(b.report.human_approvals) >= 2
  BY <1>3 DEF verify_audit_bundle, report_valid, ready_for_issue
<1>5. human_confirmed(context)
  BY <1>3 DEF ready_for_audit
<1>6. ASSUME NEW ref \in b.report.evidence_refs
      PROVE  \E a \in b.evidence.artifacts :
                /\ a.locator = ref
                /\ begins_with_registration(a, b.evidence.custody_events)
  BY <1>3, <1>4 DEF locators, verify
<1>7. ASSUME NEW c \in controls_for(profile, b.report.assessment_type)
      PROVE  c.control_id \in DOMAIN b.report.conclusions
  BY <1>4 DEF control_ids
<1>8. ASSUME NEW d \in DOMAIN decisions, d.control_id \in DOMAIN b.report.conclusions
      PROVE  decisions[d] = IF b.report.conclusions[d.control_id] = "not_applicable"
                            THEN "not_applicable" ELSE "applicable"
  BY <1>1, <1>3, <1>8 DEF unreconciled, ApplicabilityDecision
<1>9. ASSUME NEW c \in controls_for(profile, b.report.assessment_type)
      PROVE  \E d \in DOMAIN decisions :
                /\ d.control_id = c.control_id
                /\ decisions[d] = IF b.report.conclusions[c.control_id] = "not_applicable"
                                  THEN "not_applicable" ELSE "applicable"
  <2>1. PICK d \in DOMAIN decisions : d.control_id = c.control_id
    BY <1>3 DEF control_ids
  <2> QED
    BY <2>1, <1>7, <1>8
<1>10. ASSUME b.applicability \in Derived,
              NEW c \in controls_for(profile, b.report.assessment_type)
       PROVE  context.in_scope[c.authority] =
                 IF b.report.conclusions[c.control_id] = "not_applicable"
                 THEN "out_of_scope" ELSE "in_scope"
  <2>1. PICK answers \in ApplicabilityContext, p \in DOMAIN Profiles :
           b.applicability = assess_applicability(answers, p)
    BY <1>10 DEF Derived
  <2>2. /\ context = answers /\ p = profile
        /\ decisions = [d \in controls_for(p, answers.assessment_type) |->
                           decision(answers.in_scope[d.authority])]
    BY <2>1, <1>3 DEF assess_applicability
  <2>3. c \in Profiles[profile] /\ profile \in DOMAIN Profiles
    BY <2>2 DEF controls_for
  <2>4. /\ c.authority \in DOMAIN context.in_scope
        /\ context.in_scope[c.authority] \in {"unanswered", "in_scope", "out_of_scope"}
    BY <2>2, <2>3, DossierAssumptions
  <2>5. context.in_scope[c.authority] \in {"in_scope", "out_of_scope"}
    BY <2>4, <1>5 DEF human_confirmed
  <2>6. c \in DOMAIN decisions /\ decisions[c] = decision(context.in_scope[c.authority])
    BY <1>3, <2>2
  <2> HIDE DEF context, decisions
  <2>7. decisions[c] = IF b.report.conclusions[c.control_id] = "not_applicable"
                       THEN "not_applicable" ELSE "applicable"
    BY <1>7, <1>8, <2>6
  <2> QED
    BY <2>5, <2>6, <2>7 DEF decision
<1> QED
  BY <1>3, <1>4, <1>5, <1>6, <1>7, <1>9, <1>10 DEF human_confirmed

-----------------------------------------------------------------------------
(* Successive comparisons *)

\* No increase is an increase in two steps.
LEMMA QuietControlsCompose ==
    ASSUME NEW A, NEW B, NEW C,
           \A c \in DOMAIN A : A[c] \in ControlConclusion,
           \A c \in DOMAIN B : B[c] \in ControlConclusion,
           \A c \in DOMAIN C : C[c] \in ControlConclusion,
           control_regressions(A, B) = {}, control_regressions(B, C) = {}
    PROVE  control_regressions(A, C) = {}
<1>1. \A x \in ControlConclusion : /\ _CONTROL_RANK[x] \in 0..3
                                   /\ x \in {"partial", "gap"} <=> _CONTROL_RANK[x] > 1
  BY DEF ControlConclusion, _CONTROL_RANK
<1>2. /\ DOMAIN A \subseteq DOMAIN B
      /\ \A c \in DOMAIN B : IF c \in DOMAIN A
                            THEN ~ (_CONTROL_RANK[B[c]] > _CONTROL_RANK[A[c]])
                            ELSE B[c] \notin {"partial", "gap"}
  BY DEF control_regressions
<1>3. /\ DOMAIN B \subseteq DOMAIN C
      /\ \A c \in DOMAIN C : IF c \in DOMAIN B
                            THEN ~ (_CONTROL_RANK[C[c]] > _CONTROL_RANK[B[c]])
                            ELSE C[c] \notin {"partial", "gap"}
  BY DEF control_regressions
<1>4. ASSUME NEW c \in DOMAIN C
      PROVE  IF c \in DOMAIN A
             THEN ~ (_CONTROL_RANK[C[c]] > _CONTROL_RANK[A[c]])
             ELSE C[c] \notin {"partial", "gap"}
  <2>1. CASE c \in DOMAIN B
    <3>1. ~ (_CONTROL_RANK[C[c]] > _CONTROL_RANK[B[c]])
      BY <1>3, <2>1
    <3>2. /\ _CONTROL_RANK[B[c]] \in 0..3 /\ _CONTROL_RANK[C[c]] \in 0..3
          /\ B[c] \in {"partial", "gap"} <=> _CONTROL_RANK[B[c]] > 1
          /\ C[c] \in {"partial", "gap"} <=> _CONTROL_RANK[C[c]] > 1
      BY <1>1, <2>1
    <3>3. CASE c \in DOMAIN A
      BY <1>1, <1>2, <2>1, <3>1, <3>2, <3>3
    <3>4. CASE c \notin DOMAIN A
      BY <1>2, <2>1, <3>1, <3>2, <3>4
    <3> QED
      BY <3>3, <3>4
  <2>2. CASE c \notin DOMAIN B
    BY <1>2, <1>3, <2>2
  <2> QED
    BY <2>1, <2>2
<1> QED
  BY <1>2, <1>3, <1>4 DEF control_regressions

LEMMA QuietCompose == DossierInv => QuietDeltasCompose
<1> SUFFICES ASSUME DossierInv, NEW d \in deltas, NEW e \in deltas,
                    d.current = e.baseline, quiet(d), quiet(e)
             PROVE  LET whole == compare_reports(d.baseline, e.current)
                    IN  /\ ~ has_regressions([whole EXCEPT !.reopened_findings = {}])
                        /\ \A f \in whole.reopened_findings :
                              d.current.findings[f].status = "risk_accepted"
  BY DEF QuietDeltasCompose
<1> DEFINE first == d.baseline
           middle == d.current
           last == e.current
<1>1. /\ first \in Reports /\ middle \in Reports /\ last \in Reports
      /\ d = compare_reports(first, middle) /\ e = compare_reports(middle, last)
  BY DEF DossierInv, TypeOK
<1> HIDE DEF first, middle, last
<1> DEFINE rank(report, f) == _SEVERITY_RANK[report.findings[f].severity]
<1>2. \A s \in FindingSeverity : _SEVERITY_RANK[s] \in 0..4
  BY DEF FindingSeverity, _SEVERITY_RANK
<1>3. \A report \in Reports :
         /\ \A f \in DOMAIN report.findings :
               rank(report, f) \in 0..4 /\ report.findings[f].status \in FindingStatus
         /\ \A c \in DOMAIN report.conclusions : report.conclusions[c] \in ControlConclusion
  BY <1>2, DossierAssumptions
<1>4. ASSUME NEW b \in Reports, NEW c \in Reports, quiet(compare_reports(b, c))
      PROVE  /\ DOMAIN b.findings = DOMAIN c.findings
             /\ \A f \in DOMAIN b.findings :
                   /\ ~ (rank(c, f) > rank(b, f))
                   /\ ~ (b.findings[f].status \in _CLOSED /\ c.findings[f].status = "open")
             /\ control_regressions(b.conclusions, c.conclusions) = {}
  <2> DEFINE delta == compare_reports(b, c)
  <2>1. /\ delta.new_findings = {} /\ delta.missing_findings = {}
        /\ delta.reopened_findings = {} /\ delta.severity_increases = {}
        /\ delta.control_regressions = {}
    BY <1>4 DEF quiet, has_regressions
  <2>2. /\ DOMAIN c.findings \ DOMAIN b.findings = {}
        /\ DOMAIN b.findings \ DOMAIN c.findings = {}
        /\ control_regressions(b.conclusions, c.conclusions) = {}
    BY <2>1 DEF compare_reports
  <2>3. {f \in DOMAIN b.findings \cap DOMAIN c.findings :
            b.findings[f].status \in _CLOSED /\ c.findings[f].status = "open"} = {}
    BY <2>1 DEF compare_reports, findings_in_both
  <2>4. {f \in DOMAIN b.findings \cap DOMAIN c.findings : rank(c, f) > rank(b, f)} = {}
    BY <2>1 DEF compare_reports, findings_in_both
  <2> QED
    BY <2>2, <2>3, <2>4
<1>5. /\ quiet(compare_reports(first, middle)) /\ quiet(compare_reports(middle, last))
  BY <1>1
<1>6. /\ DOMAIN first.findings = DOMAIN middle.findings
      /\ DOMAIN middle.findings = DOMAIN last.findings
  BY <1>1, <1>4, <1>5
<1> DEFINE whole == compare_reports(first, last)
<1>7. whole.new_findings = {} /\ whole.missing_findings = {}
  BY <1>6 DEF compare_reports
<1>8. whole.severity_increases = {}
  <2>1. ASSUME NEW f \in DOMAIN first.findings
        PROVE  ~ (rank(last, f) > rank(first, f))
    <3>1. ~ (rank(middle, f) > rank(first, f)) /\ ~ (rank(last, f) > rank(middle, f))
      BY <1>1, <1>4, <1>5, <1>6
    <3>2. rank(first, f) \in 0..4 /\ rank(middle, f) \in 0..4 /\ rank(last, f) \in 0..4
      BY <1>1, <1>3, <1>6
    <3> QED
      BY <3>1, <3>2
  <2> QED
    BY <2>1 DEF compare_reports, findings_in_both
<1>9. whole.control_regressions = {}
  <2>1. control_regressions(first.conclusions, last.conclusions) = {}
    BY <1>1, <1>3, <1>4, <1>5, QuietControlsCompose
  <2> QED
    BY <2>1 DEF compare_reports
<1>10. ASSUME NEW f \in whole.reopened_findings
       PROVE  middle.findings[f].status = "risk_accepted"
  <2>1. /\ f \in DOMAIN first.findings /\ f \in DOMAIN last.findings
        /\ first.findings[f].status \in _CLOSED /\ last.findings[f].status = "open"
    BY <1>10 DEF compare_reports, findings_in_both
  <2>2. /\ ~ (first.findings[f].status \in _CLOSED /\ middle.findings[f].status = "open")
        /\ ~ (middle.findings[f].status \in _CLOSED /\ last.findings[f].status = "open")
    BY <2>1, <1>1, <1>4, <1>5, <1>6
  <2>3. middle.findings[f].status \in FindingStatus
    BY <2>1, <1>1, <1>3, <1>6
  <2> QED
    BY <2>1, <2>2, <2>3 DEF FindingStatus, _CLOSED
<1>11. ~ has_regressions([whole EXCEPT !.reopened_findings = {}])
  <2> DEFINE rest == [whole EXCEPT !.reopened_findings = {}]
  <2>1. /\ rest.new_findings = whole.new_findings
        /\ rest.missing_findings = whole.missing_findings
        /\ rest.reopened_findings = {}
        /\ rest.severity_increases = whole.severity_increases
        /\ rest.control_regressions = whole.control_regressions
    BY DEF compare_reports
  <2> QED
    BY <1>7, <1>8, <1>9, <2>1 DEF has_regressions
<1> QED
  BY <1>10, <1>11 DEF first, middle, last

-----------------------------------------------------------------------------
(* Theorems *)

\* Every state is well-typed: comparisons are what the code makes of their reports
\* (CustodyTypeOK with it).
THEOREM TypeCorrect == Spec => []TypeOK
<1>1. DossierInv => TypeOK
  BY DEF DossierInv
<1> QED
  BY <1>1, DossierInvHolds, PTL

\* In every order of registrations, uses and disposals, with callers' clocks as they
\* may be, a manifest fails to verify only for a refused registration or a shared
\* locator (EvidenceRegistry against EvidenceManifest.verify).
THEOREM RegistryVerifies == Spec => []OnlyRefusalsBreakCustody
<1>1. DossierInv => OnlyRefusalsBreakCustody
  BY VerifiesUnless DEF DossierInv
<1> QED
  BY <1>1, DossierInvHolds, PTL

\* A manifest that fails to verify fails for ever: register never comes back to an
\* artifact whose event was refused.
THEOREM BrokenRegistriesStay == Spec => BrokenForGood
<1>1. ASSUME DossierInv, DossierInv', [Next]_vars
      PROVE  [~ verify(manifest) => ~ verify(manifest)']_custodyVars
  <2> SUFFICES ASSUME ~ UNCHANGED custodyVars, ~ verify(manifest)
               PROVE  ~ verify(manifest)'
    OBVIOUS
  <2>1. CustodyNext
    BY <1>1 DEF Next, Custody, Install, Compare, Build, build_audit_bundle, vars, custodyVars
  <2> QED
    BY <1>1, <2>1, BrokenStays DEF DossierInv
<1> QED
  BY <1>1, DossierInvHolds, PTL DEF Spec, BrokenForGood

\* What verifies as ready, under whatever release is installed, is issued, approved by
\* two, under custody for its evidence, and agrees with the decisions about every control
\* of that release, and with confirmed answers where they were derived from them
\* (verify_audit_bundle, _submission_blockers).
THEOREM ReadyIsReconciled == Spec => []ReadyMeansReconciled
<1>1. DossierInv => ReadyMeansReconciled
  BY VerifiedIsReconciled DEF ReadyMeansReconciled
<1> QED
  BY <1>1, DossierInvHolds, PTL

\* A built bundle verifies exactly where its release is installed, unless it is too
\* large or has texts that reading strips (build_audit_bundle against verify_audit_bundle).
THEOREM BundlesVerify == Spec => []BuiltBundlesVerify
<1>1. DossierInv => BuiltBundlesVerify
  BY DEF DossierInv, BundlesAreChecked, BuiltBundlesVerify, verify_audit_bundle
<1> QED
  BY <1>1, DossierInvHolds, PTL

\* Two successive comparisons without regressions hide only the findings that were
\* reopened by way of an accepted risk (compare_reports, ReportDelta.has_regressions).
THEOREM ComparisonsCompose == Spec => []QuietDeltasCompose
BY QuietCompose, DossierInvHolds, PTL

-----------------------------------------------------------------------------
(* Imports: sums *)

\* Among subsets of a finite set there is one that is not met after taking away an
\* element.
LEMMA SmallestSubset ==
    ASSUME NEW S, IsFiniteSet(S), NEW Some, Some \subseteq SUBSET S, Some # {}
    PROVE  \E U \in Some : \A x \in U : U \ {x} \notin Some
<1>1. FiniteSubsetsOf(S) = SUBSET S
  BY FS_FiniteSubsetsOfFinite
<1>2. IsWellFoundedOn(StrictSubsetOrdering(S), SUBSET S)
  BY <1>1, FS_StrictSubsetOrderingWellFounded
<1>3. \E U \in Some : \A V \in Some : <<V, U>> \notin StrictSubsetOrdering(S)
  BY <1>2, WFMin
<1>4. PICK U \in Some : \A V \in Some : <<V, U>> \notin StrictSubsetOrdering(S)
  BY <1>3
<1>5. ASSUME NEW x \in U, U \ {x} \in Some PROVE FALSE
  <2>1. <<U \ {x}, U>> \in StrictSubsetOrdering(S)
    BY <1>5 DEF StrictSubsetOrdering
  <2> QED
    BY <1>4, <1>5, <2>1
<1> QED
  BY <1>4, <1>5

\* Induction for a set: otherwise there would be a smallest number that is not in it.
LEMMA SetInduction ==
    ASSUME NEW S, 0 \in S, \A n \in Nat : n \in S => n + 1 \in S
    PROVE  Nat \subseteq S
<1> DEFINE T == Nat \ S
<1>1. SUFFICES ASSUME T # {} PROVE FALSE
  OBVIOUS
<1>2. \E x \in T : \A y \in T : ~(<<y, x>> \in OpToRel(<, Nat))
  BY <1>1, NatLessThanWellFounded, WFMin
<1>3. PICK x \in T : \A y \in T : ~(y < x)
  BY <1>2 DEF OpToRel
<1>4. x \in Nat /\ x # 0 /\ x - 1 \in Nat /\ x - 1 < x
  BY <1>3
<1>5. x - 1 \in S
  BY <1>3, <1>4
<1>6. (x - 1) + 1 = x
  BY <1>4
<1> QED
  BY <1>3, <1>4, <1>5, <1>6

pick(s) == CHOOSE x \in s : TRUE

\* The function that adds up the occurrences of the candidates v in subsets of S.
SumSteps(v, S, g) ==
    [s \in SUBSET S |->
        IF s = {} THEN 0 ELSE v[pick(s)].occurrence_count + g[s \ {pick(s)}]]

total(v) == MapThenSumSet(LAMBDA f : v[f].occurrence_count, DOMAIN v)

\* There is one, for a finite set.
LEMMA SumExists ==
    ASSUME NEW v, NEW S, IsFiniteSet(S)
    PROVE  \E g : g = SumSteps(v, S, g)
<1> DEFINE step(s, g) ==
             IF s = {} THEN 0 ELSE v[pick(s)].occurrence_count + g[s \ {pick(s)}]
           Sums(n, g) == \A s \in SUBSET S : Cardinality(s) <= n => g[s] = step(s, g)
           Summed == {n \in Nat : \E g : Sums(n, g)}
<1>1. \A s \in SUBSET S : IsFiniteSet(s) /\ Cardinality(s) \in Nat
  BY FS_Subset, FS_CardinalityType
<1>2. \A s \in SUBSET S : s # {} =>
         /\ pick(s) \in s /\ s \ {pick(s)} \in SUBSET S
         /\ Cardinality(s \ {pick(s)}) = Cardinality(s) - 1
  <2>1. \A s : s # {} => pick(s) \in s
    BY DEF pick
  <2> QED
    BY <1>1, <2>1, FS_RemoveElement
<1>3. \A s \in SUBSET S : s = {} <=> Cardinality(s) = 0
  BY <1>1, FS_EmptySet
<1>4. \E g : Sums(0, g)
  <2> DEFINE g == [s \in SUBSET S |-> 0]
  <2>1. \A s \in SUBSET S : Cardinality(s) <= 0 => s = {}
    BY <1>1, <1>3
  <2>2. Sums(0, g)
    BY <2>1
  <2> QED
    BY <2>2
<1>5. ASSUME NEW n \in Nat, NEW g, Sums(n, g) PROVE \E h : Sums(n + 1, h)
  <2> DEFINE h == [s \in SUBSET S |-> IF Cardinality(s) <= n THEN g[s] ELSE step(s, g)]
  <2>1. ASSUME NEW s \in SUBSET S, Cardinality(s) <= n + 1 PROVE h[s] = step(s, h)
    <3>1. h[s] = step(s, g)
      BY <1>5
    <3>2. s # {} => h[s \ {pick(s)}] = g[s \ {pick(s)}]
      <4>1. s # {} => Cardinality(s \ {pick(s)}) <= n /\ s \ {pick(s)} \in SUBSET S
        BY <1>1, <1>2, <2>1
      <4> QED
        BY <4>1
    <3> HIDE DEF h
    <3> QED
      BY <3>1, <3>2
  <2>2. Sums(n + 1, h)
    <3> HIDE DEF h, step
    <3> QED
      BY <2>1
  <2> HIDE DEF h
  <2> QED
    BY <2>2
<1>6. Cardinality(S) \in Summed
  <2> HIDE DEF Sums
  <2>1. 0 \in Summed /\ \A n \in Nat : n \in Summed => n + 1 \in Summed
    BY <1>4, <1>5
  <2> HIDE DEF Summed
  <2> QED
    BY <1>1, <2>1, SetInduction
<1>7. PICK g : Sums(Cardinality(S), g)
  BY <1>6
<1> DEFINE h == [s \in SUBSET S |-> g[s]]
<1>8. \A s \in SUBSET S : h[s] = step(s, h)
  <2>1. \A s \in SUBSET S : Cardinality(s) <= Cardinality(S)
    BY FS_Subset
  <2>2. \A s \in SUBSET S : g[s] = step(s, g)
    BY <1>7, <2>1
  <2>3. \A s \in SUBSET S : s # {} => h[s \ {pick(s)}] = g[s \ {pick(s)}]
    BY <1>2
  <2>4. \A s \in SUBSET S : h[s] = g[s]
    OBVIOUS
  <2> HIDE DEF h
  <2> QED
    BY <2>2, <2>3, <2>4
<1>9. h = SumSteps(v, S, h)
  <2>1. h = [s \in SUBSET S |-> h[s]]
    OBVIOUS
  <2>2. SumSteps(v, S, h) = [s \in SUBSET S |-> step(s, h)]
    BY DEF SumSteps
  <2> HIDE DEF h, step
  <2> QED
    BY <1>8, <2>1, <2>2
<1> QED
  BY <1>9

IsSum(v, S, g) ==
    /\ IsFiniteSet(S)
    /\ g = SumSteps(v, S, g)
    /\ \A x \in S : v[x].occurrence_count \in Nat

\* A sum of naturals is one, and of nothing 0.
LEMMA SumIsNatural ==
    ASSUME NEW v, NEW S, NEW g, IsSum(v, S, g)
    PROVE  \A s \in SUBSET S : g[s] \in Nat /\ (s = {} => g[s] = 0)
<1> DEFINE Strange == {s \in SUBSET S : g[s] \notin Nat}
<1>1. \A s \in SUBSET S :
         g[s] = IF s = {} THEN 0 ELSE v[pick(s)].occurrence_count + g[s \ {pick(s)}]
  BY DEF IsSum, SumSteps
<1>2. SUFFICES ASSUME Strange # {} PROVE FALSE
  BY <1>1
<1>3. PICK s \in Strange : \A x \in s : s \ {x} \notin Strange
  <2>1. Strange \subseteq SUBSET S
    OBVIOUS
  <2> HIDE DEF Strange
  <2> QED
    BY <1>2, <2>1, SmallestSubset DEF IsSum
<1>4. s \in SUBSET S /\ g[s] \notin Nat
  BY <1>3
<1>5. s # {}
  <2>1. s = {} => g[s] = 0
    BY <1>1, <1>4, Zenon
  <2>2. 0 \in Nat
    OBVIOUS
  <2> QED
    BY <1>4, <2>1, <2>2, Zenon
<1>6. pick(s) \in s
  BY <1>5 DEF pick
<1>7. g[s \ {pick(s)}] \in Nat
  BY <1>3, <1>6
<1>8. v[pick(s)].occurrence_count \in Nat
  BY <1>4, <1>6 DEF IsSum
<1>9. g[s] = v[pick(s)].occurrence_count + g[s \ {pick(s)}]
  BY <1>1, <1>4, <1>5, Zenon
<1>10. \A a, b \in Nat : a + b \in Nat
  OBVIOUS
<1> QED
  BY <1>4, <1>7, <1>8, <1>9, <1>10, Zenon

\* In any order: one may as well begin with any element.
LEMMA SumRest ==
    ASSUME NEW v, NEW S, NEW g, IsSum(v, S, g), NEW U \in SUBSET S, NEW z \in U
    PROVE  g[U] = v[z].occurrence_count + g[U \ {z}]
<1> DEFINE Right(s) == \A y \in s : g[s] = v[y].occurrence_count + g[s \ {y}]
           Strange == {s \in SUBSET S : ~Right(s)}
<1>1. \A s \in SUBSET S :
         g[s] = IF s = {} THEN 0 ELSE v[pick(s)].occurrence_count + g[s \ {pick(s)}]
  BY DEF IsSum, SumSteps
<1>2. SUFFICES ASSUME Strange # {} PROVE FALSE
  OBVIOUS
<1>3. PICK s \in Strange : \A x \in s : s \ {x} \notin Strange
  <2>1. Strange \subseteq SUBSET S
    OBVIOUS
  <2> HIDE DEF Strange
  <2> QED
    BY <1>2, <2>1, SmallestSubset DEF IsSum
<1>4. s \in SUBSET S /\ ~Right(s)
  BY <1>3
<1>5. ASSUME NEW x \in s, NEW y \in s, x # y
      PROVE  g[s \ {x}] = v[y].occurrence_count + g[(s \ {x}) \ {y}]
  <2>1. Right(s \ {x})
    BY <1>3, <1>4
  <2> QED
    BY <1>5, <2>1
<1>6. PICK y \in s : g[s] # v[y].occurrence_count + g[s \ {y}]
  BY <1>4
<1> DEFINE p == pick(s)
<1>7. p \in s
  BY <1>6 DEF pick
<1>8. g[s] = v[p].occurrence_count + g[s \ {p}]
  BY <1>1, <1>4, <1>6
<1> HIDE DEF p
<1>9. p # y
  BY <1>6, <1>8
<1>10. /\ g[s \ {p}] = v[y].occurrence_count + g[(s \ {p}) \ {y}]
       /\ g[s \ {y}] = v[p].occurrence_count + g[(s \ {y}) \ {p}]
  BY <1>5, <1>7, <1>9
<1>11. g[(s \ {p}) \ {y}] = g[(s \ {y}) \ {p}]
  <2>1. (s \ {p}) \ {y} = (s \ {y}) \ {p}
    OBVIOUS
  <2> QED
    BY <2>1, Zenon
<1>12. g[(s \ {p}) \ {y}] \in Nat
  <2>1. (s \ {p}) \ {y} \in SUBSET S
    BY <1>4
  <2> QED
    BY <2>1, SumIsNatural, Zenon
<1>13. v[p].occurrence_count \in Nat /\ v[y].occurrence_count \in Nat
  BY <1>4, <1>7 DEF IsSum
<1>14. \A a, b, c \in Nat : a + (b + c) = b + (a + c)
  OBVIOUS
<1>15. g[s] = v[y].occurrence_count + (v[p].occurrence_count + g[(s \ {p}) \ {y}])
  <2>1. g[s] = v[p].occurrence_count + (v[y].occurrence_count + g[(s \ {p}) \ {y}])
    BY <1>8, <1>10, Zenon
  <2> QED
    BY <1>12, <1>13, <1>14, <2>1, Zenon
<1> QED
  BY <1>6, <1>10, <1>11, <1>15, Zenon

\* Sums of the same candidates are the same.
LEMMA SumAgree ==
    ASSUME NEW v, NEW S, NEW g, g = SumSteps(v, S, g),
           NEW w, NEW T, NEW h, h = SumSteps(w, T, h),
           NEW U, IsFiniteSet(U), U \subseteq S, U \subseteq T,
           \A x \in U : v[x].occurrence_count = w[x].occurrence_count
    PROVE  g[U] = h[U]
<1> DEFINE Strange == {s \in SUBSET U : g[s] # h[s]}
<1>1. SUFFICES ASSUME Strange # {} PROVE FALSE
  OBVIOUS
<1>2. PICK s \in Strange : \A x \in s : s \ {x} \notin Strange
  <2>1. Strange \subseteq SUBSET U
    OBVIOUS
  <2> HIDE DEF Strange
  <2> QED
    BY <1>1, <2>1, SmallestSubset
<1>3. /\ g[s] = IF s = {} THEN 0 ELSE v[pick(s)].occurrence_count + g[s \ {pick(s)}]
      /\ h[s] = IF s = {} THEN 0 ELSE w[pick(s)].occurrence_count + h[s \ {pick(s)}]
  BY <1>2 DEF SumSteps
<1>4. s # {}
  BY <1>2, <1>3
<1>5. pick(s) \in s
  BY <1>4 DEF pick
<1>6. g[s \ {pick(s)}] = h[s \ {pick(s)}]
  BY <1>2, <1>5
<1>7. v[pick(s)].occurrence_count = w[pick(s)].occurrence_count
  BY <1>2, <1>5
<1> QED
  BY <1>2, <1>3, <1>4, <1>6, <1>7

\* The total is the sum over all candidates.
LEMMA TotalIsSum ==
    ASSUME NEW v, IsFiniteSet(DOMAIN v)
    PROVE  \E g : g = SumSteps(v, DOMAIN v, g) /\ total(v) = g[DOMAIN v]
<1> DEFINE S == DOMAIN v
           g == CHOOSE g : g = SumSteps(v, S, g)
<1>1. g = SumSteps(v, S, g)
  <2>1. \E h : h = SumSteps(v, S, h)
    BY SumExists
  <2> QED
    BY <2>1, Zenon
<1>2. total(v) = g[S]
  BY Zenon DEF total, MapThenSumSet, MapThenFoldSet, SumSteps, pick
<1> QED
  BY <1>1, <1>2, Zenon

\* One more occurrence of one candidate, that may be new.
LEMMA TotalGrows ==
    ASSUME NEW v, NEW w, NEW x, IsFiniteSet(DOMAIN v),
           \A y \in DOMAIN v : v[y].occurrence_count \in Nat,
           DOMAIN w = DOMAIN v \cup {x},
           \A y \in DOMAIN v \ {x} : w[y] = v[y],
           w[x].occurrence_count = IF x \in DOMAIN v THEN v[x].occurrence_count + 1 ELSE 1
    PROVE  total(w) = total(v) + 1
<1> DEFINE S == DOMAIN v
           T == DOMAIN w
<1>1. IsFiniteSet(T)
  BY FS_AddElement
<1>2. \A y \in T : w[y].occurrence_count \in Nat
  OBVIOUS
<1>3. PICK g : g = SumSteps(v, S, g) /\ total(v) = g[S] /\ IsSum(v, S, g)
  BY TotalIsSum DEF IsSum
<1>4. PICK h : h = SumSteps(w, T, h) /\ total(w) = h[T] /\ IsSum(w, T, h)
  BY <1>1, <1>2, TotalIsSum DEF IsSum
<1>5. h[S \ {x}] = g[S \ {x}]
  <2>1. IsFiniteSet(S \ {x})
    BY FS_RemoveElement
  <2>2. S \ {x} \subseteq S /\ S \ {x} \subseteq T
    OBVIOUS
  <2> QED
    BY <1>3, <1>4, <2>1, <2>2, SumAgree
<1>6. /\ h[T] = w[x].occurrence_count + h[T \ {x}]
      /\ h[T \ {x}] \in Nat
  <2>1. x \in T /\ T \in SUBSET T /\ T \ {x} \in SUBSET T
    OBVIOUS
  <2> HIDE DEF T
  <2> QED
    <3>1. h[T] = w[x].occurrence_count + h[T \ {x}]
      BY <1>4, <2>1, SumRest
    <3>2. \A s \in SUBSET T : h[s] \in Nat
      BY <1>4, SumIsNatural
    <3> QED
      BY <2>1, <3>1, <3>2, Zenon
<1>7. T \ {x} = S \ {x}
  OBVIOUS
<1>8. CASE x \in S
  <2>1. g[S] = v[x].occurrence_count + g[S \ {x}]
    <3>1. S \in SUBSET S
      OBVIOUS
    <3> QED
      BY <1>3, <1>8, <3>1, SumRest
  <2>2. w[x].occurrence_count = v[x].occurrence_count + 1 /\ v[x].occurrence_count \in Nat
    BY <1>8
  <2>3. \A a, b \in Nat : (a + 1) + b = (a + b) + 1
    OBVIOUS
  <2>4. h[T] = (v[x].occurrence_count + h[T \ {x}]) + 1
    BY <1>6, <2>2, <2>3, Zenon
  <2> QED
    BY <1>3, <1>4, <1>5, <1>7, <2>1, <2>4, Zenon
<1>9. CASE x \notin S
  <2>1. S \ {x} = S
    BY <1>9
  <2>2. w[x].occurrence_count = 1
    BY <1>9
  <2>3. \A b \in Nat : 1 + b = b + 1
    OBVIOUS
  <2>4. h[T] = h[T \ {x}] + 1
    BY <1>6, <2>2, <2>3, Zenon
  <2> QED
    BY <1>3, <1>4, <1>5, <1>7, <2>1, <2>4, Zenon
<1> QED
  BY <1>8, <1>9

-----------------------------------------------------------------------------
(* Imports: candidates *)

\* A result that is accepted, with its run.
Reading == {e \in [result : Results, run : Runs] : acceptable(e.result, e.run)}

FingerprintOf(e) == fingerprint_of(e.result, e.run)

CandidateOf(e) == _normalize_result(e.result, e.run)

Fingerprints == {FingerprintOf(e) : e \in Reading}

Candidate ==
    [fingerprint : Fingerprints,
     source_tool : {run.tool_name : run \in Runs},
     source_tool_version : {run.tool_version : run \in Runs},
     title : Nat, message : Nat,
     machine_severity : DOMAIN _SEVERITY_RANK_OF_TOOLS,
     machine_confidence : DOMAIN confidence_rank,
     artifact_ref : Nat, start_line : Nat, start_column : Nat,
     tags : SUBSET UNION {_tags(e.result, e.run) : e \in Reading},
     occurrence_count : Nat,
     redaction_kinds : SUBSET UNION {result.redactions : result \in Results}]

\* A rule that a result means is one of the rules of the run, and there is at most one.
LEMMA OneDescriptor ==
    ASSUME NEW result \in Results, NEW run \in Runs
    PROVE  \A i, j \in indexed(result, run) : i = j /\ i \in DOMAIN run.rules
  BY IntakeAssumptions DEF IntakeAssumptions, indexed

\* What is said is the result's own word, or the rule's, or the default.
LEMMA SaidIsSaid ==
    ASSUME NEW S, NEW own, own \in S \cup {NOTHING}, NEW described,
           described \subseteq S \cup {NOTHING}, NEW default \in S
    PROVE  said(own, described, default) \in S
<1>1. CASE own # NOTHING
  BY <1>1 DEF said
<1>2. CASE own = NOTHING /\ described \ {NOTHING} # {}
  <2>1. PICK d : d = CHOOSE e \in described : e # NOTHING
    OBVIOUS
  <2>2. d \in described /\ d # NOTHING
    BY <1>2, <2>1
  <2>3. said(own, described, default) = d
    BY <1>2, <2>1 DEF said
  <2> QED
    BY <2>2, <2>3
<1>3. CASE own = NOTHING /\ described \ {NOTHING} = {}
  BY <1>3 DEF said
<1> QED
  BY <1>1, <1>2, <1>3

\* An accepted result makes a candidate: every text and rank is one of the type.
LEMMA NormalizedIsCandidate ==
    ASSUME NEW e \in Reading
    PROVE  CandidateOf(e) \in Candidate
<1> DEFINE result == e.result
           run == e.run
<1> result \in Results /\ run \in Runs /\ acceptable(result, run)
  BY DEF Reading
<1> HIDE DEF result, run
<1>1. \A i \in indexed(result, run) :
         /\ i \in DOMAIN run.rules
         /\ run.rules[i].precision \in DOMAIN confidence_rank \cup {NOTHING}
         /\ run.rules[i].title \in Nat \cup {NOTHING}
  BY OneDescriptor, IntakeAssumptions DEF IntakeAssumptions, graded
<1>2. _machine_severity(result, run) \in DOMAIN _SEVERITY_RANK_OF_TOOLS
  <2>1. level_of(result, run) \in DOMAIN severity_of_level
    BY DEF acceptable
  <2>2. \A x \in DOMAIN severity_of_level : severity_of_level[x] \in DOMAIN _SEVERITY_RANK_OF_TOOLS
    BY DEF severity_of_level, _SEVERITY_RANK_OF_TOOLS
  <2> QED
    BY <2>1, <2>2, Zenon DEF _machine_severity
<1>3. _machine_confidence(result, run) \in DOMAIN confidence_rank
  <2>1. "unknown" \in DOMAIN confidence_rank
    BY DEF confidence_rank
  <2>2. {d.precision : d \in descriptors(result, run)} \subseteq
           DOMAIN confidence_rank \cup {NOTHING}
    BY <1>1 DEF descriptors
  <2>3. result.precision \in DOMAIN confidence_rank \cup {NOTHING}
    BY IntakeAssumptions DEF IntakeAssumptions, graded
  <2> QED
    BY <2>1, <2>2, <2>3, SaidIsSaid DEF _machine_confidence
<1>4. resolved_id(result, run) \in Nat
  <2>1. CASE result.rule_id # NOTHING
    BY <2>1, IntakeAssumptions DEF IntakeAssumptions, resolved_id
  <2>2. CASE result.rule_id = NOTHING
    <3>1. PICK i \in indexed(result, run) : TRUE
      BY <2>2 DEF acceptable, _resolve_rule
    <3>2. i \in DOMAIN run.rules /\ i = result.rule_index + 1
      BY <2>2, <3>1 DEF acceptable, _resolve_rule, indexed
    <3>3. run.rules[i].id \in Nat
      BY <3>2, IntakeAssumptions DEF IntakeAssumptions
    <3> QED
      BY <2>2, <3>2, <3>3 DEF resolved_id
  <2> QED
    BY <2>1, <2>2
<1>5. title_of(result, run) \in Nat
  <2>1. {d.title : d \in descriptors(result, run)} \subseteq Nat \cup {NOTHING}
    BY <1>1 DEF descriptors
  <2>2. NOTHING \in Nat \cup {NOTHING}
    OBVIOUS
  <2> QED
    BY <1>4, <2>1, <2>2, SaidIsSaid DEF title_of
<1>6. {result.message, result.artifact_ref, result.start_line, result.start_column} \subseteq Nat
  BY IntakeAssumptions DEF IntakeAssumptions
<1>7. fingerprint_of(result, run) \in Fingerprints
  BY DEF Fingerprints, FingerprintOf, result, run
<1>8. _tags(result, run) \in SUBSET UNION {_tags(x.result, x.run) : x \in Reading}
  BY DEF result, run
<1>9. result.redactions \in SUBSET UNION {r.redactions : r \in Results}
  OBVIOUS
<1>10. /\ run.tool_name \in {n.tool_name : n \in Runs}
       /\ run.tool_version \in {n.tool_version : n \in Runs}
  OBVIOUS
<1> QED
  BY <1>2, <1>3, <1>5, <1>6, <1>7, <1>8, <1>9, <1>10
  DEF CandidateOf, _normalize_result, Candidate, result, run

-----------------------------------------------------------------------------
(* What a candidate says of its occurrences *)

\* MergedAsOne of one candidate, with n occurrences that are in S.
Says(c, S, n) ==
    /\ c.machine_severity \in {o.machine_severity : o \in S}
    /\ \A o \in S : /\ _SEVERITY_RANK_OF_TOOLS[o.machine_severity]
                          <= _SEVERITY_RANK_OF_TOOLS[c.machine_severity]
                    /\ confidence_rank[o.machine_confidence]
                          <= confidence_rank[c.machine_confidence]
    /\ c.machine_confidence \in {o.machine_confidence : o \in S}
    /\ LeastGiven(c.start_line, {o.start_line : o \in S})
    /\ LeastGiven(c.start_column, {o.start_column : o \in S})
    /\ c.message \in {o.message : o \in S}
    /\ c.title \in {o.title : o \in S}
    /\ c.artifact_ref \in {o.artifact_ref : o \in S}
    /\ \A o \in S : /\ c.message <= o.message
                    /\ c.title <= o.title
                    /\ c.artifact_ref <= o.artifact_ref
    /\ c.tags = UNION {o.tags : o \in S}
    /\ c.redaction_kinds = UNION {o.redaction_kinds : o \in S}
    /\ c.occurrence_count = n

\* A candidate of one occurrence says what it says.
LEMMA SaysOne ==
    ASSUME NEW o \in Candidate, o.occurrence_count = 1
    PROVE  Says(o, {o}, 1)
<1>1. /\ {x.start_line : x \in {o}} = {o.start_line}
      /\ {x.start_column : x \in {o}} = {o.start_column}
      /\ {x.tags : x \in {o}} = {o.tags}
      /\ {x.redaction_kinds : x \in {o}} = {o.redaction_kinds}
  OBVIOUS
<1>2. \A v \in Nat : LeastGiven(v, {v})
  BY DEF LeastGiven
<1>3. /\ o.start_line \in Nat /\ o.start_column \in Nat
      /\ o.message \in Nat /\ o.title \in Nat /\ o.artifact_ref \in Nat
  BY DEF Candidate
<1>4. /\ _SEVERITY_RANK_OF_TOOLS[o.machine_severity] \in Nat
      /\ confidence_rank[o.machine_confidence] \in Nat
  BY DEF Candidate, _SEVERITY_RANK_OF_TOOLS, confidence_rank
<1>5. LeastGiven(o.start_line, {x.start_line : x \in {o}})
      /\ LeastGiven(o.start_column, {x.start_column : x \in {o}})
  BY <1>1, <1>2, <1>3, Zenon
<1>6. /\ o.tags = UNION {x.tags : x \in {o}}
      /\ o.redaction_kinds = UNION {x.redaction_kinds : x \in {o}}
  BY <1>1
<1>7. \A x, y \in Nat : x = y => x <= y
  OBVIOUS
<1> QED
  BY <1>3, <1>4, <1>5, <1>6, <1>7 DEF Says

\* The least of given numbers, with one more.
LEMMA EarlierIsLeast ==
    ASSUME NEW S, S \subseteq Nat, NEW v \in Nat, LeastGiven(v, S), NEW w \in Nat
    PROVE  LeastGiven(earlier(v, w), S \cup {w}) /\ earlier(v, w) \in Nat
<1>1. CASE v = 0 /\ w = 0
  <2>1. S \subseteq {0}
    BY <1>1 DEF LeastGiven
  <2>2. earlier(v, w) = 0
    BY <1>1 DEF earlier
  <2> QED
    BY <1>1, <2>1, <2>2 DEF LeastGiven
<1>2. CASE v = 0 /\ w # 0
  <2>1. S \subseteq {0}
    BY <1>2 DEF LeastGiven
  <2>2. earlier(v, w) = w
    BY <1>2 DEF earlier
  <2> QED
    BY <1>2, <2>1, <2>2 DEF LeastGiven
<1>3. CASE v # 0 /\ w = 0
  <2>1. earlier(v, w) = v
    BY <1>3 DEF earlier
  <2> QED
    BY <1>3, <2>1 DEF LeastGiven
<1>4. CASE v # 0 /\ w # 0
  <2>1. earlier(v, w) = IF w < v THEN w ELSE v
    BY <1>4 DEF earlier, lesser
  <2>2. v \in S \ {0} /\ \A x \in S \ {0} : v <= x
    BY <1>4 DEF LeastGiven
  <2>3. \A x \in (S \cup {w}) \ {0} : earlier(v, w) <= x
    BY <1>4, <2>1, <2>2
  <2> QED
    BY <1>4, <2>1, <2>2, <2>3 DEF LeastGiven
<1> QED
  BY <1>1, <1>2, <1>3, <1>4

\* What merging puts into every field.
LEMMA MergeFields ==
    ASSUME NEW c \in Candidate, NEW o \in Candidate
    PROVE  LET m == _merge_occurrences(c, o)
           IN  /\ m.fingerprint = c.fingerprint
               /\ m.source_tool = c.source_tool
               /\ m.source_tool_version = c.source_tool_version
               /\ m.title = lesser(c.title, o.title)
               /\ m.message = lesser(c.message, o.message)
               /\ m.machine_severity =
                     higher(c.machine_severity, o.machine_severity, _SEVERITY_RANK_OF_TOOLS)
               /\ m.machine_confidence =
                     higher(c.machine_confidence, o.machine_confidence, confidence_rank)
               /\ m.artifact_ref = lesser(c.artifact_ref, o.artifact_ref)
               /\ m.start_line = earlier(c.start_line, o.start_line)
               /\ m.start_column = earlier(c.start_column, o.start_column)
               /\ m.tags = c.tags \cup o.tags
               /\ m.occurrence_count = c.occurrence_count + o.occurrence_count
               /\ m.redaction_kinds = c.redaction_kinds \cup o.redaction_kinds
  BY DEF Candidate, _merge_occurrences

\* Merging two candidates makes a candidate.
LEMMA MergedIsCandidate ==
    ASSUME NEW c \in Candidate, NEW o \in Candidate
    PROVE  _merge_occurrences(c, o) \in Candidate
<1>1. /\ lesser(c.title, o.title) \in Nat
      /\ lesser(c.message, o.message) \in Nat
      /\ lesser(c.artifact_ref, o.artifact_ref) \in Nat
      /\ earlier(c.start_line, o.start_line) \in Nat
      /\ earlier(c.start_column, o.start_column) \in Nat
      /\ c.occurrence_count + o.occurrence_count \in Nat
  BY DEF Candidate, lesser, earlier
<1>2. /\ higher(c.machine_severity, o.machine_severity, _SEVERITY_RANK_OF_TOOLS)
            \in DOMAIN _SEVERITY_RANK_OF_TOOLS
      /\ higher(c.machine_confidence, o.machine_confidence, confidence_rank)
            \in DOMAIN confidence_rank
  BY DEF Candidate, higher
<1> HIDE DEF higher
<1>3. /\ c.tags \cup o.tags \in SUBSET UNION {_tags(e.result, e.run) : e \in Reading}
      /\ c.redaction_kinds \cup o.redaction_kinds \in
            SUBSET UNION {result.redactions : result \in Results}
  BY DEF Candidate
<1>4. /\ c.fingerprint \in Fingerprints
      /\ c.source_tool \in {run.tool_name : run \in Runs}
      /\ c.source_tool_version \in {run.tool_version : run \in Runs}
  BY DEF Candidate
<1> DEFINE m == _merge_occurrences(c, o)
           Fields == DOMAIN c
<1>5. m = [k \in Fields |-> m[k]]
  BY DEF _merge_occurrences
<1>6. Fields = {"fingerprint", "source_tool", "source_tool_version", "title", "message",
                "machine_severity", "machine_confidence", "artifact_ref", "start_line",
                "start_column", "tags", "occurrence_count", "redaction_kinds"}
  BY DEF Candidate
<1>7. /\ m.fingerprint = c.fingerprint
      /\ m.source_tool = c.source_tool
      /\ m.source_tool_version = c.source_tool_version
      /\ m.title = lesser(c.title, o.title)
      /\ m.message = lesser(c.message, o.message)
      /\ m.machine_severity =
            higher(c.machine_severity, o.machine_severity, _SEVERITY_RANK_OF_TOOLS)
      /\ m.machine_confidence =
            higher(c.machine_confidence, o.machine_confidence, confidence_rank)
      /\ m.artifact_ref = lesser(c.artifact_ref, o.artifact_ref)
      /\ m.start_line = earlier(c.start_line, o.start_line)
      /\ m.start_column = earlier(c.start_column, o.start_column)
      /\ m.tags = c.tags \cup o.tags
      /\ m.occurrence_count = c.occurrence_count + o.occurrence_count
      /\ m.redaction_kinds = c.redaction_kinds \cup o.redaction_kinds
  BY MergeFields
<1> HIDE DEF m, Fields
<1> QED
  BY <1>1, <1>2, <1>3, <1>4, <1>5, <1>6, <1>7 DEF Candidate, m

\* After one more occurrence a candidate says what all of them say together.
LEMMA SaysMore ==
    ASSUME NEW S, S \subseteq Candidate, NEW c \in Candidate, NEW n \in Nat, Says(c, S, n),
           NEW o \in Candidate, o.occurrence_count = 1
    PROVE  Says(_merge_occurrences(c, o), S \cup {o}, n + 1)
<1> DEFINE m == _merge_occurrences(c, o)
           T == S \cup {o}
<1>1. \A s \in DOMAIN _SEVERITY_RANK_OF_TOOLS : _SEVERITY_RANK_OF_TOOLS[s] \in Nat
  BY DEF _SEVERITY_RANK_OF_TOOLS
<1>2. \A s \in DOMAIN confidence_rank : confidence_rank[s] \in Nat
  BY DEF confidence_rank
<1>3. \A x \in T : /\ x.machine_severity \in DOMAIN _SEVERITY_RANK_OF_TOOLS
                   /\ x.machine_confidence \in DOMAIN confidence_rank
                   /\ x.message \in Nat /\ x.title \in Nat /\ x.artifact_ref \in Nat
                   /\ x.start_line \in Nat /\ x.start_column \in Nat
  BY DEF Candidate
<1>4. /\ c.machine_severity \in DOMAIN _SEVERITY_RANK_OF_TOOLS
      /\ c.machine_confidence \in DOMAIN confidence_rank
      /\ c.message \in Nat /\ c.title \in Nat /\ c.artifact_ref \in Nat
      /\ c.start_line \in Nat /\ c.start_column \in Nat /\ c.occurrence_count \in Nat
  BY DEF Candidate
<1>5. /\ m.title = lesser(c.title, o.title)
      /\ m.message = lesser(c.message, o.message)
      /\ m.machine_severity =
            higher(c.machine_severity, o.machine_severity, _SEVERITY_RANK_OF_TOOLS)
      /\ m.machine_confidence =
            higher(c.machine_confidence, o.machine_confidence, confidence_rank)
      /\ m.artifact_ref = lesser(c.artifact_ref, o.artifact_ref)
      /\ m.start_line = earlier(c.start_line, o.start_line)
      /\ m.start_column = earlier(c.start_column, o.start_column)
      /\ m.tags = c.tags \cup o.tags
      /\ m.occurrence_count = c.occurrence_count + 1
      /\ m.redaction_kinds = c.redaction_kinds \cup o.redaction_kinds
  BY MergeFields
<1> HIDE DEF m
<1>6. /\ m.machine_severity \in {x.machine_severity : x \in T}
      /\ \A x \in T : _SEVERITY_RANK_OF_TOOLS[x.machine_severity]
                         <= _SEVERITY_RANK_OF_TOOLS[m.machine_severity]
  BY <1>1, <1>3, <1>4, <1>5 DEF Says, higher
<1>7. /\ m.machine_confidence \in {x.machine_confidence : x \in T}
      /\ \A x \in T : confidence_rank[x.machine_confidence]
                         <= confidence_rank[m.machine_confidence]
  BY <1>2, <1>3, <1>4, <1>5 DEF Says, higher
<1>8. /\ LeastGiven(m.start_line, {x.start_line : x \in T})
      /\ LeastGiven(m.start_column, {x.start_column : x \in T})
  <2>1. /\ {x.start_line : x \in T} = {x.start_line : x \in S} \cup {o.start_line}
        /\ {x.start_column : x \in T} = {x.start_column : x \in S} \cup {o.start_column}
    OBVIOUS
  <2>2. /\ {x.start_line : x \in S} \subseteq Nat
        /\ {x.start_column : x \in S} \subseteq Nat
        /\ o.start_line \in Nat /\ o.start_column \in Nat
    BY <1>3
  <2>3. /\ LeastGiven(c.start_line, {x.start_line : x \in S})
        /\ LeastGiven(c.start_column, {x.start_column : x \in S})
    BY DEF Says
  <2>4. /\ LeastGiven(earlier(c.start_line, o.start_line),
                      {x.start_line : x \in S} \cup {o.start_line})
        /\ LeastGiven(earlier(c.start_column, o.start_column),
                      {x.start_column : x \in S} \cup {o.start_column})
    BY <1>4, <2>2, <2>3, EarlierIsLeast
  <2> QED
    BY <1>5, <2>1, <2>4, Zenon
<1>9. /\ m.message \in {x.message : x \in T}
      /\ \A x \in T : m.message <= x.message
  BY <1>3, <1>4, <1>5 DEF Says, lesser
<1>10. /\ m.title \in {x.title : x \in T}
       /\ \A x \in T : m.title <= x.title
  BY <1>3, <1>4, <1>5 DEF Says, lesser
<1>11. /\ m.tags = UNION {x.tags : x \in T}
       /\ m.redaction_kinds = UNION {x.redaction_kinds : x \in T}
  <2>1. /\ UNION {x.tags : x \in T} = (UNION {x.tags : x \in S}) \cup o.tags
        /\ UNION {x.redaction_kinds : x \in T} =
                 (UNION {x.redaction_kinds : x \in S}) \cup o.redaction_kinds
    OBVIOUS
  <2> QED
    BY <1>5, <2>1 DEF Says
<1>12. m.occurrence_count = n + 1
  BY <1>5 DEF Says
<1>13. /\ m.artifact_ref \in {x.artifact_ref : x \in T}
       /\ \A x \in T : m.artifact_ref <= x.artifact_ref
  BY <1>3, <1>4, <1>5 DEF Says, lesser
<1> QED
  BY <1>6, <1>7, <1>8, <1>9, <1>10, <1>11, <1>12, <1>13 DEF Says, m

\* The greater of ranks, the lesser of texts and the earlier of positions of three are
\* the same in any order.
LEMMA HigherCommutes ==
    ASSUME NEW rank, \A r \in DOMAIN rank : rank[r] \in Nat,
           \A q, r \in DOMAIN rank : rank[q] = rank[r] => q = r,
           NEW x \in DOMAIN rank, NEW y \in DOMAIN rank, NEW z \in DOMAIN rank
    PROVE  higher(higher(x, y, rank), z, rank) = higher(higher(x, z, rank), y, rank)
  BY DEF higher

LEMMA LesserCommutes ==
    ASSUME NEW x \in Nat, NEW y \in Nat, NEW z \in Nat
    PROVE  /\ lesser(lesser(x, y), z) = lesser(lesser(x, z), y)
           /\ earlier(earlier(x, y), z) = earlier(earlier(x, z), y)
  BY DEF lesser, earlier

\* Two more occurrences of a finding may be merged in either order: the candidate is the
\* same in every field.  The first one keeps how the tool's name is written, and the
\* version, which _merge_occurrences takes from it.
THEOREM OrderIsIrrelevant ==
    ASSUME NEW c \in Candidate, NEW a \in Candidate, NEW b \in Candidate
    PROVE  _merge_occurrences(_merge_occurrences(c, a), b)
              = _merge_occurrences(_merge_occurrences(c, b), a)
<1> DEFINE ca == _merge_occurrences(c, a)
           cb == _merge_occurrences(c, b)
           m == _merge_occurrences(ca, b)
           n == _merge_occurrences(cb, a)
           Fields == {"fingerprint", "source_tool", "source_tool_version", "title", "message",
                      "machine_severity", "machine_confidence", "artifact_ref", "start_line",
                      "start_column", "tags", "occurrence_count", "redaction_kinds"}
<1>1. ca \in Candidate /\ cb \in Candidate
  BY MergedIsCandidate
<1>2. m \in Candidate /\ n \in Candidate
  <2> HIDE DEF ca, cb
  <2> QED
    BY <1>1, MergedIsCandidate
<1>3. \A x \in {a, b, c} :
         /\ x.machine_severity \in DOMAIN _SEVERITY_RANK_OF_TOOLS
         /\ x.machine_confidence \in DOMAIN confidence_rank
         /\ x.message \in Nat /\ x.title \in Nat /\ x.artifact_ref \in Nat
         /\ x.start_line \in Nat /\ x.start_column \in Nat /\ x.occurrence_count \in Nat
  BY DEF Candidate
<1>4. /\ m.fingerprint = n.fingerprint /\ m.source_tool = n.source_tool
      /\ m.source_tool_version = n.source_tool_version
      /\ m.tags = n.tags /\ m.redaction_kinds = n.redaction_kinds
  <2>1. /\ ca.fingerprint = c.fingerprint /\ ca.source_tool = c.source_tool
        /\ ca.source_tool_version = c.source_tool_version
        /\ ca.tags = c.tags \cup a.tags
        /\ ca.redaction_kinds = c.redaction_kinds \cup a.redaction_kinds
    BY MergeFields
  <2>2. /\ cb.fingerprint = c.fingerprint /\ cb.source_tool = c.source_tool
        /\ cb.source_tool_version = c.source_tool_version
        /\ cb.tags = c.tags \cup b.tags
        /\ cb.redaction_kinds = c.redaction_kinds \cup b.redaction_kinds
    BY MergeFields
  <2> HIDE DEF ca, cb
  <2>3. /\ m.fingerprint = ca.fingerprint /\ m.source_tool = ca.source_tool
        /\ m.source_tool_version = ca.source_tool_version
        /\ m.tags = ca.tags \cup b.tags
        /\ m.redaction_kinds = ca.redaction_kinds \cup b.redaction_kinds
    BY <1>1, MergeFields
  <2>4. /\ n.fingerprint = cb.fingerprint /\ n.source_tool = cb.source_tool
        /\ n.source_tool_version = cb.source_tool_version
        /\ n.tags = cb.tags \cup a.tags
        /\ n.redaction_kinds = cb.redaction_kinds \cup a.redaction_kinds
    BY <1>1, MergeFields
  <2> HIDE DEF m, n
  <2> QED
    BY <2>1, <2>2, <2>3, <2>4
<1>5. /\ m.machine_severity = n.machine_severity
      /\ m.machine_confidence = n.machine_confidence
  <2>1. /\ ca.machine_severity =
              higher(c.machine_severity, a.machine_severity, _SEVERITY_RANK_OF_TOOLS)
        /\ ca.machine_confidence =
              higher(c.machine_confidence, a.machine_confidence, confidence_rank)
        /\ cb.machine_severity =
              higher(c.machine_severity, b.machine_severity, _SEVERITY_RANK_OF_TOOLS)
        /\ cb.machine_confidence =
              higher(c.machine_confidence, b.machine_confidence, confidence_rank)
    BY MergeFields
  <2> HIDE DEF ca, cb
  <2>2. /\ m.machine_severity =
              higher(ca.machine_severity, b.machine_severity, _SEVERITY_RANK_OF_TOOLS)
        /\ m.machine_confidence =
              higher(ca.machine_confidence, b.machine_confidence, confidence_rank)
        /\ n.machine_severity =
              higher(cb.machine_severity, a.machine_severity, _SEVERITY_RANK_OF_TOOLS)
        /\ n.machine_confidence =
              higher(cb.machine_confidence, a.machine_confidence, confidence_rank)
    BY <1>1, MergeFields
  <2> HIDE DEF m, n
  <2>3. /\ \A r \in DOMAIN _SEVERITY_RANK_OF_TOOLS : _SEVERITY_RANK_OF_TOOLS[r] \in Nat
        /\ \A q, r \in DOMAIN _SEVERITY_RANK_OF_TOOLS :
              _SEVERITY_RANK_OF_TOOLS[q] = _SEVERITY_RANK_OF_TOOLS[r] => q = r
    BY DEF _SEVERITY_RANK_OF_TOOLS
  <2>4. /\ \A r \in DOMAIN confidence_rank : confidence_rank[r] \in Nat
        /\ \A q, r \in DOMAIN confidence_rank : confidence_rank[q] = confidence_rank[r] => q = r
    BY DEF confidence_rank
  <2>5. higher(higher(c.machine_severity, a.machine_severity, _SEVERITY_RANK_OF_TOOLS),
               b.machine_severity, _SEVERITY_RANK_OF_TOOLS)
           = higher(higher(c.machine_severity, b.machine_severity, _SEVERITY_RANK_OF_TOOLS),
                    a.machine_severity, _SEVERITY_RANK_OF_TOOLS)
    BY <1>3, <2>3, HigherCommutes
  <2>6. higher(higher(c.machine_confidence, a.machine_confidence, confidence_rank),
               b.machine_confidence, confidence_rank)
           = higher(higher(c.machine_confidence, b.machine_confidence, confidence_rank),
                    a.machine_confidence, confidence_rank)
    BY <1>3, <2>4, HigherCommutes
  <2> QED
    BY <2>1, <2>2, <2>5, <2>6, Zenon
<1>6. /\ m.title = n.title /\ m.message = n.message /\ m.artifact_ref = n.artifact_ref
      /\ m.start_line = n.start_line /\ m.start_column = n.start_column
      /\ m.occurrence_count = n.occurrence_count
  <2>1. /\ ca.title = lesser(c.title, a.title) /\ cb.title = lesser(c.title, b.title)
        /\ ca.message = lesser(c.message, a.message) /\ cb.message = lesser(c.message, b.message)
        /\ ca.artifact_ref = lesser(c.artifact_ref, a.artifact_ref)
        /\ cb.artifact_ref = lesser(c.artifact_ref, b.artifact_ref)
        /\ ca.start_line = earlier(c.start_line, a.start_line)
        /\ cb.start_line = earlier(c.start_line, b.start_line)
        /\ ca.start_column = earlier(c.start_column, a.start_column)
        /\ cb.start_column = earlier(c.start_column, b.start_column)
        /\ ca.occurrence_count = c.occurrence_count + a.occurrence_count
        /\ cb.occurrence_count = c.occurrence_count + b.occurrence_count
    BY MergeFields
  <2> HIDE DEF ca, cb
  <2>2. /\ m.title = lesser(ca.title, b.title) /\ n.title = lesser(cb.title, a.title)
        /\ m.message = lesser(ca.message, b.message) /\ n.message = lesser(cb.message, a.message)
        /\ m.artifact_ref = lesser(ca.artifact_ref, b.artifact_ref)
        /\ n.artifact_ref = lesser(cb.artifact_ref, a.artifact_ref)
        /\ m.start_line = earlier(ca.start_line, b.start_line)
        /\ n.start_line = earlier(cb.start_line, a.start_line)
        /\ m.start_column = earlier(ca.start_column, b.start_column)
        /\ n.start_column = earlier(cb.start_column, a.start_column)
        /\ m.occurrence_count = ca.occurrence_count + b.occurrence_count
        /\ n.occurrence_count = cb.occurrence_count + a.occurrence_count
    BY <1>1, MergeFields
  <2> HIDE DEF m, n
  <2>3. (c.occurrence_count + a.occurrence_count) + b.occurrence_count
           = (c.occurrence_count + b.occurrence_count) + a.occurrence_count
    BY <1>3
  <2> QED
    BY <1>3, <2>1, <2>2, <2>3, LesserCommutes
<1>7. m = [k \in Fields |-> m[k]] /\ n = [k \in Fields |-> n[k]]
  <2> HIDE DEF m, n
  <2> QED
    BY <1>2 DEF Candidate
<1>8. \A k \in Fields : m[k] = n[k]
  <2> HIDE DEF m, n
  <2> QED
    BY <1>4, <1>5, <1>6
<1> HIDE DEF m, n, Fields
<1>9. m = n
  BY <1>7, <1>8
<1> QED
  BY <1>9 DEF m, n

\* Which of two occurrences of a finding comes first makes no difference to what
\* _merge_occurrences makes of them, but for the tool's name and version.
THEOREM FirstIsIrrelevant ==
    ASSUME NEW a \in Candidate, NEW b \in Candidate, a.fingerprint = b.fingerprint
    PROVE  \A k \in DOMAIN a \ {"source_tool", "source_tool_version"} :
              _merge_occurrences(a, b)[k] = _merge_occurrences(b, a)[k]
<1> DEFINE m == _merge_occurrences(a, b)
           n == _merge_occurrences(b, a)
<1>1. \A x \in {a, b} :
         /\ x.machine_severity \in DOMAIN _SEVERITY_RANK_OF_TOOLS
         /\ x.machine_confidence \in DOMAIN confidence_rank
         /\ x.message \in Nat /\ x.title \in Nat /\ x.artifact_ref \in Nat
         /\ x.start_line \in Nat /\ x.start_column \in Nat /\ x.occurrence_count \in Nat
  BY DEF Candidate
<1>2. /\ m.fingerprint = n.fingerprint
      /\ m.tags = n.tags /\ m.redaction_kinds = n.redaction_kinds
      /\ m.occurrence_count = n.occurrence_count
  <2>1. a.occurrence_count + b.occurrence_count = b.occurrence_count + a.occurrence_count
    BY <1>1
  <2>2. a.tags \cup b.tags = b.tags \cup a.tags
        /\ a.redaction_kinds \cup b.redaction_kinds = b.redaction_kinds \cup a.redaction_kinds
    OBVIOUS
  <2>3. /\ m.fingerprint = a.fingerprint /\ m.tags = a.tags \cup b.tags
        /\ m.redaction_kinds = a.redaction_kinds \cup b.redaction_kinds
        /\ m.occurrence_count = a.occurrence_count + b.occurrence_count
    BY MergeFields
  <2>4. /\ n.fingerprint = b.fingerprint /\ n.tags = b.tags \cup a.tags
        /\ n.redaction_kinds = b.redaction_kinds \cup a.redaction_kinds
        /\ n.occurrence_count = b.occurrence_count + a.occurrence_count
    BY MergeFields
  <2> HIDE DEF m, n
  <2> QED
    BY <2>1, <2>2, <2>3, <2>4, Zenon
<1>3. /\ \A x, y \in Nat : lesser(x, y) = lesser(y, x) /\ earlier(x, y) = earlier(y, x)
      /\ \A x, y \in DOMAIN _SEVERITY_RANK_OF_TOOLS :
            higher(x, y, _SEVERITY_RANK_OF_TOOLS) = higher(y, x, _SEVERITY_RANK_OF_TOOLS)
      /\ \A x, y \in DOMAIN confidence_rank :
            higher(x, y, confidence_rank) = higher(y, x, confidence_rank)
  BY DEF lesser, earlier, higher, _SEVERITY_RANK_OF_TOOLS, confidence_rank
<1>4. /\ m.title = n.title /\ m.message = n.message /\ m.artifact_ref = n.artifact_ref
      /\ m.start_line = n.start_line /\ m.start_column = n.start_column
      /\ m.machine_severity = n.machine_severity
      /\ m.machine_confidence = n.machine_confidence
  <2> HIDE DEF lesser, earlier, higher
  <2> QED
    BY <1>1, <1>3, MergeFields
<1>5. DOMAIN a = {"fingerprint", "source_tool", "source_tool_version", "title", "message",
                  "machine_severity", "machine_confidence", "artifact_ref", "start_line",
                  "start_column", "tags", "occurrence_count", "redaction_kinds"}
  BY DEF Candidate
<1> HIDE DEF m, n
<1>6. \A k \in DOMAIN a \ {"source_tool", "source_tool_version"} : m[k] = n[k]
  BY <1>2, <1>4, <1>5
<1> QED
  BY <1>6 DEF m, n

-----------------------------------------------------------------------------
(* The invariant of the import *)

OccurrencesIn(s, f) == {i \in DOMAIN s : FingerprintOf(s[i]) = f}

CandidatesIn(s, f) == {CandidateOf(s[i]) : i \in OccurrencesIn(s, f)}

ImportIsTyped ==
    /\ read \in Seq(Reading)
    /\ runs \in Seq(Runs)
    /\ tools = {runs[i].tool_name : i \in DOMAIN runs}
    /\ IsFiniteSet(DOMAIN findings)
    /\ \A f \in DOMAIN findings : findings[f] \in Candidate

CountsAreKept ==
    /\ result_count \in 0..MAXIMUM_RESULTS
    /\ {unsafe_location_count, redacted_result_count} \subseteq 0..result_count
    /\ Cardinality(DOMAIN findings) <= result_count
    /\ total(findings) = result_count
    /\ \A f \in DOMAIN findings : findings[f].source_tool \in tools

CandidatesSayAll ==
    /\ DOMAIN findings = {FingerprintOf(read[i]) : i \in DOMAIN read}
    /\ \A f \in DOMAIN findings :
          Says(findings[f], CandidatesIn(read, f), Cardinality(OccurrencesIn(read, f)))

IntakeInv == ImportIsTyped /\ CountsAreKept /\ CandidatesSayAll

\* The import starts with nothing read.
LEMMA IntakeInitially == IntakeInit => IntakeInv
<1> SUFFICES ASSUME IntakeInit PROVE IntakeInv
  OBVIOUS
<1> USE DEF IntakeInit
<1>1. DOMAIN read = {} /\ DOMAIN runs = {} /\ DOMAIN findings = {}
  OBVIOUS
<1>2. IsFiniteSet({}) /\ Cardinality({}) = 0
  BY FS_EmptySet
<1>3. total(findings) = 0
  <2>1. PICK g : g = SumSteps(findings, DOMAIN findings, g) /\ total(findings) = g[DOMAIN findings]
    BY <1>1, <1>2, TotalIsSum
  <2>2. IsSum(findings, DOMAIN findings, g)
    BY <1>1, <1>2, <2>1 DEF IsSum
  <2>3. DOMAIN findings \in SUBSET DOMAIN findings
    OBVIOUS
  <2> QED
    BY <1>1, <2>1, <2>2, <2>3, SumIsNatural
<1>4. ImportIsTyped
  BY <1>1, <1>2 DEF ImportIsTyped
<1>5. CountsAreKept
  BY <1>1, <1>2, <1>3, IntakeAssumptions DEF CountsAreKept, IntakeAssumptions
<1>6. CandidatesSayAll
  BY <1>1 DEF CandidatesSayAll
<1> QED
  BY <1>4, <1>5, <1>6 DEF IntakeInv

\* What is read is remembered at the end of what was read.
LEMMA OneMoreOccurrence ==
    ASSUME NEW s \in Seq(Reading), NEW e \in Reading, NEW f
    PROVE  LET t == Append(s, e)
           IN  /\ DOMAIN t = DOMAIN s \cup {Len(s) + 1}
               /\ \A i \in DOMAIN s : t[i] = s[i]
               /\ t[Len(s) + 1] = e
               /\ IsFiniteSet(OccurrencesIn(s, f))
               /\ FingerprintOf(e) # f =>
                     /\ OccurrencesIn(t, f) = OccurrencesIn(s, f)
                     /\ CandidatesIn(t, f) = CandidatesIn(s, f)
               /\ FingerprintOf(e) = f =>
                     /\ Cardinality(OccurrencesIn(t, f)) = Cardinality(OccurrencesIn(s, f)) + 1
                     /\ CandidatesIn(t, f) = CandidatesIn(s, f) \cup {CandidateOf(e)}
<1> DEFINE t == Append(s, e)
           n == Len(s) + 1
<1>1. /\ DOMAIN t = DOMAIN s \cup {n}
      /\ \A i \in DOMAIN s : t[i] = s[i]
      /\ t[n] = e
      /\ n \notin DOMAIN s
      /\ DOMAIN s = 1..Len(s) /\ Len(s) \in Nat
  OBVIOUS
<1> HIDE DEF t, n
<1>2. IsFiniteSet(OccurrencesIn(s, f))
  <2>1. IsFiniteSet(DOMAIN s)
    BY <1>1, FS_Interval
  <2>2. OccurrencesIn(s, f) \subseteq DOMAIN s
    BY DEF OccurrencesIn
  <2> QED
    BY <2>1, <2>2, FS_Subset
<1>3. FingerprintOf(e) # f => OccurrencesIn(t, f) = OccurrencesIn(s, f)
  <2> HIDE DEF FingerprintOf
  <2> QED
    BY <1>1 DEF OccurrencesIn
<1>4. FingerprintOf(e) = f => OccurrencesIn(t, f) = OccurrencesIn(s, f) \cup {n}
  BY <1>1 DEF OccurrencesIn
<1>5. n \notin OccurrencesIn(s, f)
  BY <1>1 DEF OccurrencesIn
<1>6. \A i \in OccurrencesIn(s, f) : CandidateOf(t[i]) = CandidateOf(s[i])
  BY <1>1 DEF OccurrencesIn
<1>7. FingerprintOf(e) # f => CandidatesIn(t, f) = CandidatesIn(s, f)
  BY <1>3, <1>6 DEF CandidatesIn
<1>8. FingerprintOf(e) = f => CandidatesIn(t, f) = CandidatesIn(s, f) \cup {CandidateOf(e)}
  BY <1>1, <1>4, <1>6 DEF CandidatesIn
<1>9. FingerprintOf(e) = f =>
         Cardinality(OccurrencesIn(t, f)) = Cardinality(OccurrencesIn(s, f)) + 1
  BY <1>2, <1>4, <1>5, FS_AddElement
<1> QED
  BY <1>1, <1>2, <1>3, <1>7, <1>8, <1>9 DEF t, n

\* The candidates of the occurrences are candidates of one occurrence each.
LEMMA OccurrencesAreCandidates ==
    ASSUME IntakeInv, NEW f
    PROVE  CandidatesIn(read, f) \subseteq Candidate
<1>1. SUFFICES ASSUME NEW i \in DOMAIN read PROVE CandidateOf(read[i]) \in Candidate
  BY DEF CandidatesIn, OccurrencesIn
<1>2. read[i] \in Reading
  BY DEF IntakeInv, ImportIsTyped
<1> QED
  BY <1>2, NormalizedIsCandidate

\* Beginning a run keeps the invariant.
LEMMA BeginRunKeeps ==
    ASSUME IntakeInv, NEW run \in Runs, begin_run(run)
    PROVE  IntakeInv'
<1> USE DEF begin_run
<1>1. runs' \in Seq(Runs) /\ DOMAIN runs' = DOMAIN runs \cup {Len(runs) + 1}
      /\ \A i \in DOMAIN runs : runs'[i] = runs[i]
      /\ runs'[Len(runs) + 1] = run
  BY DEF IntakeInv, ImportIsTyped
<1>2. tools' = {runs'[i].tool_name : i \in DOMAIN runs'}
  <2>1. {runs'[i].tool_name : i \in DOMAIN runs'} =
           {runs[i].tool_name : i \in DOMAIN runs} \cup {run.tool_name}
    BY <1>1
  <2> QED
    BY <2>1 DEF IntakeInv, ImportIsTyped
<1>3. ImportIsTyped'
  BY <1>1, <1>2 DEF IntakeInv, ImportIsTyped
<1>4. CountsAreKept'
  BY DEF IntakeInv, CountsAreKept
<1>5. CandidatesSayAll'
  BY DEF IntakeInv, CandidatesSayAll
<1> QED
  BY <1>3, <1>4, <1>5 DEF IntakeInv

\* The step of a result that is counted: what accumulate does when it does not refuse.
Counted(e) ==
    /\ findings' = merged(CandidateOf(e))
    /\ read' = Append(read, e)
    /\ result_count' = result_count + 1
    /\ unsafe_location_count' = unsafe_location_count + (IF e.result.unsafe THEN 1 ELSE 0)
    /\ redacted_result_count' =
          redacted_result_count + (IF e.result.redactions # {} THEN 1 ELSE 0)
    /\ UNCHANGED <<runs, tools, outcome>>

\* A result is counted under the current run, or the import is refused.
LEMMA ReadResultSteps ==
    ASSUME IntakeInv, NEW result \in Results, read_result(result)
    PROVE  \/ Refuse
           \/ \E e \in Reading : /\ Counted(e)
                                 /\ e.run.tool_name \in tools
                                 /\ result_count < MAXIMUM_RESULTS
<1>1. CASE Refuse
  BY <1>1
<1>2. CASE ~Refuse
  <2>1. /\ runs # <<>> /\ result_count < MAXIMUM_RESULTS
        /\ acceptable(result, current_run) /\ accumulate(result)
    BY <1>2 DEF read_result
  <2>2. current_run \in Runs /\ current_run.tool_name \in tools
    BY <2>1 DEF current_run, IntakeInv, ImportIsTyped
  <2> DEFINE e == [result |-> result, run |-> current_run]
  <2>3. e \in Reading /\ e.result = result /\ e.run = current_run
    BY <2>1, <2>2 DEF Reading
  <2>4. Counted(e)
    BY <1>2, <2>1, <2>3, Zenon DEF accumulate, Counted, CandidateOf
  <2> QED
    BY <2>1, <2>2, <2>3, <2>4
<1> QED
  BY <1>1, <1>2

\* What merging leaves: a candidate of the fingerprint, and the others as they were.
LEMMA MergedFindings ==
    ASSUME IntakeInv, NEW e \in Reading, Counted(e)
    PROVE  LET x == FingerprintOf(e)
           IN  /\ DOMAIN findings' = DOMAIN findings \cup {x}
               /\ \A f \in DOMAIN findings \ {x} : findings'[f] = findings[f]
               /\ x \notin DOMAIN findings => findings'[x] = CandidateOf(e)
               /\ x \in DOMAIN findings =>
                     findings'[x] = _merge_occurrences(findings[x], CandidateOf(e))
<1>1. CandidateOf(e).fingerprint = FingerprintOf(e)
  BY DEF CandidateOf, FingerprintOf, _normalize_result
<1> DEFINE c == CandidateOf(e)
           x == FingerprintOf(e)
<1>2. findings' = [f \in DOMAIN findings \cup {x} |->
                      IF f # x THEN findings[f]
                      ELSE IF f \in DOMAIN findings THEN _merge_occurrences(findings[f], c)
                      ELSE c]
  BY <1>1, Zenon DEF Counted, merged
<1> HIDE DEF c, x
<1>3. /\ DOMAIN findings' = DOMAIN findings \cup {x}
      /\ \A f \in DOMAIN findings \ {x} : findings'[f] = findings[f]
      /\ x \notin DOMAIN findings => findings'[x] = c
      /\ x \in DOMAIN findings => findings'[x] = _merge_occurrences(findings[x], c)
  BY <1>2
<1> QED
  BY <1>3 DEF c, x

\* Counting a result keeps the invariant.
LEMMA CountedKeeps ==
    ASSUME IntakeInv, NEW e \in Reading, Counted(e), e.run.tool_name \in tools,
           result_count < MAXIMUM_RESULTS
    PROVE  IntakeInv'
<1> DEFINE x == FingerprintOf(e)
           c == CandidateOf(e)
<1>1. c \in Candidate /\ c.occurrence_count = 1 /\ c.source_tool = e.run.tool_name
  BY NormalizedIsCandidate DEF CandidateOf, _normalize_result
<1>2. /\ DOMAIN findings' = DOMAIN findings \cup {x}
      /\ \A f \in DOMAIN findings \ {x} : findings'[f] = findings[f]
      /\ x \notin DOMAIN findings => findings'[x] = c
      /\ x \in DOMAIN findings => findings'[x] = _merge_occurrences(findings[x], c)
  BY MergedFindings
<1>3. IsFiniteSet(DOMAIN findings) /\ \A f \in DOMAIN findings : findings[f] \in Candidate
  BY DEF IntakeInv, ImportIsTyped
<1>4. read \in Seq(Reading) /\ read' = Append(read, e)
  BY DEF IntakeInv, ImportIsTyped, Counted
<1> HIDE DEF x, c
<1>5. ImportIsTyped'
  <2>1. read' \in Seq(Reading)
    BY <1>4
  <2>2. runs' \in Seq(Runs) /\ tools' = {runs'[i].tool_name : i \in DOMAIN runs'}
    BY DEF IntakeInv, ImportIsTyped, Counted
  <2>3. IsFiniteSet(DOMAIN findings')
    BY <1>2, <1>3, FS_AddElement
  <2>4. \A f \in DOMAIN findings' : findings'[f] \in Candidate
    BY <1>1, <1>2, <1>3, MergedIsCandidate
  <2> QED
    BY <2>1, <2>2, <2>3, <2>4 DEF ImportIsTyped
<1>6. CountsAreKept'
  <2>1. /\ result_count \in Nat /\ result_count + 1 \in 0..MAXIMUM_RESULTS
        /\ unsafe_location_count \in 0..result_count
        /\ redacted_result_count \in 0..result_count
        /\ result_count' = result_count + 1
    BY IntakeAssumptions DEF IntakeInv, CountsAreKept, Counted, IntakeAssumptions
  <2>2. /\ unsafe_location_count' \in 0..result_count'
        /\ redacted_result_count' \in 0..result_count'
    BY <2>1 DEF Counted
  <2>3. Cardinality(DOMAIN findings') <= result_count'
    <3>1. Cardinality(DOMAIN findings') <= Cardinality(DOMAIN findings) + 1
          /\ Cardinality(DOMAIN findings) \in Nat /\ Cardinality(DOMAIN findings') \in Nat
      <4> DEFINE S == DOMAIN findings
      <4>1. S \cup {x} = DOMAIN findings' /\ IsFiniteSet(S)
        BY <1>2, <1>3
      <4> HIDE DEF S
      <4>2. /\ IsFiniteSet(S \cup {x})
            /\ Cardinality(S \cup {x}) =
                  IF x \in S THEN Cardinality(S) ELSE Cardinality(S) + 1
        BY <4>1, FS_AddElement
      <4>3. Cardinality(S) \in Nat
        BY <4>1, FS_CardinalityType
      <4>4. Cardinality(S \cup {x}) <= Cardinality(S) + 1 /\ Cardinality(S \cup {x}) \in Nat
        BY <4>2, <4>3
      <4> QED
        BY <4>1, <4>3, <4>4, Zenon DEF S
    <3>2. Cardinality(DOMAIN findings) <= result_count
      BY DEF IntakeInv, CountsAreKept
    <3> QED
      BY <2>1, <3>1, <3>2
  <2>4. total(findings') = result_count'
    <3>1. findings'[x].occurrence_count =
             IF x \in DOMAIN findings THEN findings[x].occurrence_count + 1 ELSE 1
      <4>1. CASE x \in DOMAIN findings
        BY <1>1, <1>2, <1>3, <4>1, MergeFields
      <4>2. CASE x \notin DOMAIN findings
        BY <1>1, <1>2, <4>2
      <4> QED
        BY <4>1, <4>2
    <3>2. \A f \in DOMAIN findings : findings[f].occurrence_count \in Nat
      BY <1>3 DEF Candidate
    <3>3. total(findings') = total(findings) + 1
      BY <1>2, <1>3, <3>1, <3>2, TotalGrows
    <3> QED
      BY <2>1, <3>3 DEF IntakeInv, CountsAreKept
  <2>5. \A f \in DOMAIN findings' : findings'[f].source_tool \in tools'
    <3>1. tools' = tools /\ \A f \in DOMAIN findings : findings[f].source_tool \in tools
      BY DEF IntakeInv, CountsAreKept, Counted
    <3>2. \A f \in DOMAIN findings :
             _merge_occurrences(findings[f], c).source_tool = findings[f].source_tool
      BY <1>1, <1>3, MergeFields
    <3> QED
      BY <1>1, <1>2, <3>1, <3>2
  <2> QED
    BY <2>1, <2>2, <2>3, <2>4, <2>5 DEF CountsAreKept
<1>7. CandidatesSayAll'
  <2>1. DOMAIN findings = {FingerprintOf(read[i]) : i \in DOMAIN read}
        /\ \A f \in DOMAIN findings :
              Says(findings[f], CandidatesIn(read, f), Cardinality(OccurrencesIn(read, f)))
    BY DEF IntakeInv, CandidatesSayAll
  <2>2. /\ DOMAIN read' = DOMAIN read \cup {Len(read) + 1}
        /\ \A i \in DOMAIN read : read'[i] = read[i]
        /\ read'[Len(read) + 1] = e
    BY <1>4, OneMoreOccurrence
  <2>3. DOMAIN findings' = {FingerprintOf(read'[i]) : i \in DOMAIN read'}
    <3>1. {FingerprintOf(read'[i]) : i \in DOMAIN read'} =
             {FingerprintOf(read[i]) : i \in DOMAIN read} \cup {x}
      BY <2>2 DEF x
    <3> QED
      BY <1>2, <2>1, <3>1
  <2>4. ASSUME NEW f \in DOMAIN findings'
        PROVE  Says(findings'[f], CandidatesIn(read', f), Cardinality(OccurrencesIn(read', f)))
    <3>1. CASE f # x
      <4>1. /\ OccurrencesIn(read', f) = OccurrencesIn(read, f)
            /\ CandidatesIn(read', f) = CandidatesIn(read, f)
        BY <1>4, <3>1, OneMoreOccurrence DEF x
      <4>2. f \in DOMAIN findings /\ findings'[f] = findings[f]
        BY <1>2, <2>4, <3>1
      <4> QED
        BY <2>1, <4>1, <4>2
    <3>2. CASE f = x
      <4>1. /\ IsFiniteSet(OccurrencesIn(read, x))
            /\ Cardinality(OccurrencesIn(read', x)) = Cardinality(OccurrencesIn(read, x)) + 1
            /\ CandidatesIn(read', x) = CandidatesIn(read, x) \cup {c}
        BY <1>4, OneMoreOccurrence DEF x, c
      <4>2. CASE x \in DOMAIN findings
        <5>1. Says(findings[x], CandidatesIn(read, x), Cardinality(OccurrencesIn(read, x)))
          BY <2>1, <4>2
        <5>2. CandidatesIn(read, x) \subseteq Candidate
          BY OccurrencesAreCandidates
        <5>3. Cardinality(OccurrencesIn(read, x)) \in Nat
          BY <4>1, FS_CardinalityType
        <5>4. Says(_merge_occurrences(findings[x], c), CandidatesIn(read, x) \cup {c},
                   Cardinality(OccurrencesIn(read, x)) + 1)
          BY <1>1, <1>3, <4>2, <5>1, <5>2, <5>3, SaysMore
        <5> QED
          BY <1>2, <3>2, <4>1, <4>2, <5>4, Zenon
      <4>3. CASE x \notin DOMAIN findings
        <5>1. OccurrencesIn(read, x) = {}
          BY <2>1, <4>3 DEF OccurrencesIn
        <5>2. CandidatesIn(read, x) = {} /\ Cardinality(OccurrencesIn(read, x)) = 0
          BY <5>1, FS_EmptySet DEF CandidatesIn
        <5>3. CandidatesIn(read', x) = {c} /\ Cardinality(OccurrencesIn(read', x)) = 1
          BY <4>1, <5>2
        <5>4. Says(c, {c}, 1)
          BY <1>1, SaysOne
        <5> QED
          BY <1>2, <3>2, <4>3, <5>3, <5>4, Zenon
      <4> QED
        BY <4>2, <4>3
    <3> QED
      BY <3>1, <3>2
  <2> QED
    BY <2>3, <2>4 DEF CandidatesSayAll
<1> QED
  BY <1>5, <1>6, <1>7 DEF IntakeInv

\* A step that leaves what was read and counted alone keeps the invariant.
LEMMA UnchangedKeeps ==
    ASSUME IntakeInv,
           UNCHANGED <<read, runs, findings, tools, result_count, unsafe_location_count,
                       redacted_result_count>>
    PROVE  IntakeInv'
  BY DEF IntakeInv, ImportIsTyped, CountsAreKept, CandidatesSayAll

\* Every step of the import keeps the invariant.
LEMMA IntakeInductive == IntakeInv /\ [IntakeNext]_intakeVars => IntakeInv'
<1> SUFFICES ASSUME IntakeInv, [IntakeNext]_intakeVars PROVE IntakeInv'
  OBVIOUS
<1>1. ASSUME NEW run \in Runs, begin_run(run) PROVE IntakeInv'
  BY <1>1, BeginRunKeeps
<1>2. ASSUME NEW result \in Results, read_result(result) PROVE IntakeInv'
  <2>1. CASE Refuse
    BY <2>1, UnchangedKeeps DEF Refuse
  <2>2. ASSUME NEW e \in Reading, Counted(e), e.run.tool_name \in tools,
               result_count < MAXIMUM_RESULTS
        PROVE  IntakeInv'
    BY <2>2, CountedKeeps
  <2> QED
    BY <1>2, <2>1, <2>2, ReadResultSteps
<1>3. CASE finish
  BY <1>3, UnchangedKeeps DEF finish
<1>4. CASE UNCHANGED intakeVars
  BY <1>4, UnchangedKeeps DEF intakeVars
<1> QED
  BY <1>1, <1>2, <1>3, <1>4 DEF IntakeNext

\* Nothing is read before a run begins, and from the first run on the batch that is made
\* of the counts passes its own checks.
THEOREM ImportsCountRight == IntakeSpec => []CountsAgree
<1>1. IntakeInv => CountsAgree
  <2> SUFFICES ASSUME IntakeInv, runs # <<>> PROVE EvidenceIntakeBatch
    BY DEF CountsAgree
  <2>1. tools # {}
    <3>1. runs \in Seq(Runs) /\ tools = {runs[i].tool_name : i \in DOMAIN runs}
      BY DEF IntakeInv, ImportIsTyped
    <3>2. 1 \in DOMAIN runs
      BY <3>1
    <3> QED
      BY <3>1, <3>2
  <2>2. MapThenSumSet(LAMBDA f : findings[f].occurrence_count, DOMAIN findings) = result_count
    BY Zenon DEF IntakeInv, CountsAreKept, total
  <2>3. /\ result_count <= MAXIMUM_RESULTS
        /\ Cardinality(DOMAIN findings) <= result_count
        /\ {unsafe_location_count, redacted_result_count} \subseteq 0..result_count
        /\ \A f \in DOMAIN findings : findings[f].source_tool \in tools
    BY IntakeAssumptions DEF IntakeInv, CountsAreKept, IntakeAssumptions
  <2> QED
    BY <2>1, <2>2, <2>3, Zenon DEF EvidenceIntakeBatch
<1> QED
  BY IntakeInitially, IntakeInductive, <1>1, PTL DEF IntakeSpec

\* Merging pair by pair, in the order of the document, says of every finding what someone
\* would say who saw all its occurrences at once.
THEOREM ImportsMergeAsOne == IntakeSpec => []MergedAsOne
<1>1. IntakeInv => MergedAsOne
  <2> SUFFICES ASSUME IntakeInv PROVE MergedAsOne
    OBVIOUS
  <2>1. DOMAIN findings = {fingerprint_of(read[i].result, read[i].run) : i \in DOMAIN read}
    BY DEF IntakeInv, CandidatesSayAll, FingerprintOf
  <2>2. ASSUME NEW f PROVE /\ OccurrencesIn(read, f) = Occurrences(f)
                           /\ CandidatesIn(read, f) = {Occurrence(i) : i \in Occurrences(f)}
    BY DEF OccurrencesIn, CandidatesIn, Occurrences, Occurrence, FingerprintOf, CandidateOf
  <2>3. ASSUME NEW f \in DOMAIN findings
        PROVE  Says(findings[f], {Occurrence(i) : i \in Occurrences(f)},
                    Cardinality(Occurrences(f)))
    BY <2>2 DEF IntakeInv, CandidatesSayAll
  <2> QED
    BY <2>1, <2>3, Zenon DEF MergedAsOne, Says
<1> QED
  BY IntakeInitially, IntakeInductive, <1>1, PTL DEF IntakeSpec
=============================================================================
