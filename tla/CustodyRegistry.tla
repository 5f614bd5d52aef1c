--------------------------- MODULE CustodyRegistry ---------------------------
(***************************************************************************)
(* The registry of evidence metadata of one engagement (custody.py): its   *)
(* artifacts, and the custody events about them on one audit chain.  A     *)
(* manifest is both, as they are at the moment; verify is what everybody   *)
(* who receives a manifest does with it.                                   *)
(*                                                                         *)
(* The digest of an artifact stands for the artifact.  Callers give the    *)
(* time of an event, and their clocks differ.  Purposes and recipients are *)
(* always there.                                                           *)
(***************************************************************************)
EXTENDS Naturals, Sequences, FiniteSets

CONSTANTS
    EvidenceArtifact, \* metadata: [evidence_id, locator, collected_at]
    Recordable,       \* the actions other than registration that callers record
    Times,
    NONE,             \* the digest in other events
    MaxEvents         \* a bound for TLC on the custody chain

CustodyAction == {"registered", "verified", "accessed", "transferred", "superseded",
                  "legal_hold_applied", "legal_hold_released", "disposed"}

ASSUME CustodyAssumptions ==
    /\ Times \subseteq Nat
    /\ \A a \in EvidenceArtifact : a.collected_at \in Nat
    /\ Recordable \subseteq CustodyAction \ {"registered"}
    /\ NONE \notin EvidenceArtifact
    /\ MaxEvents \in Nat

VARIABLES
    _artifacts, \* the stored metadata
    _custody,   \* the chain of custody events
    _disposed   \* identifiers of disposed evidence

custodyVars == <<_artifacts, _custody, _disposed>>

ids(artifacts) == {a.evidence_id : a \in artifacts}

Event(evidence_id, action, now, artifact_digest) ==
    [evidence_id |-> evidence_id, action |-> action, timestamp |-> now,
     artifact_digest |-> artifact_digest]

CustodyInit ==
    /\ _artifacts = {}
    /\ _custody = <<>>
    /\ _disposed = {}

-----------------------------------------------------------------------------
(* Operations *)

\* An event needs an actor, and the chain refuses to go back in time.
_append_accepts(actor_id, now) ==
    /\ actor_id # ""
    /\ _custody # <<>> => now >= _custody[Len(_custody)].timestamp

\* Mutant: an identifier that is stored but has no event may be registered again.
register_until_it_has_events(artifact, actor_id, now) ==
    /\ Len(_custody) < MaxEvents
    /\ \A i \in DOMAIN _custody : _custody[i].evidence_id # artifact.evidence_id
    /\ now >= artifact.collected_at
    /\ _artifacts' = {a \in _artifacts : a.evidence_id # artifact.evidence_id} \cup {artifact}
    /\ _custody' = IF _append_accepts(actor_id, now)
                   THEN Append(_custody, Event(artifact.evidence_id, "registered", now, artifact))
                   ELSE _custody
    /\ UNCHANGED _disposed

\* The artifact is stored first, and stays when its event is refused.
register(artifact, actor_id, now) ==
    /\ Len(_custody) < MaxEvents
    /\ artifact.evidence_id \notin ids(_artifacts)
    /\ now >= artifact.collected_at
    /\ _artifacts' = _artifacts \cup {artifact}
    /\ _custody' = IF _append_accepts(actor_id, now)
                   THEN Append(_custody, Event(artifact.evidence_id, "registered", now, artifact))
                   ELSE _custody
    /\ UNCHANGED _disposed

\* Mutant: disposed evidence receives further events.
record_after_disposal(evidence_id, action, actor_id, now) ==
    /\ Len(_custody) < MaxEvents
    /\ evidence_id \in ids(_artifacts)
    /\ _append_accepts(actor_id, now)
    /\ _custody' = Append(_custody, Event(evidence_id, action, now, NONE))
    /\ _disposed' = IF action = "disposed" THEN _disposed \cup {evidence_id} ELSE _disposed
    /\ UNCHANGED _artifacts

\* A refused event changes nothing here.
record(evidence_id, action, actor_id, now) ==
    /\ Len(_custody) < MaxEvents
    /\ evidence_id \in ids(_artifacts) \ _disposed
    /\ _append_accepts(actor_id, now)
    /\ _custody' = Append(_custody, Event(evidence_id, action, now, NONE))
    /\ _disposed' = IF action = "disposed" THEN _disposed \cup {evidence_id} ELSE _disposed
    /\ UNCHANGED _artifacts

CustodyNext ==
    \E now \in Times, actor_id \in {"", "custodian"} :
       \/ \E artifact \in EvidenceArtifact : register(artifact, actor_id, now)
       \/ \E evidence_id \in ids(_artifacts), action \in Recordable :
             record(evidence_id, action, actor_id, now)

-----------------------------------------------------------------------------
(* Manifests *)

manifest == [artifacts |-> _artifacts, custody_events |-> _custody]

\* The positions of the events about one piece of evidence.
about(events, evidence_id) == {i \in DOMAIN events : events[i].evidence_id = evidence_id}

chronological(events) ==
    \A i, j \in DOMAIN events : i < j => events[i].timestamp <= events[j].timestamp

unique_locators(artifacts) ==
    \A a, b \in artifacts : a.locator = b.locator => a = b

\* The first event about it is its registration, with the right digest.
begins_with_registration(a, events) ==
    \E i \in about(events, a.evidence_id) :
       /\ events[i].action = "registered"
       /\ events[i].artifact_digest = a
       /\ \A j \in about(events, a.evidence_id) : i <= j

\* Registered once, nothing but disposal after disposal, nothing before collection.
orderly(a, events) ==
    \A i, j \in about(events, a.evidence_id) :
       /\ events[i].timestamp >= a.collected_at
       /\ i < j => /\ events[j].action # "registered"
                   /\ events[i].action = "disposed" => events[j].action = "disposed"

verify(m) ==
    /\ \A a, b \in m.artifacts : a.evidence_id = b.evidence_id => a = b
    /\ unique_locators(m.artifacts)
    /\ chronological(m.custody_events)
    /\ \A i \in DOMAIN m.custody_events :
          m.custody_events[i].evidence_id \in ids(m.artifacts)
    /\ \A a \in m.artifacts :
          /\ begins_with_registration(a, m.custody_events)
          /\ orderly(a, m.custody_events)

-----------------------------------------------------------------------------
(* Properties *)

CustodyTypeOK ==
    /\ _artifacts \subseteq EvidenceArtifact
    /\ _custody \in Seq([evidence_id : ids(EvidenceArtifact), action : CustodyAction,
                         timestamp : Times,
                         artifact_digest : EvidenceArtifact \cup {NONE}])
    /\ _disposed \subseteq ids(EvidenceArtifact)

\* Whatever callers do in whatever order, a manifest of the registry fails to verify
\* for two reasons only: a registration whose event was refused, and two artifacts
\* with one locator.  For the guards of register and record against the checks of
\* verify.
OnlyRefusalsBreakCustody ==
    verify(manifest) <=> /\ unique_locators(_artifacts)
                         /\ \A a \in _artifacts : begins_with_registration(a, _custody)

\* And then it never verifies again: nothing takes an artifact back or registers it
\* later.  For register, which stores before it appends.
BrokenForGood == [][~ verify(manifest) => ~ verify(manifest)']_custodyVars
=============================================================================
