------------------------------ MODULE ReviewTrust ------------------------------
(***************************************************************************)
(* The history of qualified reviews of one intake batch in one engagement, *)
(* and its resolution: which review of each finding is authoritative.      *)
(*                                                                         *)
(* Reviews and lifecycle events are immutable documents whose identifiers  *)
(* and digests are derived from their content, so a reference to one is    *)
(* the document itself.  They only ever accumulate.  Every time in this    *)
(* workflow is written in a document or given by the caller; none is read  *)
(* from a clock.                                                           *)
(*                                                                         *)
(* The identity authority is external and signs any document, for the      *)
(* person it names, with any of its keys and at any time: the assertions   *)
(* of a resolution are inputs.                                             *)
(***************************************************************************)
EXTENDS Naturals, FiniteSets, Sequences, SequencesExt

CONSTANTS
    Findings,    \* candidates of intake batches
    People,
    Drafts,      \* the reviews that somebody drafts
    Times,       \* days
    VALIDITY,    \* how long a signature is valid at most
    CLOCK_SKEW,
    ReviewerBundle, \* the roles each reviewer key is trusted for
    KEY_WINDOW,  \* the times at which the keys are trusted
    NONE,
    Bounds       \* for TLC: how many documents of each kind there are for a batch

Dispositions == {"confirmed", "false_positive", "duplicate", "not_applicable"}

Review == [finding_id: Findings, disposition: Dispositions,
           duplicate_of: Findings \cup {NONE}, reviewer_id: People, reviewed_at: Times]

Event == [action: {"supersede", "revoke"}, prior: Review,
          replacement: Review \cup {NONE}, event_at: Times]

ASSUME ReviewAssumptions ==
    /\ Times \subseteq Nat
    /\ {VALIDITY, CLOCK_SKEW} \subseteq Nat
    /\ DOMAIN Bounds \subseteq SUBSET Findings
    /\ \A b \in DOMAIN Bounds :
          {Bounds[b].reviews, Bounds[b].events, Bounds[b].acceptances, Bounds[b].manifests,
           Bounds[b].approved} \subseteq Nat
    /\ Drafts \subseteq Review
    /\ KEY_WINDOW \subseteq Nat
    /\ NONE \notin Findings \cup Review
    /\ \A key \in DOMAIN ReviewerBundle :
          ReviewerBundle[key] \subseteq {"qualified_tester", "review_governor"}

VARIABLES
    batch,    \* the candidates of the intake batch that is reviewed
    reviews,  \* the finalized reviews
    events    \* the finalized lifecycle events

-----------------------------------------------------------------------------
(* Documents *)

\* Only a duplicate names another finding, and never its own.
valid_review(review) ==
    /\ (review.disposition = "duplicate") = (review.duplicate_of # NONE)
    /\ review.duplicate_of # review.finding_id

\* A draft is about a candidate of the batch, and so is what it calls the original.
review_from_draft(review) ==
    /\ Cardinality(reviews) < Bounds[batch].reviews
    /\ {review.finding_id, review.duplicate_of} \subseteq batch \cup {NONE}
    /\ valid_review(review)
    /\ reviews' = reviews \cup {review}
    /\ UNCHANGED events

\* A template is filled from finalized reviews of the same finding.
lifecycle_event_from_draft(event) ==
    /\ Cardinality(events) < Bounds[batch].events
    /\ event.prior \in reviews
    /\ event.action = "supersede" =>
          /\ event.replacement \in reviews
          /\ event.replacement.finding_id = event.prior.finding_id
          /\ event.replacement # event.prior
    /\ event.action = "revoke" => event.replacement = NONE
    /\ events' = events \cup {event}
    /\ UNCHANGED reviews

-----------------------------------------------------------------------------
(* Signatures *)

\* Mutant: the expiry is not looked at.
in_force_once_issued(signature, as_of) ==
    /\ as_of \in KEY_WINDOW
    /\ as_of + CLOCK_SKEW >= signature.issued_at

\* When a signature is accepted.
in_force(signature, as_of) ==
    /\ as_of \in KEY_WINDOW
    /\ as_of + CLOCK_SKEW >= signature.issued_at
    /\ as_of <= signature.expires_at + CLOCK_SKEW

Assertion == [object: Review \cup Event, key_id: DOMAIN ReviewerBundle,
              issued_at: Times, expires_at: Nat]

\* What the authority may have signed of some documents.
AssertionsOf(documents) ==
    {[object |-> d, key_id |-> key, issued_at |-> t, expires_at |-> t + VALIDITY] :
        d \in documents, key \in DOMAIN ReviewerBundle, t \in Times}

role_of(object, R) == IF object \in R THEN "qualified_tester" ELSE "review_governor"

verify_assertion(assertion, role, as_of) ==
    /\ role \in ReviewerBundle[assertion.key_id]
    /\ in_force(assertion, as_of)

\* Each document has one assertion, and there are no others.
assertions_cover(R, E, A) ==
    /\ {a.object : a \in A} = R \cup E
    /\ \A a, b \in A : a.object = b.object => a = b

-----------------------------------------------------------------------------
(* Resolution *)

\* Each transition leaves a review of the history, in time, and no other does.
transitions_valid(history, E) ==
    /\ \A e \in E :
          /\ e.prior \in history
          /\ e.event_at >= e.prior.reviewed_at
    /\ \A e, d \in E : e.prior = d.prior => e = d
    /\ \A e \in E : e.action = "supersede" =>
          /\ e.replacement \in history
          /\ e.replacement.reviewed_at >= e.prior.reviewed_at
          /\ e.event_at >= e.replacement.reviewed_at
    /\ \A e, d \in E :
          e.action = "supersede" /\ e.replacement = d.replacement => e = d

roots(history, E) == history \ {e.replacement : e \in E}

\* Where a review's transition leads: to itself when it has none.
successor(review, E) ==
    IF \E e \in E : e.prior = review
    THEN (CHOOSE e \in E : e.prior = review).replacement
    ELSE review

\* The walk from a root, by steps.  It stays where there is no transition, and
\* at NONE after a revocation.
walk(root, history, E) ==
    LET at[n \in 0..Cardinality(history)] ==
          IF n = 0 THEN root ELSE successor(at[n - 1], E)
    IN  at

\* Mutant: what the walk does not reach is not looked for.
linear_from_root(history, E) ==
    /\ transitions_valid(history, E)
    /\ Cardinality(roots(history, E)) = 1

\* The history is one chain of supersessions.
linear(history, E) ==
    /\ transitions_valid(history, E)
    /\ \E root \in roots(history, E) :
          /\ roots(history, E) = {root}
          /\ LET at == walk(root, history, E)
             IN  {at[n] : n \in 0..Cardinality(history)} \ {NONE} = history

head(history, E) ==
    walk(CHOOSE r \in roots(history, E) : TRUE, history, E)[Cardinality(history)]

of_finding(R, finding) == {r \in R : r.finding_id = finding}

events_of(E, finding) == {e \in E : e.prior.finding_id = finding}

reviewed(R) == {r.finding_id : r \in R}

heads(R, E) == {head(of_finding(R, f), events_of(E, f)) : f \in reviewed(R)}

\* The findings without history must have no events.
lifecycles_linear(R, E) ==
    /\ {e.prior.finding_id : e \in E} \subseteq reviewed(R)
    /\ \A f \in reviewed(R) : linear(of_finding(R, f), events_of(E, f))

\* TrustedReviewResolution.
Resolution == [reviews: SUBSET Review, revoked: SUBSET Findings,
               assertions: SUBSET Assertion, events: SUBSET Event]

resolution_of(R, E, A) ==
    LET authoritative == heads(R, E) \ {NONE}
    IN  [reviews    |-> authoritative,
         revoked    |-> reviewed(R) \ reviewed(authoritative),
         assertions |-> A,
         events     |-> E]

verified(R, E, as_of) ==
    {a \in AssertionsOf(R \cup E) : verify_assertion(a, role_of(a.object, R), as_of)}

\* What can come of resolving these documents, with the assertions there may be.
resolve_trusted_reviews(R, E, as_of) ==
    IF lifecycles_linear(R, E)
    THEN {resolution_of(R, E, A) :
             A \in {A \in SUBSET verified(R, E, as_of) : assertions_cover(R, E, A)}}
    ELSE {}

-----------------------------------------------------------------------------
(* Properties *)

\* What a history should be, in so many words: reviews in the order of their
\* times, each superseded by the next one in a single event that is not earlier
\* than it, and at most one revocation, of the last.
is_chain(chain, E) ==
    LET superseding == {e \in E : e.action = "supersede"}
        revoking == {e \in E : e.action = "revoke"}
    IN  /\ {<<e.prior, e.replacement>> : e \in superseding}
             = {<<chain[i], chain[i + 1]>> : i \in 1..(Len(chain) - 1)}
        /\ Cardinality(superseding) = Len(chain) - 1
        /\ \A i \in 1..(Len(chain) - 1) : chain[i].reviewed_at <= chain[i + 1].reviewed_at
        /\ \A e \in superseding : e.event_at >= e.replacement.reviewed_at
        /\ \A e \in revoking : e.prior = Last(chain) /\ e.event_at >= e.prior.reviewed_at
        /\ Cardinality(revoking) <= 1

\* Whichever reviews and events of a finding are supplied, the resolver accepts
\* exactly those that are such a chain, and takes its end for the authoritative
\* review, or none when it is revoked: for the graph checks of
\* resolve_trusted_reviews, which reject branches, cycles, orphans and parallel heads.
ResolvesExactlyChains ==
    \A R \in SUBSET reviews, E \in SUBSET events : \A f \in reviewed(R) :
       LET history == of_finding(R, f)
           lifecycle == events_of(E, f)
           chains == {chain \in SetToSeqs(history) : is_chain(chain, lifecycle)}
       IN  /\ linear(history, lifecycle) <=> chains # {}
           /\ \A chain \in chains :
                 head(history, lifecycle) =
                    IF \E e \in lifecycle : e.action = "revoke" THEN NONE ELSE Last(chain)
=============================================================================
