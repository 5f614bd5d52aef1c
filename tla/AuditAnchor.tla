------------------------------ MODULE AuditAnchor ------------------------------
(***************************************************************************)
(* Anchoring the audit chain of an engagement with an authority outside    *)
(* the institution: the institution signs its chain and makes commitments  *)
(* of it, authority processes append a signed, linked receipt for each     *)
(* commitment to one ledger, and a monitor follows the receipts.           *)
(*                                                                         *)
(* A request may be delivered late, twice or never, and so may its reply:  *)
(* an authority handles any commitment that was made, at any time, and a   *)
(* monitor sees any reply.  An append is one immediate transaction.  The   *)
(* storage of the ledger may be put back to an older copy.                 *)
(*                                                                         *)
(* A digest covers everything before it, so equality of digests is         *)
(* equality of what they cover: an audit head is the chain itself, and     *)
(* the digest of a receipt the entries up to it.                           *)
(***************************************************************************)
EXTENDS Naturals, FiniteSets, Sequences, SequencesExt

CONSTANTS
    Events,       \* audit events
    Authorities,  \* processes of the anchor authority, each with its key
    Trust,        \* the keys in the verifier's trust bundle, by their process
    SigningTimes, \* when the institution signs
    Times,        \* what the clocks of authority processes show
    MaxAudit,     \* bounds for TLC: on the audit chain,
    MaxCommitments, \* the commitments,
    MaxReceipts,  \*   the ledger
    MaxRollbacks  \*   and the times it is put back

ASSUME AnchorAssumptions ==
    /\ Times \subseteq Nat
    /\ Trust \in [Authorities -> [not_before: Nat, not_after: Nat,
                                  status: {"active", "retiring", "disabled"}]]
    /\ {MaxAudit, MaxCommitments, MaxReceipts, MaxRollbacks} \subseteq Nat

VARIABLES
    audit,       \* the institution's audit chain
    signatures,  \* its signatures of the chain
    commitments, \* the commitments that were made
    ledger,      \* anchor_receipts, by sequence
    replies,     \* the receipts that authorities have answered with
    accepted,    \* the receipts the monitor has accepted, in order
    rollbacks    \* how often the ledger was put back

vars == <<audit, signatures, commitments, ledger, replies, accepted, rollbacks>>

Signature == [object: Seq(Events), signed_at: SigningTimes]

Commitment == [chain: Seq(Events), signature: Signature]

\* What an entry adds to those before it.
Entry == [sequence: Nat \ {0}, commitment: Commitment, anchored_at: Times, key: Authorities]

Receipt == [entry: Entry, previous: Seq(Entry)]

digest(receipt) == Append(receipt.previous, receipt.entry)

GENESIS_RECEIPT_DIGEST == <<>>

Init ==
    /\ audit = <<>>
    /\ signatures = {}
    /\ commitments = {}
    /\ ledger = <<>>
    /\ replies = {}
    /\ accepted = <<>>
    /\ rollbacks = 0

-----------------------------------------------------------------------------
(* The institution *)

\* An event the chain does not refuse for its time.
record(event) ==
    /\ Len(audit) < MaxAudit
    /\ audit' = Append(audit, event)
    /\ UNCHANGED <<signatures, commitments, ledger, replies, accepted, rollbacks>>

sign_audit_chain(now) ==
    /\ signatures' = signatures \cup {[object |-> audit, signed_at |-> now]}
    /\ UNCHANGED <<audit, commitments, ledger, replies, accepted, rollbacks>>

\* Mutant: the signature is only checked to be one of this engagement.
any_audit_signature(signature) == signature \in signatures

verify_audit_chain_signature(signature) ==
    /\ signature \in signatures
    /\ signature.object = audit

\* Another signature of the same chain makes another commitment.
create_verified_audit_anchor_commitment(signature) ==
    /\ Cardinality(commitments) < MaxCommitments
    /\ verify_audit_chain_signature(signature)
    /\ commitments' = commitments \cup {[chain |-> audit, signature |-> signature]}
    /\ UNCHANGED <<audit, signatures, ledger, replies, accepted, rollbacks>>

-----------------------------------------------------------------------------
(* The authority *)

existing(commitment) == {n \in DOMAIN ledger : ledger[n].entry.commitment = commitment}

\* Mutant: the clock is not compared with that of the last receipt.
any_clock(anchored_at) == TRUE

\* Refused when the clock has moved backwards since the last receipt, which may
\* be that of another process.
clock_advances(anchored_at) ==
    ledger # <<>> => anchored_at >= Last(ledger).entry.anchored_at

insert(authority, commitment, anchored_at) ==
    LET receipt ==
          [entry |-> [sequence |-> IF ledger = <<>> THEN 1
                                   ELSE Last(ledger).entry.sequence + 1,
                      commitment |-> commitment,
                      anchored_at |-> anchored_at,
                      key |-> authority],
           previous |-> IF ledger = <<>> THEN GENESIS_RECEIPT_DIGEST
                        ELSE digest(Last(ledger))]
    IN  /\ clock_advances(anchored_at)
        /\ ledger' = Append(ledger, receipt)
        /\ replies' = replies \cup {receipt}

\* Mutant: a commitment is anchored as often as it is received.
append_always(authority, commitment, anchored_at) ==
    /\ Len(ledger) < MaxReceipts
    /\ insert(authority, commitment, anchored_at)
    /\ UNCHANGED <<audit, signatures, commitments, accepted, rollbacks>>

append(authority, commitment, anchored_at) ==
    /\ \/ \E n \in existing(commitment) :
             replies' = replies \cup {ledger[n]} /\ UNCHANGED ledger
       \/ /\ existing(commitment) = {}
          /\ Len(ledger) < MaxReceipts
          /\ insert(authority, commitment, anchored_at)
    /\ UNCHANGED <<audit, signatures, commitments, accepted, rollbacks>>

\* Outside this code: whoever has the file may put an older copy in its place.
put_back(length) ==
    /\ rollbacks < MaxRollbacks
    /\ length < Len(ledger)
    /\ ledger' = SubSeq(ledger, 1, length)
    /\ rollbacks' = rollbacks + 1
    /\ UNCHANGED <<audit, signatures, commitments, replies, accepted>>

-----------------------------------------------------------------------------
(* Verification *)

\* A receipt whose signature verifies was signed by its key's process.
_signature_valid(receipt) ==
    LET key == Trust[receipt.entry.key]
    IN  /\ key.status # "disabled"
        /\ key.not_before <= receipt.entry.anchored_at
        /\ receipt.entry.anchored_at <= key.not_after

\* Mutant: only the sequence is expected.
verify_sequence_only(commitment, receipt, previous, sequence) ==
    /\ receipt.entry.commitment = commitment
    /\ receipt.entry.sequence = sequence
    /\ _signature_valid(receipt)

verify_audit_anchor_receipt(commitment, receipt, previous, sequence) ==
    /\ receipt.entry.commitment = commitment
    /\ receipt.entry.sequence = sequence
    /\ receipt.previous = previous
    /\ _signature_valid(receipt)

verify_audit_anchor_chain(receipts) ==
    \A n \in DOMAIN receipts :
       /\ receipts[n].entry.sequence = n
       /\ receipts[n].previous = IF n = 1 THEN GENESIS_RECEIPT_DIGEST
                                 ELSE digest(receipts[n - 1])
       /\ \A i \in 1..(n - 1) : receipts[i].entry.commitment # receipts[n].entry.commitment
       /\ n > 1 => receipts[n - 1].entry.anchored_at <= receipts[n].entry.anchored_at
       /\ _signature_valid(receipts[n])

\* A monitor keeps the prior digest and the expected sequence, and is given the
\* receipt that follows: a reply, or what the ledger holds.
accept(commitment, receipt) ==
    /\ verify_audit_anchor_receipt(commitment, receipt,
          IF accepted = <<>> THEN GENESIS_RECEIPT_DIGEST ELSE digest(Last(accepted)),
          Len(accepted) + 1)
    /\ accepted' = Append(accepted, receipt)
    /\ UNCHANGED <<audit, signatures, commitments, ledger, replies, rollbacks>>

-----------------------------------------------------------------------------
Next ==
    \/ \E event \in Events : record(event)
    \/ \E now \in SigningTimes : sign_audit_chain(now)
    \/ \E signature \in signatures : create_verified_audit_anchor_commitment(signature)
    \/ \E authority \in Authorities, commitment \in commitments, now \in Times :
          append(authority, commitment, now)
    \/ \E length \in 0..MaxReceipts : put_back(length)
    \/ \E commitment \in commitments, receipt \in replies : accept(commitment, receipt)

Spec == Init /\ [][Next]_vars

-----------------------------------------------------------------------------
(* Properties *)

\* Well-typed; a commitment never commits to events that were not recorded yet.
TypeOK ==
    /\ audit \in Seq(Events)
    /\ signatures \subseteq Signature
    /\ commitments \subseteq Commitment
    /\ \A c \in commitments : Len(c.chain) <= Len(audit)
    /\ ledger \in Seq(Receipt)
    /\ replies \subseteq Receipt
    /\ accepted \in Seq(replies)
    /\ rollbacks \in Nat

\* The ledger that the processes of an authority write together, each with its
\* own clock and key, is one that offline verification accepts, as far as the
\* keys are trusted at the times they signed at: nothing else can be wrong.
ChainIsAccepted ==
    (\A n \in DOMAIN ledger : _signature_valid(ledger[n])) =>
        verify_audit_anchor_chain(ledger)

\* A request that is delivered again, or retried for a reply that was lost, is
\* answered with the receipt of the first time, which is on the ledger: unless
\* the ledger itself was put back.
RetriesGetTheReceipt ==
    rollbacks = 0 =>
        /\ \A r, s \in replies : r.entry.commitment = s.entry.commitment => r = s
        /\ \A r \in replies : \E n \in DOMAIN ledger : ledger[n] = r

\* What is anchored was signed: the signature in a commitment is one of the chain
\* the commitment was made of, which the audit chain still continues, however
\* many events were recorded between signing, committing and anchoring.
AnchoredWereSigned ==
    \A n \in DOMAIN ledger :
        LET commitment == ledger[n].entry.commitment
        IN  /\ commitment.signature \in signatures
            /\ commitment.signature.object = commitment.chain
            /\ IsPrefix(commitment.chain, audit)

\* A monitor that keeps the prior digest and the expected sequence does not
\* follow a ledger that was put back and has diverged from what it accepted.
ForksAreNoticed ==
    [][accepted' # accepted /\ (\E n \in DOMAIN ledger : ledger[n] = Last(accepted'))
          => IsPrefix(accepted, ledger)]_vars
=============================================================================
