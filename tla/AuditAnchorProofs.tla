--------------------------- MODULE AuditAnchorProofs ---------------------------
(***************************************************************************)
(* Proofs about AuditAnchor for any events, authorities, keys and clocks,  *)
(* and a ledger that is put back any number of times: what is on the       *)
(* ledger verifies offline, and a monitor with continuity state does not   *)
(* follow a fork.                                                          *)
(***************************************************************************)
EXTENDS AuditAnchor, TLAPS

\* What receipts say of those before them, from the first one on.
Linked(receipts) ==
    \A n \in DOMAIN receipts :
       /\ receipts[n].entry.sequence = n
       /\ receipts[n].previous = [i \in 1..(n - 1) |-> receipts[i].entry]

LEMMA InitTypes == Init => TypeOK
<1> SUFFICES ASSUME Init PROVE TypeOK
  OBVIOUS
<1>1. audit \in Seq(Events) /\ ledger \in Seq(Receipt) /\ accepted \in Seq(replies)
  BY DEF Init
<1> QED
  BY <1>1 DEF Init, TypeOK

\* The receipt an insertion appends.
NewReceipt(authority, commitment, anchored_at) ==
    [entry |-> [sequence |-> IF ledger = <<>> THEN 1 ELSE Last(ledger).entry.sequence + 1,
                commitment |-> commitment, anchored_at |-> anchored_at, key |-> authority],
     previous |-> IF ledger = <<>> THEN GENESIS_RECEIPT_DIGEST ELSE digest(Last(ledger))]

LEMMA NewReceiptType ==
    ASSUME TypeOK, NEW authority \in Authorities, NEW commitment \in commitments,
           NEW anchored_at \in Times
    PROVE  NewReceipt(authority, commitment, anchored_at) \in Receipt
<1> DEFINE r == NewReceipt(authority, commitment, anchored_at)
<1>1. ledger # <<>> => Last(ledger) \in Receipt
  BY DEF TypeOK, Last
<1>2. r.entry.sequence \in Nat \ {0}
  BY <1>1 DEF NewReceipt, Receipt, Entry
<1>3. r.entry \in Entry
  BY <1>2 DEF NewReceipt, Entry, TypeOK
<1>4. r.previous \in Seq(Entry)
  <2>1. CASE ledger = <<>>
    BY <2>1 DEF NewReceipt, GENESIS_RECEIPT_DIGEST
  <2>2. CASE ledger # <<>>
    <3>1. Last(ledger).previous \in Seq(Entry) /\ Last(ledger).entry \in Entry
      BY <1>1, <2>2 DEF Receipt
    <3>2. digest(Last(ledger)) \in Seq(Entry)
      BY <3>1 DEF digest
    <3> QED
      BY <2>2, <3>2 DEF NewReceipt
  <2> QED
    BY <2>1, <2>2
<1> QED
  BY <1>3, <1>4 DEF NewReceipt, Receipt

\* Every state is well-typed, and a commitment commits to recorded events.
THEOREM TypeCorrect == Spec => []TypeOK
<1>1. TypeOK /\ [Next]_vars => TypeOK'
  <2> SUFFICES ASSUME TypeOK, [Next]_vars PROVE TypeOK'
    OBVIOUS
  <2>1. ASSUME NEW event \in Events, record(event)
        PROVE  TypeOK'
    BY <2>1 DEF TypeOK, record
  <2>2. ASSUME NEW now \in SigningTimes, sign_audit_chain(now)
        PROVE  TypeOK'
    <3>1. [object |-> audit, signed_at |-> now] \in Signature
      BY DEF TypeOK, Signature
    <3> QED
      BY <2>2, <3>1 DEF TypeOK, sign_audit_chain
  <2>3. ASSUME NEW signature \in signatures,
               create_verified_audit_anchor_commitment(signature)
        PROVE  TypeOK'
    <3>1. [chain |-> audit, signature |-> signature] \in Commitment
      BY DEF TypeOK, Commitment
    <3> QED
      BY <2>3, <3>1 DEF TypeOK, create_verified_audit_anchor_commitment
  <2>4. ASSUME NEW authority \in Authorities, NEW commitment \in commitments,
               NEW now \in Times, append(authority, commitment, now)
        PROVE  TypeOK'
    <3>1. CASE insert(authority, commitment, now)
      <4>1. PICK r \in Receipt : r = NewReceipt(authority, commitment, now)
        BY NewReceiptType
      <4>2. ledger' = Append(ledger, r) /\ replies' = replies \cup {r}
        BY <3>1, <4>1 DEF insert, NewReceipt
      <4>3. ledger' \in Seq(Receipt)
        BY <4>1, <4>2 DEF TypeOK
      <4>4. accepted' \in Seq(replies')
        BY <2>4, <4>2 DEF TypeOK, append
      <4> QED
        BY <2>4, <4>1, <4>2, <4>3, <4>4 DEF TypeOK, append
    <3>2. CASE \E n \in existing(commitment) :
                  replies' = replies \cup {ledger[n]} /\ UNCHANGED ledger
      <4>1. PICK r \in Receipt : replies' = replies \cup {r}
        BY <3>2 DEF TypeOK, existing
      <4>2. accepted' \in Seq(replies')
        BY <2>4, <4>1 DEF TypeOK, append
      <4> QED
        BY <2>4, <3>2, <4>1, <4>2 DEF TypeOK, append
    <3> QED
      BY <2>4, <3>1, <3>2 DEF append
  <2>5. ASSUME NEW length \in 0..MaxReceipts, put_back(length)
        PROVE  TypeOK'
    <3>1. ledger' \in Seq(Receipt)
      BY <2>5 DEF TypeOK, put_back
    <3> QED
      BY <2>5, <3>1 DEF TypeOK, put_back
  <2>6. ASSUME NEW commitment \in commitments, NEW receipt \in replies,
               accept(commitment, receipt)
        PROVE  TypeOK'
    <3>1. accepted' \in Seq(replies)
      BY <2>6 DEF TypeOK, accept
    <3> QED
      BY <2>6, <3>1 DEF TypeOK, accept
  <2>7. CASE UNCHANGED vars
    BY <2>7 DEF TypeOK, vars
  <2> QED
    BY <2>1, <2>2, <2>3, <2>4, <2>5, <2>6, <2>7 DEF Next
<1> QED
  BY <1>1, InitTypes, PTL DEF Spec

-----------------------------------------------------------------------------
(* Links *)

\* The digest of a linked receipt is the entries up to it.
LEMMA DigestOfLinked ==
    ASSUME NEW receipts \in Seq(Receipt), Linked(receipts), NEW n \in DOMAIN receipts
    PROVE  digest(receipts[n]) = [i \in 1..n |-> receipts[i].entry]
<1>1. n \in Nat \ {0}
  OBVIOUS
<1>2. receipts[n].previous = [i \in 1..(n - 1) |-> receipts[i].entry]
  BY DEF Linked
<1>3. receipts[n].previous \in Seq(Entry) /\ receipts[n].entry \in Entry
  <2>1. receipts[n] \in Receipt
    OBVIOUS
  <2> QED
    BY <2>1 DEF Receipt
<1>4. Len(receipts[n].previous) = n - 1
  <2>1. PICK k \in Nat : k = Len(receipts[n].previous) /\ DOMAIN receipts[n].previous = 1..k
    BY <1>3
  <2>2. DOMAIN receipts[n].previous = 1..(n - 1)
    BY <1>2
  <2>3. PICK m \in Nat : m = n - 1
    BY <1>1
  <2>4. 1..k = 1..m
    BY <2>1, <2>2, <2>3
  <2>5. k = m
    BY <2>4
  <2> QED
    BY <2>1, <2>3, <2>5
<1> QED
  BY <1>1, <1>2, <1>3, <1>4 DEF digest

\* A linked sequence stays linked when it is cut, ...
LEMMA LinkedCut ==
    ASSUME NEW receipts \in Seq(Receipt), Linked(receipts), NEW m \in 0..Len(receipts)
    PROVE  Linked(SubSeq(receipts, 1, m))
<1> DEFINE s == SubSeq(receipts, 1, m)
<1>1. DOMAIN s = 1..m /\ \A i \in 1..m : s[i] = receipts[i]
  OBVIOUS
<1>2. ASSUME NEW n \in 1..m
      PROVE  [i \in 1..(n - 1) |-> s[i].entry] = [i \in 1..(n - 1) |-> receipts[i].entry]
  BY <1>1
<1> HIDE DEF s
<1> QED
  BY <1>1, <1>2 DEF Linked

\* ... and when a receipt is appended that names its place and what precedes it.
LEMMA LinkedAppend ==
    ASSUME NEW receipts \in Seq(Receipt), Linked(receipts), NEW r \in Receipt,
           r.entry.sequence = Len(receipts) + 1,
           r.previous = IF receipts = <<>> THEN GENESIS_RECEIPT_DIGEST
                        ELSE digest(Last(receipts))
    PROVE  Linked(Append(receipts, r))
<1> DEFINE m == Len(receipts)
           s == Append(receipts, r)
<1>1. DOMAIN s = 1..(m + 1) /\ s[m + 1] = r /\ \A i \in 1..m : s[i] = receipts[i]
  OBVIOUS
<1>2. r.previous = [i \in 1..m |-> receipts[i].entry]
  <2>1. CASE m = 0
    <3>1. r.previous = <<>>
      BY <2>1 DEF GENESIS_RECEIPT_DIGEST
    <3> QED
      BY <2>1, <3>1
  <2>2. CASE m # 0
    <3>1. m \in DOMAIN receipts /\ Last(receipts) = receipts[m] /\ receipts # <<>>
      BY <2>2 DEF Last
    <3> QED
      BY <3>1, DigestOfLinked
  <2> QED
    BY <2>1, <2>2
<1>3. ASSUME NEW n \in 1..(m + 1)
      PROVE  [i \in 1..(n - 1) |-> s[i].entry] = [i \in 1..(n - 1) |-> receipts[i].entry]
  BY <1>1
<1>4. m \in Nat /\ DOMAIN receipts = 1..m
  OBVIOUS
<1> HIDE DEF s, m
<1>5. ASSUME NEW n \in 1..(m + 1)
      PROVE  s[n].entry.sequence = n /\ s[n].previous = [i \in 1..(n - 1) |-> s[i].entry]
  <2>1. CASE n = m + 1
    BY <1>1, <1>2, <1>3, <1>4, <2>1 DEF m
  <2>2. CASE n # m + 1
    <3>1. n \in 1..m
      BY <1>4, <2>2
    <3>2. receipts[n].entry.sequence = n
          /\ receipts[n].previous = [i \in 1..(n - 1) |-> receipts[i].entry]
      BY <1>4, <3>1 DEF Linked
    <3>3. s[n] = receipts[n]
      BY <1>1, <3>1
    <3> QED
      BY <1>3, <3>2, <3>3
  <2> QED
    BY <2>1, <2>2
<1> QED
  BY <1>1, <1>5 DEF Linked, s

-----------------------------------------------------------------------------
(* The ledger and the monitor *)

\* Receipts are in order of their times, and no commitment has two.
Ordered ==
    \A i, j \in DOMAIN ledger : i < j =>
       /\ ledger[i].entry.anchored_at <= ledger[j].entry.anchored_at
       /\ ledger[i].entry.commitment # ledger[j].entry.commitment

ChainInv == Linked(ledger) /\ Ordered /\ Linked(accepted)

LEMMA TimesOnLedger ==
    ASSUME TypeOK, NEW n \in DOMAIN ledger
    PROVE  ledger[n].entry.anchored_at \in Nat
<1>1. ledger[n] \in Receipt
  BY DEF TypeOK
<1>2. ledger[n].entry \in Entry
  BY <1>1 DEF Receipt
<1>3. ledger[n].entry.anchored_at \in Times
  BY <1>2 DEF Entry
<1> QED
  BY <1>3, AnchorAssumptions

\* What appending a receipt for a new commitment does.
LEMMA InsertStep ==
    ASSUME TypeOK, ChainInv, NEW authority \in Authorities, NEW commitment \in commitments,
           NEW now \in Times, existing(commitment) = {}, insert(authority, commitment, now)
    PROVE  Linked(ledger)' /\ Ordered'
<1>1. PICK r \in Receipt : r = NewReceipt(authority, commitment, now)
  BY NewReceiptType
<1>2. ledger' = Append(ledger, r)
  BY <1>1 DEF insert, NewReceipt
<1>3. r.entry.commitment = commitment /\ r.entry.anchored_at = now
  BY <1>1 DEF NewReceipt
<1>4. r.previous = IF ledger = <<>> THEN GENESIS_RECEIPT_DIGEST ELSE digest(Last(ledger))
  BY <1>1 DEF NewReceipt
<1>5. r.entry.sequence = Len(ledger) + 1
  <2>1. CASE ledger = <<>>
    BY <1>1, <2>1 DEF NewReceipt
  <2>2. CASE ledger # <<>>
    <3>1. Len(ledger) \in DOMAIN ledger /\ Last(ledger) = ledger[Len(ledger)]
      BY <2>2 DEF TypeOK, Last
    <3>2. Last(ledger).entry.sequence = Len(ledger)
      BY <3>1 DEF ChainInv, Linked
    <3> QED
      BY <1>1, <2>2, <3>2 DEF NewReceipt
  <2> QED
    BY <2>1, <2>2
<1>6. Linked(ledger)'
  BY <1>2, <1>4, <1>5, LinkedAppend DEF ChainInv, TypeOK
<1>7. DOMAIN ledger' = 1..(Len(ledger) + 1) /\ ledger'[Len(ledger) + 1] = r
      /\ \A i \in 1..Len(ledger) : ledger'[i] = ledger[i]
  BY <1>2 DEF TypeOK
<1>8. \A i \in DOMAIN ledger : ledger[i].entry.commitment # commitment
  BY DEF existing
<1>9. \A i \in DOMAIN ledger : ledger[i].entry.anchored_at <= now
  <2> TAKE i \in DOMAIN ledger
  <2>1. ledger # <<>> /\ Len(ledger) \in DOMAIN ledger /\ i \in 1..Len(ledger)
    BY DEF TypeOK
  <2>2. ledger[Len(ledger)].entry.anchored_at <= now
    BY <2>1 DEF insert, clock_advances, Last
  <2>3. ledger[i].entry.anchored_at <= ledger[Len(ledger)].entry.anchored_at
    <3>1. CASE i = Len(ledger)
      <4>1. ledger[i].entry.anchored_at \in Nat
        BY TimesOnLedger
      <4> QED
        BY <3>1, <4>1
    <3>2. CASE i # Len(ledger)
      BY <2>1, <3>2 DEF ChainInv, Ordered
    <3> QED
      BY <3>1, <3>2
  <2>4. ledger[i].entry.anchored_at \in Nat /\ ledger[Len(ledger)].entry.anchored_at \in Nat
    BY <2>1, TimesOnLedger
  <2>5. now \in Nat
    BY AnchorAssumptions
  <2> QED
    BY <2>2, <2>3, <2>4, <2>5
<1>10. Ordered'
  <2> SUFFICES ASSUME NEW i \in 1..(Len(ledger) + 1), NEW j \in 1..(Len(ledger) + 1), i < j
               PROVE  /\ ledger'[i].entry.anchored_at <= ledger'[j].entry.anchored_at
                      /\ ledger'[i].entry.commitment # ledger'[j].entry.commitment
    BY <1>7 DEF Ordered
  <2>1. i \in DOMAIN ledger /\ ledger'[i] = ledger[i]
    BY <1>7 DEF TypeOK
  <2>2. CASE j = Len(ledger) + 1
    BY <1>3, <1>7, <1>8, <1>9, <2>1, <2>2
  <2>3. CASE j # Len(ledger) + 1
    <3>1. j \in DOMAIN ledger /\ ledger'[j] = ledger[j]
      BY <1>7, <2>3 DEF TypeOK
    <3> QED
      BY <2>1, <3>1 DEF ChainInv, Ordered
  <2> QED
    BY <2>2, <2>3
<1> QED
  BY <1>6, <1>10

LEMMA ChainStep == TypeOK /\ ChainInv /\ [Next]_vars => ChainInv'
<1> SUFFICES ASSUME TypeOK, ChainInv, [Next]_vars PROVE ChainInv'
  OBVIOUS
<1>1. ASSUME UNCHANGED <<ledger, accepted>>
      PROVE  ChainInv'
  BY <1>1 DEF ChainInv, Linked, Ordered
<1>2. ASSUME NEW event \in Events, record(event)
      PROVE  ChainInv'
  BY <1>1, <1>2 DEF record
<1>3. ASSUME NEW now \in SigningTimes, sign_audit_chain(now)
      PROVE  ChainInv'
  BY <1>1, <1>3 DEF sign_audit_chain
<1>4. ASSUME NEW signature \in signatures, create_verified_audit_anchor_commitment(signature)
      PROVE  ChainInv'
  BY <1>1, <1>4 DEF create_verified_audit_anchor_commitment
<1>5. ASSUME NEW authority \in Authorities, NEW commitment \in commitments,
             NEW now \in Times, append(authority, commitment, now)
      PROVE  ChainInv'
  <2>1. accepted' = accepted
    BY <1>5 DEF append
  <2>2. CASE existing(commitment) = {}
    <3>1. insert(authority, commitment, now)
      BY <1>5, <2>2 DEF append
    <3>2. Linked(ledger)' /\ Ordered'
      BY <2>2, <3>1, InsertStep
    <3> QED
      BY <2>1, <3>2 DEF ChainInv, Linked
  <2>3. CASE existing(commitment) # {}
    <3>1. ledger' = ledger
      BY <1>5, <2>3 DEF append
    <3> QED
      BY <1>1, <2>1, <3>1
  <2> QED
    BY <2>2, <2>3
<1>6. ASSUME NEW length \in 0..MaxReceipts, put_back(length)
      PROVE  ChainInv'
  <2>1. ledger' = SubSeq(ledger, 1, length) /\ length \in 0..Len(ledger)
    BY <1>6, AnchorAssumptions DEF TypeOK, put_back
  <2>2. Linked(ledger)'
    BY <2>1, LinkedCut DEF TypeOK, ChainInv
  <2>3. DOMAIN ledger' = 1..length /\ \A i \in 1..length : ledger'[i] = ledger[i]
    BY <2>1 DEF TypeOK
  <2>4. 1..length \subseteq DOMAIN ledger
    BY <2>1 DEF TypeOK
  <2>5. Ordered'
    BY <2>3, <2>4 DEF ChainInv, Ordered
  <2> QED
    BY <1>6, <2>2, <2>5 DEF ChainInv, Linked, put_back
<1>7. ASSUME NEW commitment \in commitments, NEW receipt \in replies,
             accept(commitment, receipt)
      PROVE  ChainInv'
  <2>1. receipt \in Receipt /\ accepted \in Seq(Receipt)
    BY DEF TypeOK
  <2>2. accepted' = Append(accepted, receipt) /\ ledger' = ledger
    BY <1>7 DEF accept
  <2>3. /\ receipt.entry.sequence = Len(accepted) + 1
        /\ receipt.previous = IF accepted = <<>> THEN GENESIS_RECEIPT_DIGEST
                              ELSE digest(Last(accepted))
    BY <1>7 DEF accept, verify_audit_anchor_receipt
  <2>4. Linked(accepted)'
    BY <2>1, <2>2, <2>3, LinkedAppend DEF ChainInv
  <2> QED
    BY <2>2, <2>4 DEF ChainInv, Linked, Ordered
<1>8. CASE UNCHANGED vars
  BY <1>1, <1>8 DEF vars
<1> QED
  BY <1>2, <1>3, <1>4, <1>5, <1>6, <1>7, <1>8 DEF Next

LEMMA ChainHolds == Spec => []ChainInv
<1>1. Init => ChainInv
  BY DEF Init, ChainInv, Linked, Ordered
<1> QED
  BY <1>1, ChainStep, TypeCorrect, PTL DEF Spec

\* Whatever the clocks of the authority's processes show, and however often the
\* ledger is put back, offline verification accepts what is on it, as far as it
\* trusts the keys.
THEOREM LedgerVerifies == Spec => []ChainIsAccepted
<1>1. TypeOK /\ ChainInv => ChainIsAccepted
  <2> SUFFICES ASSUME TypeOK, ChainInv,
                      \A n \in DOMAIN ledger : _signature_valid(ledger[n]),
                      NEW n \in DOMAIN ledger
               PROVE  /\ ledger[n].entry.sequence = n
                      /\ ledger[n].previous = IF n = 1 THEN GENESIS_RECEIPT_DIGEST
                                              ELSE digest(ledger[n - 1])
                      /\ \A i \in 1..(n - 1) :
                            ledger[i].entry.commitment # ledger[n].entry.commitment
                      /\ n > 1 =>
                            ledger[n - 1].entry.anchored_at <= ledger[n].entry.anchored_at
                      /\ _signature_valid(ledger[n])
    BY DEF ChainIsAccepted, verify_audit_anchor_chain
  <2>1. n \in Nat \ {0} /\ 1..(n - 1) \subseteq DOMAIN ledger
    BY DEF TypeOK
  <2>2. ledger[n].previous = IF n = 1 THEN GENESIS_RECEIPT_DIGEST ELSE digest(ledger[n - 1])
    <3>1. ledger[n].previous = [i \in 1..(n - 1) |-> ledger[i].entry]
      BY DEF ChainInv, Linked
    <3>2. CASE n = 1
      <4>1. ledger[n].previous = <<>>
        BY <3>1, <3>2
      <4> QED
        BY <3>2, <4>1 DEF GENESIS_RECEIPT_DIGEST
    <3>3. CASE n # 1
      <4>1. n - 1 \in DOMAIN ledger
        BY <2>1, <3>3
      <4>2. digest(ledger[n - 1]) = [i \in 1..(n - 1) |-> ledger[i].entry]
        BY <4>1, DigestOfLinked DEF ChainInv, TypeOK
      <4> QED
        BY <3>1, <3>3, <4>2
    <3> QED
      BY <3>2, <3>3
  <2>3. \A i \in 1..(n - 1) : i \in DOMAIN ledger /\ i < n
    BY <2>1
  <2>4. n > 1 => n - 1 \in DOMAIN ledger /\ n - 1 < n
    BY <2>1
  <2> QED
    BY <2>2, <2>3, <2>4 DEF ChainInv, Linked, Ordered
<1> QED
  BY <1>1, ChainHolds, TypeCorrect, PTL

\* A monitor with the prior digest and the expected sequence only follows a
\* ledger that continues everything it has accepted.
THEOREM MonitorNoticesForks == Spec => ForksAreNoticed
<1>1. TypeOK /\ ChainInv /\ [Next]_vars =>
        [accepted' # accepted /\ (\E n \in DOMAIN ledger : ledger[n] = Last(accepted'))
            => IsPrefix(accepted, ledger)]_vars
  <2> SUFFICES ASSUME TypeOK, ChainInv, [Next]_vars, accepted' # accepted,
                      NEW n \in DOMAIN ledger, ledger[n] = Last(accepted')
               PROVE  IsPrefix(accepted, ledger)
    OBVIOUS
  <2>1. PICK commitment \in commitments, r \in replies : accept(commitment, r)
    BY DEF Next, vars, record, sign_audit_chain, create_verified_audit_anchor_commitment,
           append, put_back
  <2>2. r \in Receipt /\ accepted \in Seq(Receipt) /\ ledger \in Seq(Receipt)
    BY DEF TypeOK
  <2>3. /\ accepted' = Append(accepted, r)
        /\ r.entry.sequence = Len(accepted) + 1
        /\ r.previous = IF accepted = <<>> THEN GENESIS_RECEIPT_DIGEST
                        ELSE digest(Last(accepted))
    BY <2>1 DEF accept, verify_audit_anchor_receipt
  <2>4. ledger[n] = r
    BY <2>2, <2>3 DEF Last
  <2> DEFINE m == Len(accepted)
  <2>5. n = m + 1 /\ r.previous = [i \in 1..m |-> ledger[i].entry]
    <3>1. n = r.entry.sequence
      BY <2>4 DEF ChainInv, Linked
    <3>2. r.previous = [i \in 1..(n - 1) |-> ledger[i].entry]
      BY <2>4 DEF ChainInv, Linked
    <3>3. n = m + 1 /\ n - 1 = m
      BY <2>2, <2>3, <3>1
    <3> QED
      BY <3>2, <3>3
  <2>6. m \in Nat /\ DOMAIN accepted = 1..m /\ 1..m \subseteq DOMAIN ledger
    BY <2>2, <2>5
  <2>7. \A i \in 1..m : accepted[i].entry = ledger[i].entry
    <3>1. CASE m = 0
      BY <3>1
    <3>2. CASE m # 0
      <4>1. accepted # <<>> /\ Last(accepted) = accepted[m] /\ m \in DOMAIN accepted
        BY <2>2, <2>6, <3>2 DEF Last
      <4>2. digest(accepted[m]) = [i \in 1..m |-> accepted[i].entry]
        BY <2>2, <4>1, DigestOfLinked DEF ChainInv
      <4>3. [i \in 1..m |-> accepted[i].entry] = [i \in 1..m |-> ledger[i].entry]
        BY <2>3, <2>5, <4>1, <4>2
      <4> HIDE DEF m
      <4> TAKE i \in 1..m
      <4>4. [j \in 1..m |-> accepted[j].entry][i] = [j \in 1..m |-> ledger[j].entry][i]
        BY <4>3
      <4> QED
        BY <4>4
    <3> QED
      BY <3>1, <3>2
  <2> HIDE DEF m
  <2>8. \A i \in 1..m : accepted[i] = ledger[i]
    <3> TAKE i \in 1..m
    <3>1. accepted[i].previous = [j \in 1..(i - 1) |-> accepted[j].entry]
      BY <2>6 DEF ChainInv, Linked
    <3>2. ledger[i].previous = [j \in 1..(i - 1) |-> ledger[j].entry]
      BY <2>6 DEF ChainInv, Linked
    <3>3. [j \in 1..(i - 1) |-> accepted[j].entry] = [j \in 1..(i - 1) |-> ledger[j].entry]
      BY <2>6, <2>7
    <3>4. accepted[i] \in Receipt /\ ledger[i] \in Receipt
      BY <2>2, <2>6
    <3>5. accepted[i].entry = ledger[i].entry /\ accepted[i].previous = ledger[i].previous
      BY <2>7, <3>1, <3>2, <3>3
    <3> QED
      BY <3>4, <3>5 DEF Receipt
  <2>9. m <= Len(ledger) /\ Len(ledger) \in Nat
    BY <2>2, <2>5, <2>6
  <2>10. SubSeq(accepted, 1, m) = SubSeq(ledger, 1, m)
    <3>1. SubSeq(accepted, 1, m) = [i \in 1..m |-> accepted[i]]
      BY <2>2, <2>6
    <3>2. SubSeq(ledger, 1, m) = [i \in 1..m |-> ledger[i]]
      BY <2>2, <2>6, <2>9
    <3> QED
      BY <2>8, <3>1, <3>2
  <2> QED
    BY <2>9, <2>10 DEF IsPrefix, m
<1> QED
  BY <1>1, ChainHolds, TypeCorrect, PTL DEF Spec, ForksAreNoticed

-----------------------------------------------------------------------------
(* Retries *)

\* While the ledger was not put back, everything an authority has answered with
\* is on it.
RepliesAreOnLedger ==
    rollbacks = 0 => \A r \in replies : \E n \in DOMAIN ledger : ledger[n] = r

LEMMA RepliesStep ==
    ASSUME TypeOK, RepliesAreOnLedger, [Next]_vars
    PROVE  RepliesAreOnLedger'
<1>1. CASE UNCHANGED <<ledger, replies, rollbacks>>
  BY <1>1 DEF RepliesAreOnLedger
<1>2. ASSUME NEW authority \in Authorities, NEW commitment \in commitments,
             NEW now \in Times, append(authority, commitment, now)
      PROVE  RepliesAreOnLedger'
  <2>1. CASE insert(authority, commitment, now)
    <3>1. PICK r \in Receipt : r = NewReceipt(authority, commitment, now)
      BY NewReceiptType
    <3>2. ledger' = Append(ledger, r) /\ replies' = replies \cup {r}
      BY <2>1, <3>1 DEF insert, NewReceipt
    <3>3. /\ DOMAIN ledger \subseteq DOMAIN ledger' /\ Len(ledger) + 1 \in DOMAIN ledger'
          /\ \A n \in DOMAIN ledger : ledger'[n] = ledger[n]
          /\ ledger'[Len(ledger) + 1] = r
      BY <3>2 DEF TypeOK
    <3>4. rollbacks' = rollbacks
      BY <1>2 DEF append
    <3> QED
      BY <3>2, <3>3, <3>4 DEF RepliesAreOnLedger
  <2>2. CASE \E n \in existing(commitment) :
                replies' = replies \cup {ledger[n]} /\ UNCHANGED ledger
    BY <1>2, <2>2 DEF RepliesAreOnLedger, append, existing
  <2> QED
    BY <1>2, <2>1, <2>2 DEF append
<1>3. ASSUME NEW length \in 0..MaxReceipts, put_back(length)
      PROVE  RepliesAreOnLedger'
  <2>1. rollbacks' = rollbacks + 1 /\ rollbacks \in Nat
    BY <1>3 DEF put_back, TypeOK
  <2> QED
    BY <2>1 DEF RepliesAreOnLedger
<1> QED
  BY <1>1, <1>2, <1>3 DEF Next, vars, record, sign_audit_chain,
     create_verified_audit_anchor_commitment, accept

\* A commitment that is handed in again, for whatever reason and to whatever
\* process of the authority, is answered with the receipt of the first time.
THEOREM RetriesAreAnsweredAlike == Spec => []RetriesGetTheReceipt
<1>1. Init => RepliesAreOnLedger
  BY DEF Init, RepliesAreOnLedger
<1>2. TypeOK /\ RepliesAreOnLedger /\ [Next]_vars => RepliesAreOnLedger'
  BY RepliesStep
<1>3. TypeOK /\ ChainInv /\ RepliesAreOnLedger => RetriesGetTheReceipt
  <2> SUFFICES ASSUME TypeOK, ChainInv, RepliesAreOnLedger, rollbacks = 0,
                      NEW r \in replies, NEW s \in replies,
                      r.entry.commitment = s.entry.commitment
               PROVE  r = s
    BY DEF RetriesGetTheReceipt, RepliesAreOnLedger
  <2>1. PICK i \in DOMAIN ledger : ledger[i] = r
    BY DEF RepliesAreOnLedger
  <2>2. PICK j \in DOMAIN ledger : ledger[j] = s
    BY DEF RepliesAreOnLedger
  <2>3. ~(i < j) /\ ~(j < i)
    BY <2>1, <2>2 DEF ChainInv, Ordered
  <2>4. i = j
    BY <2>3 DEF TypeOK
  <2> QED
    BY <2>1, <2>2, <2>4
<1> QED
  BY <1>1, <1>2, <1>3, ChainHolds, TypeCorrect, PTL DEF Spec

-----------------------------------------------------------------------------
(* What is anchored was signed *)

\* The audit chain continues a chain that was committed, whatever is recorded.
LEMMA PrefixAppend ==
    ASSUME NEW S, NEW s \in Seq(S), NEW t \in Seq(S), NEW x \in S, IsPrefix(s, t)
    PROVE  IsPrefix(s, Append(t, x))
<1>1. Len(s) \in Nat /\ Len(t) \in Nat /\ Len(s) <= Len(t)
  BY DEF IsPrefix
<1>2. Append(t, x) \in Seq(S) /\ Len(Append(t, x)) = Len(t) + 1
  OBVIOUS
<1>3. SubSeq(Append(t, x), 1, Len(s)) = SubSeq(t, 1, Len(s))
  BY <1>1, <1>2
<1> QED
  BY <1>1, <1>2, <1>3 DEF IsPrefix

LEMMA PrefixSelf ==
    ASSUME NEW S, NEW s \in Seq(S)
    PROVE  IsPrefix(s, s)
  BY DEF IsPrefix

Signed(c) == /\ c.signature \in signatures
             /\ c.signature.object = c.chain
             /\ IsPrefix(c.chain, audit)

\* Every commitment was signed, and only commitments are anchored.
CommitmentsWereSigned ==
    /\ \A c \in commitments : Signed(c)
    /\ \A n \in DOMAIN ledger : ledger[n].entry.commitment \in commitments

\* Signatures are kept, and so is what was recorded.
LEMMA SignedStays ==
    ASSUME TypeOK, [Next]_vars, NEW c \in commitments, Signed(c)
    PROVE  Signed(c)'
<1>1. signatures \subseteq signatures'
  BY DEF Next, vars, record, sign_audit_chain, create_verified_audit_anchor_commitment,
         append, put_back, accept
<1>2. UNCHANGED audit \/ \E event \in Events : record(event)
  BY DEF Next, vars, sign_audit_chain, create_verified_audit_anchor_commitment,
         append, put_back, accept
<1>3. c.chain \in Seq(Events) /\ audit \in Seq(Events)
  BY DEF TypeOK, Commitment
<1>4. IsPrefix(c.chain, audit')
  <2>1. CASE UNCHANGED audit
    BY <2>1 DEF Signed
  <2>2. ASSUME NEW event \in Events, record(event)
        PROVE  IsPrefix(c.chain, audit')
    BY <1>3, <2>2, PrefixAppend DEF record, Signed
  <2> QED
    BY <1>2, <2>1, <2>2
<1> QED
  BY <1>1, <1>4 DEF Signed

LEMMA SignedStep ==
    ASSUME TypeOK, CommitmentsWereSigned, [Next]_vars
    PROVE  CommitmentsWereSigned'
<1>1. \A c \in commitments : Signed(c)'
  BY SignedStays DEF CommitmentsWereSigned
<1>2. CASE UNCHANGED <<commitments, ledger>>
  BY <1>1, <1>2 DEF CommitmentsWereSigned
<1>3. ASSUME NEW signature \in signatures,
             create_verified_audit_anchor_commitment(signature)
      PROVE  CommitmentsWereSigned'
  <2> DEFINE made == [chain |-> audit, signature |-> signature]
  <2>1. commitments' = commitments \cup {made} /\ UNCHANGED <<ledger, audit, signatures>>
    BY <1>3 DEF create_verified_audit_anchor_commitment
  <2>2. signature.object = audit
    BY <1>3 DEF create_verified_audit_anchor_commitment, verify_audit_chain_signature
  <2>3. Signed(made)'
    BY <2>1, <2>2, PrefixSelf DEF Signed, TypeOK
  <2> QED
    BY <1>1, <2>1, <2>3 DEF CommitmentsWereSigned
<1>4. ASSUME NEW authority \in Authorities, NEW commitment \in commitments,
             NEW now \in Times, append(authority, commitment, now)
      PROVE  CommitmentsWereSigned'
  <2>1. commitments' = commitments
    BY <1>4 DEF append
  <2>2. CASE insert(authority, commitment, now)
    <3>1. PICK r \in Receipt : r = NewReceipt(authority, commitment, now)
      BY NewReceiptType
    <3>2. ledger' = Append(ledger, r)
      BY <2>2, <3>1 DEF insert, NewReceipt
    <3>3. \A n \in DOMAIN ledger' : \/ n \in DOMAIN ledger /\ ledger'[n] = ledger[n]
                                    \/ ledger'[n] = r
      BY <3>2 DEF TypeOK
    <3>4. r.entry.commitment \in commitments
      BY <3>1 DEF NewReceipt
    <3> QED
      BY <1>1, <2>1, <3>3, <3>4 DEF CommitmentsWereSigned
  <2>3. CASE UNCHANGED ledger
    BY <1>1, <2>1, <2>3 DEF CommitmentsWereSigned
  <2> QED
    BY <1>4, <2>2, <2>3 DEF append
<1>5. ASSUME NEW length \in 0..MaxReceipts, put_back(length)
      PROVE  CommitmentsWereSigned'
  <2>1. /\ ledger' = SubSeq(ledger, 1, length) /\ length \in 0..Len(ledger)
        /\ UNCHANGED commitments
    BY <1>5, AnchorAssumptions DEF TypeOK, put_back
  <2>2. \A n \in DOMAIN ledger' : n \in DOMAIN ledger /\ ledger'[n] = ledger[n]
    BY <2>1 DEF TypeOK
  <2> QED
    BY <1>1, <2>1, <2>2 DEF CommitmentsWereSigned
<1> QED
  BY <1>2, <1>3, <1>4, <1>5 DEF Next, vars, record, sign_audit_chain, accept

\* Whatever is on the ledger is a commitment to a chain that the institution
\* signed, with the signature of that chain, and its audit chain continues it,
\* however many events came between signing, committing and anchoring.
THEOREM AnchorsAreSigned == Spec => []AnchoredWereSigned
<1>1. Init => CommitmentsWereSigned
  BY DEF Init, CommitmentsWereSigned
<1>2. TypeOK /\ CommitmentsWereSigned /\ [Next]_vars => CommitmentsWereSigned'
  BY SignedStep
<1>3. CommitmentsWereSigned => AnchoredWereSigned
  BY DEF CommitmentsWereSigned, Signed, AnchoredWereSigned
<1> QED
  BY <1>1, <1>2, <1>3, TypeCorrect, PTL DEF Spec
=============================================================================
