------------------------- MODULE TenantBoundaryProofs -------------------------
(***************************************************************************)
(* Proofs about TenantBoundary for any keys, policies, accounts, processes *)
(* and operations: nobody configures a tenant alone, whatever is inserted  *)
(* crosses both boundaries, what is stored stays in order, and the tables  *)
(* are append-only logs.                                                   *)
(***************************************************************************)
EXTENDS TenantBoundary, FiniteSetTheorems, SequenceTheorems, TLAPS

-----------------------------------------------------------------------------
(* Operators *)

\* A finite set of numbers has a greatest.  Otherwise there would be a smallest
\* nonempty subset without one; but take an element out of it, and it is greater
\* than the greatest of the rest or not.
LEMMA GreatestExists ==
    ASSUME NEW S, IsFiniteSet(S), S # {}, S \subseteq Int
    PROVE  \E x \in S : \A y \in S : x >= y
<1> DEFINE Greatest(U) == \E x \in U : \A y \in U : x >= y
           Without == {U \in SUBSET S : U # {} /\ ~Greatest(U)}
<1>1. SUFFICES ASSUME ~Greatest(S) PROVE FALSE
  OBVIOUS
<1>2. FiniteSubsetsOf(S) = SUBSET S
  BY FS_FiniteSubsetsOfFinite
<1>3. IsWellFoundedOn(StrictSubsetOrdering(S), SUBSET S)
  BY <1>2, FS_StrictSubsetOrderingWellFounded
<1>4. Without \subseteq SUBSET S /\ Without # {}
  BY <1>1
<1>5. \E U \in Without : \A V \in Without : <<V, U>> \notin StrictSubsetOrdering(S)
  <2> HIDE DEF Without
  <2> QED
    BY <1>3, <1>4, WFMin
<1>6. PICK U \in Without : \A V \in Without : <<V, U>> \notin StrictSubsetOrdering(S)
  BY <1>5
<1>7. PICK x \in U : TRUE
  BY <1>6
<1>8. U \ {x} \notin Without
  <2>1. SUFFICES ASSUME U \ {x} \in Without PROVE FALSE
    OBVIOUS
  <2>2. <<U \ {x}, U>> \in StrictSubsetOrdering(S)
    BY <1>4, <1>6, <1>7 DEF StrictSubsetOrdering
  <2> QED
    BY <1>6, <2>1, <2>2
<1>9. CASE U \ {x} = {}
  <2>1. U = {x} /\ x \in Int
    BY <1>6, <1>7, <1>9
  <2> QED
    BY <1>6, <2>1
<1>10. CASE U \ {x} # {}
  <2>1. PICK m \in U \ {x} : \A y \in U \ {x} : m >= y
    BY <1>6, <1>8, <1>10
  <2>2. m \in Int /\ x \in Int /\ U \subseteq Int
    BY <1>6, <1>7
  <2>3. CASE m >= x
    BY <1>6, <2>1, <2>2, <2>3
  <2>4. CASE x >= m
    <3>1. \A y \in U : x >= y
      BY <2>1, <2>2, <2>4
    <3> QED
      BY <1>6, <1>7, <3>1
  <2> QED
    BY <2>2, <2>3, <2>4
<1> QED
  BY <1>9, <1>10

\* The revision after those that are stored is a positive number.
LEMMA NextRevisionType ==
    ASSUME NEW S \in SUBSET Row, IsFiniteSet(S)
    PROVE  greatest_plus_one(S) \in Nat \ {0}
<1> DEFINE Numbers == {r.number : r \in S}
           N == {0} \cup Numbers
           f == [r \in S |-> r.number]
<1>1. IsFiniteSet(Numbers)
  <2>1. f \in Surjection(S, Numbers)
    BY DEF Surjection
  <2> QED
    BY <2>1, FS_Surjection
<1>2. IsFiniteSet(N)
  <2>1. N = Numbers \cup {0}
    OBVIOUS
  <2> QED
    BY <1>1, <2>1, FS_AddElement
<1>3. N # {} /\ N \subseteq Nat /\ N \subseteq Int
  BY DEF Row
<1>4. \E x \in N : \A y \in N : x >= y
  <2> HIDE DEF N
  <2> QED
    BY <1>2, <1>3, GreatestExists
<1>5. Max(N) \in N
  BY <1>4 DEF Max
<1> QED
  BY <1>3, <1>5 DEF greatest_plus_one

\* Every package is the doing of two people with a valid key of either role.
LEMMA PackagesAreApproved ==
    ASSUME NEW package \in ApprovedPackages
    PROVE  ApprovedByTwo(package)
<1>1. PICK request \in Requests, as_of \in Times :
         package \in {[request |-> request, approvers |-> {pair[1].key_id, pair[2].key_id},
                       approved_at |-> as_of] : pair \in resolve_change_control(request, as_of)}
  BY DEF ApprovedPackages
<1>2. PICK pair \in resolve_change_control(request, as_of) :
         package = [request |-> request, approvers |-> {pair[1].key_id, pair[2].key_id},
                    approved_at |-> as_of]
  BY <1>1
<1>3. /\ pair[1] \in verified(request, as_of)
      /\ pair[2] \in verified(request, as_of)
      /\ independent(pair[1], pair[2])
  BY <1>2 DEF resolve_change_control
<1>4. \A s \in verified(request, as_of) : _verify_change_signature(s, request, as_of)
  BY DEF verified
<1>5. /\ request.requested_at <= as_of
      /\ as_of <= request.valid_until
  BY <1>3, <1>4 DEF _verify_change_signature
<1>6. \A s \in {pair[1], pair[2]} :
         /\ Bundle[s.key_id].subject = s.subject
         /\ Bundle[s.key_id].role = s.role
         /\ Bundle[s.key_id].status = "active"
         /\ Bundle[s.key_id].not_before <= as_of
         /\ as_of <= Bundle[s.key_id].not_after
  BY <1>3, <1>4 DEF _verify_change_signature
<1>7. /\ Bundle[pair[1].key_id].subject # Bundle[pair[2].key_id].subject
      /\ {Bundle[pair[1].key_id].role, Bundle[pair[2].key_id].role} = _CHANGE_ROLES
  BY <1>3, <1>6 DEF independent
<1>8. \A k \in {pair[1].key_id, pair[2].key_id} :
         /\ Bundle[k].status = "active"
         /\ Bundle[k].not_before <= as_of
         /\ as_of <= Bundle[k].not_after
  BY <1>6
<1> QED
  BY <1>2, <1>5, <1>7, <1>8 DEF ApprovedByTwo

\* A session acts in an institution of some context.
LEMMA SessionType ==
    ASSUME NEW session \in AuthorizedTenantSession
    PROVE  session.institution_id \in Institutions
<1>1. PICK v \in Verifications, policy \in Policies, context \in Contexts, as_of \in Times :
         session \in authorize_tenant_route(v, policy, context, as_of)
  BY DEF AuthorizedTenantSession, Authorizations
<1>2. session.institution_id = context.institution_id
  BY <1>1 DEF authorize_tenant_route
<1> QED
  BY <1>2 DEF Institutions

-----------------------------------------------------------------------------
(* The inductive invariant *)

\* Only what the database would store is finite.
Finite ==
    /\ IsFiniteSet(rows)
    /\ \A p \in Processes : transactions[p] # NONE => IsFiniteSet(transactions[p].inserted)

\* A mapping is that of its account.
MappingsAreOwn ==
    \A a \in Accounts : mappings[a] # NONE => mappings[a].mapping.service_role = a

\* Who is connected for writing has a session that may write.
WritersMayWrite ==
    \A p \in Processes : connections[p] # NONE /\ connections[p].access = "write" =>
       "store_write" \in sessions[p].capabilities

RowsOf(institution) == {r \in Row : r.institution = institution}

\* Transactions are those of connections for writing, and what they will insert is of
\* the institution of the session.
TransactionsAreOwn ==
    \A p \in Processes : transactions[p] # NONE =>
       /\ connections[p].access = "write"
       /\ transactions[p].pending \in Seq(RowsOf(sessions[p].institution_id))

BoundaryInv == TypeOK /\ Finite /\ MappingsAreOwn /\ WritersMayWrite /\ TransactionsAreOwn

LEMMA InitInv == Init => BoundaryInv
<1> SUFFICES ASSUME Init PROVE BoundaryInv
  OBVIOUS
<1>1. TypeOK
  BY DEF Init, TypeOK
<1>2. Finite
  BY FS_EmptySet DEF Init, Finite
<1>3. MappingsAreOwn /\ WritersMayWrite /\ TransactionsAreOwn
  BY DEF Init, MappingsAreOwn, WritersMayWrite, TransactionsAreOwn
<1> QED
  BY <1>1, <1>2, <1>3 DEF BoundaryInv

-----------------------------------------------------------------------------
(* Configuration *)

LEMMA PackageStep ==
    ASSUME BoundaryInv, NEW package \in ApprovedPackages, approved_change_package(package)
    PROVE  BoundaryInv'
<1>1. TypeOK'
  BY DEF approved_change_package, BoundaryInv, TypeOK
<1>2. (Finite /\ MappingsAreOwn /\ WritersMayWrite /\ TransactionsAreOwn)'
  BY DEF approved_change_package, BoundaryInv, Finite, MappingsAreOwn, WritersMayWrite,
         TransactionsAreOwn
<1> QED
  BY <1>1, <1>2 DEF BoundaryInv

LEMMA RegisterStep ==
    ASSUME BoundaryInv, NEW a \in Accounts, NEW i \in Institutions, NEW access \in AccessModes,
           register_service_account(a, i, access)
    PROVE  BoundaryInv'
<1>1. mapping(a, i, access) \in Mapping /\ mapping(a, i, access).service_role = a
  BY DEF mapping, Mapping
<1>2. TypeOK'
  BY <1>1 DEF register_service_account, BoundaryInv, TypeOK, group_role
<1>3. MappingsAreOwn'
  BY <1>1 DEF register_service_account, BoundaryInv, TypeOK, MappingsAreOwn
<1>4. (Finite /\ WritersMayWrite /\ TransactionsAreOwn)'
  BY DEF register_service_account, BoundaryInv, Finite, WritersMayWrite, TransactionsAreOwn
<1> QED
  BY <1>2, <1>3, <1>4 DEF BoundaryInv

LEMMA DisableStep ==
    ASSUME BoundaryInv, NEW a \in Accounts, NEW i \in Institutions,
           disable_service_account(a, i)
    PROVE  BoundaryInv'
<1>1. TypeOK'
  BY DEF disable_service_account, BoundaryInv, TypeOK
<1>2. MappingsAreOwn'
  BY DEF disable_service_account, BoundaryInv, TypeOK, MappingsAreOwn
<1>3. (Finite /\ WritersMayWrite /\ TransactionsAreOwn)'
  BY DEF disable_service_account, BoundaryInv, Finite, WritersMayWrite, TransactionsAreOwn
<1> QED
  BY <1>1, <1>2, <1>3 DEF BoundaryInv

LEMMA CommandStep ==
    ASSUME BoundaryInv, NEW session \in AuthorizedTenantSession,
           run_tenant_auth_command(session)
    PROVE  BoundaryInv'
<1>1. TypeOK'
  BY DEF run_tenant_auth_command, BoundaryInv, TypeOK
<1>2. (Finite /\ MappingsAreOwn /\ WritersMayWrite /\ TransactionsAreOwn)'
  BY DEF run_tenant_auth_command, BoundaryInv, Finite, MappingsAreOwn, WritersMayWrite,
         TransactionsAreOwn
<1> QED
  BY <1>1, <1>2 DEF BoundaryInv

-----------------------------------------------------------------------------
(* Sessions and connections *)

\* A session is replaced while nothing is connected.
LEMMA SessionStep ==
    ASSUME BoundaryInv, NEW p \in Processes, NEW session \in AuthorizedTenantSession,
           create_session(p, session)
    PROVE  BoundaryInv'
<1>1. connections[p] = NONE /\ transactions[p] = NONE
  BY DEF create_session, BoundaryInv, TypeOK
<1>2. sessions' = [sessions EXCEPT ![p] = session]
  BY DEF create_session
<1>3. TypeOK'
  BY <1>1, <1>2 DEF create_session, configuration, BoundaryInv, TypeOK
<1>4. (Finite /\ MappingsAreOwn)'
  BY DEF create_session, configuration, BoundaryInv, Finite, MappingsAreOwn
<1>5. \A q \in Processes : q # p => sessions'[q] = sessions[q]
  BY <1>2 DEF BoundaryInv, TypeOK
<1>6. WritersMayWrite' /\ TransactionsAreOwn'
  BY <1>1, <1>5 DEF create_session, BoundaryInv, WritersMayWrite, TransactionsAreOwn
<1> QED
  BY <1>3, <1>4, <1>6 DEF BoundaryInv

LEMMA ConnectStep ==
    ASSUME BoundaryInv, NEW p \in Processes, NEW a \in Accounts, NEW access \in AccessModes,
           connect(p, a, access)
    PROVE  BoundaryInv'
<1>1. connections[p] = NONE /\ transactions[p] = NONE
  BY DEF connect, BoundaryInv, TypeOK
<1>2. connections' = [connections EXCEPT ![p] =
                        [account |-> a, access |-> access, verified |-> FALSE]]
  BY DEF connect
<1>3. TypeOK'
  BY <1>1, <1>2 DEF connect, configuration, BoundaryInv, TypeOK
<1>4. (Finite /\ MappingsAreOwn)'
  BY DEF connect, configuration, BoundaryInv, Finite, MappingsAreOwn
<1>5. /\ connections'[p].access = access
      /\ \A q \in Processes : q # p => connections'[q] = connections[q]
  BY <1>2 DEF BoundaryInv, TypeOK
<1>6. access = "write" => "store_write" \in sessions[p].capabilities
  BY DEF connect, require
<1>7. WritersMayWrite'
  BY <1>5, <1>6 DEF connect, BoundaryInv, WritersMayWrite
<1>8. TransactionsAreOwn'
  BY <1>1, <1>5 DEF connect, BoundaryInv, TransactionsAreOwn
<1> QED
  BY <1>3, <1>4, <1>7, <1>8 DEF BoundaryInv

\* Only a connection without a transaction can still be refused.
LEMMA VerifyStep ==
    ASSUME BoundaryInv, NEW p \in Processes, verify(p)
    PROVE  BoundaryInv'
<1>1. connections[p] # NONE /\ transactions[p] = NONE
  BY DEF verify, BoundaryInv, TypeOK
<1>2. \/ connections' = [connections EXCEPT ![p].verified = TRUE]
      \/ connections' = [connections EXCEPT ![p] = NONE]
  BY DEF verify
<1>3. connections[p] \in [account: Accounts, access: AccessModes, verified: BOOLEAN]
  BY <1>1 DEF BoundaryInv, TypeOK
<1>4. TypeOK'
  BY <1>1, <1>2, <1>3 DEF verify, configuration, BoundaryInv, TypeOK
<1>5. (Finite /\ MappingsAreOwn)'
  BY DEF verify, configuration, BoundaryInv, Finite, MappingsAreOwn
<1>6. /\ connections'[p] # NONE => connections'[p].access = connections[p].access
      /\ \A q \in Processes : q # p => connections'[q] = connections[q]
  BY <1>2, <1>3 DEF BoundaryInv, TypeOK
<1>7. WritersMayWrite'
  BY <1>1, <1>6 DEF verify, BoundaryInv, WritersMayWrite
<1>8. TransactionsAreOwn'
  BY <1>1, <1>6 DEF verify, BoundaryInv, TransactionsAreOwn
<1> QED
  BY <1>4, <1>5, <1>7, <1>8 DEF BoundaryInv

LEMMA CloseStep ==
    ASSUME BoundaryInv, NEW p \in Processes, close(p)
    PROVE  BoundaryInv'
<1>1. /\ connections' = [connections EXCEPT ![p] = NONE]
      /\ transactions' = [transactions EXCEPT ![p] = NONE]
  BY DEF close
<1>2. TypeOK'
  BY <1>1 DEF close, configuration, BoundaryInv, TypeOK
<1>3. /\ connections'[p] = NONE /\ transactions'[p] = NONE
      /\ \A q \in Processes : q # p =>
            connections'[q] = connections[q] /\ transactions'[q] = transactions[q]
  BY <1>1 DEF BoundaryInv, TypeOK
<1>4. (Finite /\ MappingsAreOwn)'
  BY <1>3 DEF close, configuration, BoundaryInv, Finite, MappingsAreOwn
<1>5. WritersMayWrite' /\ TransactionsAreOwn'
  BY <1>3 DEF close, BoundaryInv, WritersMayWrite, TransactionsAreOwn
<1> QED
  BY <1>2, <1>4, <1>5 DEF BoundaryInv

-----------------------------------------------------------------------------
(* Transactions *)

\* The transaction of one process becomes another one, or none.
LEMMA TransactionStep ==
    ASSUME BoundaryInv, NEW p \in Processes, NEW t \in {NONE} \cup Transaction,
           transactions' = [transactions EXCEPT ![p] = t],
           UNCHANGED <<configuration, sessions, connections, rows>>,
           t # NONE =>
              /\ connections[p] # NONE /\ connections[p].verified
              /\ connections[p].access = "write"
              /\ t.pending \in Seq(RowsOf(sessions[p].institution_id))
              /\ IsFiniteSet(t.inserted)
    PROVE  BoundaryInv'
<1>1. /\ transactions'[p] = t
      /\ \A q \in Processes : q # p => transactions'[q] = transactions[q]
  BY DEF BoundaryInv, TypeOK
<1>2. TypeOK'
  BY <1>1 DEF configuration, BoundaryInv, TypeOK
<1>3. Finite'
  BY <1>1 DEF BoundaryInv, Finite
<1>4. (MappingsAreOwn /\ WritersMayWrite)'
  BY DEF configuration, BoundaryInv, MappingsAreOwn, WritersMayWrite
<1>5. TransactionsAreOwn'
  BY <1>1 DEF BoundaryInv, TransactionsAreOwn
<1> QED
  BY <1>2, <1>3, <1>4, <1>5 DEF BoundaryInv

LEMMA BeginStep ==
    ASSUME BoundaryInv, NEW p \in Processes, NEW op \in Operations, begin(p, op)
    PROVE  BoundaryInv'
<1> DEFINE t == [op |-> op, phase |-> "locked", pending |-> <<>>, inserted |-> {}]
<1>1. t \in Transaction
  BY DEF Transaction
<1>2. IsFiniteSet(t.inserted) /\ t.pending \in Seq(RowsOf(sessions[p].institution_id))
  BY FS_EmptySet
<1> QED
  BY <1>1, <1>2, TransactionStep DEF begin

LEMMA EndStep ==
    ASSUME BoundaryInv, NEW p \in Processes, end(p)
    PROVE  BoundaryInv'
BY TransactionStep DEF end

\* What holds of an open transaction.
LEMMA OpenTransaction ==
    ASSUME BoundaryInv, NEW p \in Processes, transactions[p] # NONE
    PROVE  /\ transactions[p] \in Transaction
           /\ connections[p] # NONE /\ connections[p].verified
           /\ connections[p] \in [account: Accounts, access: AccessModes, verified: BOOLEAN]
           /\ connections[p].access = "write"
           /\ transactions[p].pending \in Seq(RowsOf(sessions[p].institution_id))
           /\ IsFiniteSet(transactions[p].inserted)
           /\ sessions[p] \in AuthorizedTenantSession
BY DEF BoundaryInv, TypeOK, Finite, TransactionsAreOwn

LEMMA GoOnStep ==
    ASSUME BoundaryInv, NEW p \in Processes, transactions[p] # NONE,
           NEW phase \in {"locked", "absent", "insert"},
           NEW pending \in Seq(RowsOf(self_institution(p))),
           go_on(p, phase, pending)
    PROVE  BoundaryInv'
<1> DEFINE t == [transactions[p] EXCEPT !.phase = phase, !.pending = pending]
<1>1. pending \in Seq(Row)
  BY SeqMonotonic, RowsOf(self_institution(p)) \subseteq Row DEF RowsOf
<1>2. t \in Transaction /\ t.pending = pending /\ t.inserted = transactions[p].inserted
  BY <1>1, OpenTransaction DEF Transaction
<1>3. transactions' = [transactions EXCEPT ![p] = t]
  BY DEF go_on, BoundaryInv, TypeOK
<1>4. /\ connections[p] # NONE /\ connections[p].verified
      /\ connections[p].access = "write"
      /\ t.pending \in Seq(RowsOf(sessions[p].institution_id))
      /\ IsFiniteSet(t.inserted)
  BY <1>2, OpenTransaction DEF self_institution
<1>5. UNCHANGED <<configuration, sessions, connections, rows>>
  BY DEF go_on
<1> QED
  <2> HIDE DEF t
  <2> QED
    BY <1>2, <1>3, <1>4, <1>5, TransactionStep

LEMMA RowType ==
    ASSUME BoundaryInv, NEW p \in Processes, transactions[p] # NONE,
           NEW number \in Nat \ {0}, NEW content \in Contents
    PROVE  row(p, number, content) \in RowsOf(self_institution(p))
<1>1. transactions[p].op \in Operations
  BY OpenTransaction DEF Transaction
<1>2. self_institution(p) \in Institutions
  BY OpenTransaction, SessionType DEF self_institution
<1> QED
  BY <1>1, <1>2, BoundaryAssumptions DEF row, RowsOf, Row

LEMMA EmptyRange ==
    ASSUME NEW m \in Int, m \notin Nat
    PROVE  1..m = 1..0
<1>1. m < 0
  OBVIOUS
<1>2. \A x \in Int : ~(1 <= x /\ x <= m) /\ ~(1 <= x /\ x <= 0)
  BY <1>1
<1>3. \A x \in 1..m : FALSE
  BY <1>2
<1>4. \A x \in 1..0 : FALSE
  BY <1>2
<1> QED
  BY <1>3, <1>4, Zenon

LEMMA EventsType ==
    ASSUME BoundaryInv, NEW p \in Processes, transactions[p] # NONE, NEW n \in Nat,
           transactions[p].op.table = "audit_events"
    PROVE  events_after(p, n) \in Seq(RowsOf(self_institution(p)))
<1> DEFINE op == transactions[p].op
           chain == op.content
           e(k) == row(p, n + k, SubSeq(chain, 1, n + k))
<1>1. op \in Operations /\ Len(chain) \in Nat
  BY OpenTransaction, BoundaryAssumptions DEF Transaction
<1>2. \A k \in 1..(Len(chain) - n) : e(k) \in RowsOf(self_institution(p))
  <2>1. SUFFICES ASSUME NEW k \in 1..(Len(chain) - n)
                 PROVE  e(k) \in RowsOf(self_institution(p))
    OBVIOUS
  <2>2. n + k \in 1..Len(chain) /\ n + k \in Nat \ {0}
    BY <1>1
  <2>3. SubSeq(chain, 1, n + k) \in Contents
    BY <1>1, <2>2 DEF Contents
  <2> QED
    BY <2>2, <2>3, RowType
<1>3. events_after(p, n) = [k \in 1..(Len(chain) - n) |-> e(k)]
  BY DEF events_after
<1>4. CASE Len(chain) - n \in Nat
  <2> HIDE DEF e
  <2> QED
    BY <1>2, <1>3, <1>4, IsASeq
<1>5. CASE Len(chain) - n \notin Nat
  <2>1. Len(chain) - n \in Int
    <3>1. \A length \in Nat : length - n \in Int
      OBVIOUS
    <3> QED
      BY <1>1, <3>1, Zenon
  <2>2. 1..(Len(chain) - n) = 1..0
    BY <1>5, <2>1, EmptyRange, Zenon
  <2>3. events_after(p, n) = [k \in 1..0 |-> e(k)]
    BY <1>3, <2>2, Zenon
  <2>4. events_after(p, n) \in [1..0 -> RowsOf(self_institution(p))]
    BY <2>3
  <2> QED
    BY <2>4, SeqDef, 0 \in Nat
<1> QED
  BY <1>4, <1>5

\* What a process sees of the tables is finite and has types.
LEMMA VisibleType ==
    ASSUME BoundaryInv, NEW p \in Processes
    PROVE  visible(p) \subseteq Row /\ IsFiniteSet(visible(p))
<1>1. visible(p) \subseteq rows
  BY DEF visible
<1> QED
  BY <1>1, FS_Subset DEF BoundaryInv, TypeOK, Finite

LEMMA SelectStep ==
    ASSUME BoundaryInv, NEW p \in Processes, select(p)
    PROVE  BoundaryInv'
<1> DEFINE op == transactions[p].op
<1>1. transactions[p] # NONE /\ op \in Operations
  BY OpenTransaction DEF select, Transaction
<1>2. CASE end(p)
  BY <1>2, EndStep
<1>3. CASE go_on(p, "absent", <<>>)
  BY <1>1, <1>3, GoOnStep, <<>> \in Seq(RowsOf(self_institution(p)))
<1>4. CASE /\ op.table = "audit_events"
           /\ go_on(p, "insert", events_after(p, Cardinality(visible(p))))
  <2>1. Cardinality(visible(p)) \in Nat
    BY VisibleType, FS_CardinalityType
  <2> QED
    BY <1>1, <1>4, <2>1, EventsType, GoOnStep
<1>5. CASE /\ op.table = "idempotency_records"
           /\ go_on(p, "insert", <<row(p, 1, op.content)>>)
  <2>1. row(p, 1, op.content) \in RowsOf(self_institution(p))
    BY <1>1, RowType DEF Contents
  <2>2. <<row(p, 1, op.content)>> \in Seq(RowsOf(self_institution(p)))
    BY <2>1
  <2> QED
    BY <1>1, <1>5, <2>2, GoOnStep
<1> QED
  BY <1>2, <1>3, <1>4, <1>5 DEF select

LEMMA NextRevisionStep ==
    ASSUME BoundaryInv, NEW p \in Processes, next_revision(p)
    PROVE  BoundaryInv'
<1> DEFINE op == transactions[p].op
           revision == row(p, greatest_plus_one(visible(p)), op.content)
<1>1. transactions[p] # NONE /\ op \in Operations
  BY OpenTransaction DEF next_revision, Transaction
<1>2. CASE end(p)
  BY <1>2, EndStep
<1>3. CASE go_on(p, "insert", <<revision>>)
  <2>1. greatest_plus_one(visible(p)) \in Nat \ {0}
    BY VisibleType, NextRevisionType
  <2>2. revision \in RowsOf(self_institution(p))
    BY <1>1, <2>1, RowType DEF Contents
  <2>3. <<revision>> \in Seq(RowsOf(self_institution(p)))
    BY <2>2
  <2> QED
    BY <1>1, <1>3, <2>3, GoOnStep
<1> QED
  BY <1>2, <1>3 DEF next_revision

LEMMA InsertStep ==
    ASSUME BoundaryInv, NEW p \in Processes, insert(p)
    PROVE  BoundaryInv'
<1> DEFINE r == Head(transactions[p].pending)
           t == [transactions[p] EXCEPT !.pending = Tail(transactions[p].pending),
                                        !.inserted = transactions[p].inserted \cup {r}]
           own == RowsOf(sessions[p].institution_id)
<1>1. transactions[p] # NONE /\ transactions[p].pending # <<>>
  BY DEF insert
<1>2. UNCHANGED <<configuration, sessions, connections, rows>>
  BY DEF insert
<1>3. CASE transactions' = [transactions EXCEPT ![p] = NONE]
  BY <1>2, <1>3, TransactionStep
<1>4. CASE transactions' = [transactions EXCEPT ![p] = t]
  <2>1. r \in own /\ Tail(transactions[p].pending) \in Seq(own) /\ own \subseteq Row
    BY <1>1, OpenTransaction, HeadTailProperties DEF RowsOf
  <2>2. Tail(transactions[p].pending) \in Seq(Row)
    BY <2>1, SeqMonotonic
  <2>3. t \in Transaction /\ t.pending \in Seq(own)
    BY <1>1, <2>1, <2>2, OpenTransaction DEF Transaction
  <2>4. IsFiniteSet(t.inserted)
    BY <1>1, OpenTransaction, FS_AddElement DEF Transaction
  <2>5. /\ connections[p] # NONE /\ connections[p].verified
        /\ connections[p].access = "write"
    BY <1>1, OpenTransaction
  <2> HIDE DEF t
  <2> QED
    BY <1>2, <1>4, <2>3, <2>4, <2>5, TransactionStep
<1>5. \/ transactions' = [transactions EXCEPT ![p] = NONE]
      \/ transactions' = [transactions EXCEPT ![p] = t]
  BY DEF insert, BoundaryInv, TypeOK
<1> QED
  BY <1>3, <1>4, <1>5

LEMMA CommitStep ==
    ASSUME BoundaryInv, NEW p \in Processes, commit(p)
    PROVE  BoundaryInv'
<1>1. transactions[p] # NONE
  BY DEF commit
<1>2. /\ rows' = rows \cup transactions[p].inserted
      /\ transactions' = [transactions EXCEPT ![p] = NONE]
      /\ UNCHANGED <<configuration, sessions, connections>>
  BY DEF commit
<1>3. transactions[p].inserted \subseteq Row /\ IsFiniteSet(transactions[p].inserted)
  BY <1>1, OpenTransaction DEF Transaction
<1>4. TypeOK'
  BY <1>2, <1>3 DEF configuration, BoundaryInv, TypeOK
<1>5. Finite'
  <2>1. IsFiniteSet(rows')
    BY <1>2, <1>3, FS_Union DEF BoundaryInv, Finite
  <2> QED
    BY <1>2, <2>1 DEF BoundaryInv, TypeOK, Finite
<1>6. (MappingsAreOwn /\ WritersMayWrite)'
  BY <1>2 DEF configuration, BoundaryInv, MappingsAreOwn, WritersMayWrite
<1>7. TransactionsAreOwn'
  BY <1>2 DEF BoundaryInv, TypeOK, TransactionsAreOwn
<1> QED
  BY <1>4, <1>5, <1>6, <1>7 DEF BoundaryInv

-----------------------------------------------------------------------------
(* The invariant holds *)

LEMMA NextInv == BoundaryInv /\ [Next]_vars => BoundaryInv'
<1> SUFFICES ASSUME BoundaryInv, [Next]_vars PROVE BoundaryInv'
  OBVIOUS
<1>1. CASE Configure
  BY <1>1, PackageStep, RegisterStep, DisableStep, CommandStep DEF Configure
<1>2. ASSUME NEW p \in Processes, Connect(p) PROVE BoundaryInv'
  BY <1>2, SessionStep, ConnectStep, VerifyStep, CloseStep DEF Connect
<1>3. ASSUME NEW p \in Processes, Store(p) PROVE BoundaryInv'
  BY <1>3, BeginStep, SelectStep, NextRevisionStep, InsertStep, CommitStep DEF Store
<1>4. CASE UNCHANGED vars
  BY <1>4 DEF vars, configuration, BoundaryInv, TypeOK, Finite, MappingsAreOwn,
              WritersMayWrite, TransactionsAreOwn
<1> QED
  BY <1>1, <1>2, <1>3, <1>4 DEF Next

LEMMA Invariance == Spec => []BoundaryInv
<1>1. BoundaryInv /\ [Next]_vars => BoundaryInv'
  BY NextInv
<1> QED
  BY InitInv, <1>1, PTL DEF Spec

\* TypeOK: what is configured, connected and stored keeps its types; transactions are
\* those of verified connections, and connections those of sessions.
THEOREM TypeCorrect == Spec => []TypeOK
<1>1. BoundaryInv => TypeOK
  BY DEF BoundaryInv
<1> QED
  BY <1>1, Invariance, PTL

-----------------------------------------------------------------------------
(* Nobody configures a tenant alone *)

\* Packages are never forgotten.
LEMMA ConfiguredByTwoStep ==
    ASSUME BoundaryInv, NobodyConfiguresAlone, [Next]_vars
    PROVE  NobodyConfiguresAlone'
<1>1. \A package \in packages : package \in ApprovedPackages /\ ApprovedByTwo(package)
  BY PackagesAreApproved DEF BoundaryInv, TypeOK
<1>2. packages \subseteq packages'
  BY DEF Next, Configure, Connect, Store, vars, configuration, approved_change_package,
         register_service_account, disable_service_account, run_tenant_auth_command,
         create_session, connect, verify,
         close, begin, select, next_revision, insert, commit, end, go_on
<1>3. ASSUME NEW a \in Accounts, is_mapped(a)'
      PROVE  \E package \in packages :
                package.request.after = mappings'[a].mapping /\ ApprovedByTwo(package)
  <2>1. CASE mappings'[a] = mappings[a]
    BY <1>3, <2>1 DEF is_mapped, NobodyConfiguresAlone
  <2>2. ASSUME NEW b \in Accounts, NEW i \in Institutions, NEW access \in AccessModes,
               register_service_account(b, i, access)
        PROVE  \E package \in packages :
                  package.request.after = mappings'[a].mapping /\ ApprovedByTwo(package)
    <3>1. CASE a = b
      <4>1. mappings'[a].mapping = mapping(a, i, access)
        BY <2>2, <3>1 DEF register_service_account, BoundaryInv, TypeOK
      <4> QED
        BY <1>1, <2>2, <3>1, <4>1
           DEF register_service_account, verify_postgres_mapping_change_package
    <3>2. CASE a # b
      BY <2>1, <2>2, <3>2 DEF register_service_account, BoundaryInv, TypeOK
    <3> QED
      BY <3>1, <3>2
  <2>3. ASSUME NEW b \in Accounts, NEW i \in Institutions, disable_service_account(b, i)
        PROVE  \E package \in packages :
                  package.request.after = mappings'[a].mapping /\ ApprovedByTwo(package)
    <3>1. CASE a = b
      <4>1. mappings[a] \in {NONE} \cup [mapping: Mapping, active: BOOLEAN]
        BY DEF BoundaryInv, TypeOK
      <4>2. mappings'[a] = IF mappings[a] = NONE THEN NONE
                           ELSE [mappings[a] EXCEPT !.active = FALSE]
        BY <2>3, <3>1 DEF disable_service_account, BoundaryInv, TypeOK
      <4> QED
        BY <1>3, <4>1, <4>2 DEF is_mapped
    <3>2. CASE a # b
      BY <2>1, <2>3, <3>2 DEF disable_service_account, BoundaryInv, TypeOK
    <3> QED
      BY <3>1, <3>2
  <2>4. CASE UNCHANGED mappings
    BY <2>1, <2>4
  <2>5. \/ \E b \in Accounts, i \in Institutions, access \in AccessModes :
              register_service_account(b, i, access)
        \/ \E b \in Accounts, i \in Institutions : disable_service_account(b, i)
        \/ UNCHANGED mappings
    BY DEF Next, Configure, Connect, Store, vars, configuration, approved_change_package,
           create_session, run_tenant_auth_command, connect, verify, close, begin, select,
           next_revision, insert, commit, end, go_on
  <2> QED
    BY <2>2, <2>3, <2>4, <2>5
<1>4. ASSUME NEW authorization \in vouched'
      PROVE  \E package \in packages :
                /\ package.request.after = authorization.policy
                /\ package.request.context = authorization.context
                /\ ApprovedByTwo(package)
  <2>1. CASE authorization \in vouched
    BY <2>1 DEF NobodyConfiguresAlone
  <2>2. CASE run_tenant_auth_command(authorization)
    BY <1>1, <2>2 DEF run_tenant_auth_command, verify_tenant_policy_change_package
  <2>3. \/ \E session \in AuthorizedTenantSession : run_tenant_auth_command(session)
        \/ UNCHANGED vouched
    BY DEF Next, Configure, Connect, Store, vars, configuration, approved_change_package,
           register_service_account, disable_service_account, create_session, connect,
           verify, close, begin, select, next_revision, insert, commit, end, go_on
  <2>4. authorization \in vouched \/ run_tenant_auth_command(authorization)
    BY <1>4, <2>3 DEF run_tenant_auth_command
  <2> QED
    BY <2>1, <2>2, <2>4
<1> QED
  BY <1>2, <1>3, <1>4 DEF NobodyConfiguresAlone, is_mapped

\* NobodyConfiguresAlone: whatever keys one person holds, every mapping in force and the
\* policy that any command vouched for were approved by two people who held valid keys.
THEOREM ConfiguredByTwo == Spec => []NobodyConfiguresAlone
<1>1. Init => NobodyConfiguresAlone
  BY DEF Init, NobodyConfiguresAlone, is_mapped
<1>2. BoundaryInv /\ NobodyConfiguresAlone /\ [Next]_vars => NobodyConfiguresAlone'
  BY ConfiguredByTwoStep
<1> QED
  BY <1>1, <1>2, Invariance, PTL DEF Spec

-----------------------------------------------------------------------------
(* Writes cross both boundaries *)

Crosses(p, r) ==
    /\ r.institution = sessions[p].institution_id
    /\ "store_write" \in sessions[p].capabilities
    /\ mappings[connections[p].account] =
          [mapping |-> mapping(connections[p].account, r.institution, "write"), active |-> TRUE]

\* The policy of the table, with what is known of an open transaction.
LEMMA InsertCrosses ==
    ASSUME BoundaryInv, NEW p \in Processes, insert(p),
           NEW r \in inserted(transactions'[p]) \ inserted(transactions[p])
    PROVE  Crosses(p, r)
<1> DEFINE head == Head(transactions[p].pending)
           account == connections[p].account
           own == RowsOf(sessions[p].institution_id)
<1>1. transactions[p] # NONE /\ transactions[p].pending # <<>>
  BY DEF insert
<1>2. r = head /\ may_insert(p, head)
  <2>1. CASE transactions' = [transactions EXCEPT ![p] = NONE]
    BY <2>1 DEF inserted, BoundaryInv, TypeOK
  <2>2. CASE /\ may_insert(p, head)
             /\ transactions' = [transactions EXCEPT ![p].pending = Tail(@),
                                                     ![p].inserted = @ \cup {head}]
    <3>1. transactions'[p].inserted = transactions[p].inserted \cup {head}
      BY <1>1, <2>2, OpenTransaction DEF BoundaryInv, TypeOK, Transaction
    <3> QED
      BY <1>1, <2>2, <3>1 DEF inserted
  <2> QED
    BY <2>1, <2>2 DEF insert
<1>3. r \in own
  BY <1>1, <1>2, OpenTransaction, HeadTailProperties
<1>4. r.institution = sessions[p].institution_id
  BY <1>3 DEF RowsOf
<1>5. "store_write" \in sessions[p].capabilities
  BY <1>1, OpenTransaction DEF BoundaryInv, WritersMayWrite
<1>6. account \in Accounts
  BY <1>1, OpenTransaction
<1>7. /\ mappings[account] \in [mapping: Mapping, active: BOOLEAN]
      /\ mappings[account].active
      /\ mappings[account].mapping.service_role = account
      /\ mappings[account].mapping.institution_id = r.institution
      /\ mappings[account].mapping.access_mode = "write"
  BY <1>2, <1>6 DEF may_insert, is_mapped, current_institution, current_access_mode,
                    BoundaryInv, TypeOK, MappingsAreOwn
<1>8. mappings[account].mapping = mapping(account, r.institution, "write")
  BY <1>7 DEF Mapping, mapping
<1>9. mappings[account] =
         [mapping |-> mapping(account, r.institution, "write"), active |-> TRUE]
  BY <1>7, <1>8
<1> QED
  BY <1>4, <1>5, <1>9 DEF Crosses

\* No other step inserts.
LEMMA OnlyInsertInserts ==
    ASSUME BoundaryInv, [Next]_vars, NEW p \in Processes, ~insert(p)
    PROVE  inserted(transactions'[p]) \subseteq inserted(transactions[p])
<1>1. CASE transactions'[p] = transactions[p]
  BY <1>1
<1>2. CASE transactions'[p] = NONE
  BY <1>2 DEF inserted
<1>3. CASE /\ transactions[p] # NONE
           /\ transactions'[p].inserted = transactions[p].inserted
  BY <1>3 DEF inserted
<1>4. CASE Configure \/ UNCHANGED vars
  BY <1>1, <1>4 DEF Configure, vars, approved_change_package, register_service_account,
                    disable_service_account, run_tenant_auth_command
<1>5. ASSUME NEW q \in Processes, Connect(q)
      PROVE  inserted(transactions'[p]) \subseteq inserted(transactions[p])
  BY <1>1, <1>2, <1>5 DEF Connect, create_session, connect, verify, close, BoundaryInv, TypeOK
<1>6. ASSUME NEW q \in Processes, Store(q), q # p
      PROVE  inserted(transactions'[p]) \subseteq inserted(transactions[p])
  BY <1>1, <1>6 DEF Store, begin, select, next_revision, insert, commit, end, go_on,
                    BoundaryInv, TypeOK
<1>7. CASE Store(p)
  <2>1. CASE \E op \in Operations : begin(p, op)
    BY <2>1 DEF begin, inserted, BoundaryInv, TypeOK
  <2>2. ASSUME transactions[p] # NONE, NEW phase, NEW pending, go_on(p, phase, pending)
        PROVE  transactions'[p].inserted = transactions[p].inserted
    BY <2>2, OpenTransaction DEF go_on, BoundaryInv, TypeOK, Transaction
  <2>3. CASE end(p)
    BY <1>2, <2>3 DEF end, BoundaryInv, TypeOK
  <2>4. CASE select(p)
    BY <1>3, <2>2, <2>3, <2>4 DEF select
  <2>5. CASE next_revision(p)
    BY <1>3, <2>2, <2>3, <2>5 DEF next_revision
  <2>6. CASE commit(p)
    BY <1>2, <2>6 DEF commit, BoundaryInv, TypeOK
  <2> QED
    BY <1>7, <2>1, <2>4, <2>5, <2>6 DEF Store
<1> QED
  BY <1>4, <1>5, <1>6, <1>7 DEF Next

\* WritesCrossBothBoundaries: whatever operators do to mappings after a connection was
\* verified, what is inserted is of the session's institution, by a session that may
\* write, through an account that is mapped to that institution for writing.
THEOREM WritesCross == Spec => WritesCrossBothBoundaries
<1>1. ASSUME BoundaryInv, [Next]_vars, NEW p \in Processes,
             NEW r \in inserted(transactions'[p]) \ inserted(transactions[p])
      PROVE  Crosses(p, r)
  BY <1>1, InsertCrosses, OnlyInsertInserts
<1>2. BoundaryInv /\ [Next]_vars =>
         [\A p \in Processes :
             \A r \in inserted(transactions'[p]) \ inserted(transactions[p]) :
                /\ r.institution = sessions[p].institution_id
                /\ "store_write" \in sessions[p].capabilities
                /\ mappings[connections[p].account] =
                      [mapping |-> mapping(connections[p].account, r.institution, "write"),
                       active |-> TRUE]]_vars
  BY <1>1 DEF Crosses
<1> QED
  BY <1>2, Invariance, PTL DEF Spec, WritesCrossBothBoundaries

-----------------------------------------------------------------------------
(* The tables stay in order *)

\* Rows are numbered from 1 on.
Numbered(S, n) ==
    /\ {r.number : r \in S} = 1..n
    /\ \A r, s \in S : r.number = s.number => r = s

\* What a table says is consistent.
Consistent(table, S) ==
    \A r, s \in S : r # s =>
       /\ table = "engagement_snapshots" => r.content # s.content
       /\ table = "audit_events" /\ r.number < s.number =>
             r.content = SubSeq(s.content, 1, r.number)
       /\ table # "idempotency_records"

InOrder(table, S) == (\E n \in Nat : Numbered(S, n)) /\ Consistent(table, S)

TablesInOrder ==
    \A i \in Institutions, op \in Operations :
       InOrder(op.table, stored(i, op.table, op.object))

\* A row of the object the transaction has locked; an event is that of its chain.
OwnRow(t, i, r) ==
    /\ r.institution = i /\ r.table = t.op.table /\ r.object = t.op.object
    /\ r.number \in Nat \ {0}
    /\ t.op.table = "audit_events" =>
          /\ r.number <= Len(t.op.content)
          /\ r.content = SubSeq(t.op.content, 1, r.number)

\* Transaction t inserts what follows row number `base`, and has inserted m rows.
Following(t, base, m) ==
    /\ {r.number : r \in t.inserted} = (base + 1)..(base + m)
    /\ \A r, s \in t.inserted : r.number = s.number => r = s
    /\ \A k \in DOMAIN t.pending : t.pending[k].number = base + m + k
    /\ t.op.table # "audit_events" => m + Len(t.pending) = 1
    /\ t.op.table = "idempotency_records" => base = 0

\* Row number `base` is the last one that is stored; or row-level security hid the
\* table from the transaction, which then has not inserted anything yet.
Placed(t, S, base, m) ==
    \/ base = 0 /\ m = 0
    \/ /\ Numbered(S, base)
       /\ t.op.table = "audit_events" => is_prefix_of(S, t.op.content)
       /\ \A r \in t.inserted, s \in S : r.content # s.content

Orderly(t, i, S) ==
    /\ \A r \in t.inserted : OwnRow(t, i, r)
    /\ \A k \in DOMAIN t.pending : OwnRow(t, i, t.pending[k])
    /\ t.phase # "insert" => t.inserted = {} /\ t.pending = <<>>
    /\ t.phase = "absent" => t.op.table = "engagement_snapshots"
    /\ t.phase = "insert" =>
          \E base, m \in Nat : Following(t, base, m) /\ Placed(t, S, base, m)

own_rows(p) ==
    stored(self_institution(p), transactions[p].op.table, transactions[p].op.object)

TransactionsInOrder ==
    \A p \in Processes : transactions[p] # NONE =>
       Orderly(transactions[p], self_institution(p), own_rows(p))

\* No two transactions hold the same lock.
LocksAreHeld ==
    \A p, q \in Processes : p # q /\ transactions[p] # NONE /\ transactions[q] # NONE =>
       scope(p, transactions[p].op) # scope(q, transactions[q].op)

OrderInv == TablesInOrder /\ TransactionsInOrder /\ LocksAreHeld

LEMMA NumberedCardinality ==
    ASSUME NEW S, IsFiniteSet(S), NEW n \in Nat, Numbered(S, n)
    PROVE  Cardinality(S) = n
<1> DEFINE number == [r \in S |-> r.number]
<1>1. number \in [S -> 1..n]
  BY DEF Numbered
<1>2. number \in Surjection(S, 1..n)
  BY <1>1 DEF Numbered, Surjection
<1>3. number \in Injection(S, 1..n)
  BY <1>1 DEF Numbered, Injection, IsInjective
<1>4. Cardinality(1..n) = Cardinality(S)
  BY <1>2, <1>3, FS_Surjection
<1>5. Cardinality(1..n) = n
  BY FS_Interval
<1> QED
  BY <1>4, <1>5

LEMMA NextNumber ==
    ASSUME NEW S, NEW n \in Nat, Numbered(S, n)
    PROVE  greatest_plus_one(S) = n + 1
<1> DEFINE N == {0} \cup {r.number : r \in S}
<1>1. N = 0..n
  BY DEF Numbered
<1>2. Max(N) = n
  <2>1. n \in N /\ \A y \in N : n >= y
    BY <1>1
  <2>2. \A x \in N : (\A y \in N : x >= y) => x = n
    BY <1>1
  <2> HIDE DEF N
  <2> QED
    BY <2>1, <2>2 DEF Max
<1> QED
  BY <1>2 DEF greatest_plus_one

\* The beginning of a beginning of a chain.
LEMMA SubSeqTwice ==
    ASSUME NEW chain, NEW a \in Nat, NEW b \in Nat, a <= b
    PROVE  SubSeq(SubSeq(chain, 1, b), 1, a) = SubSeq(chain, 1, a)
<1> DEFINE S == {chain[i] : i \in 1..b}
           t == SubSeq(chain, 1, b)
           u == SubSeq(t, 1, a)
           v == SubSeq(chain, 1, a)
<1>1. \A i \in 1..b : chain[i] \in S
  OBVIOUS
<1>2. \A i \in 1..a : i \in 1..b
  OBVIOUS
<1>0. 1 \in Int /\ a \in Int /\ b \in Int /\ b - 1 + 1 = b /\ a - 1 + 1 = a
  OBVIOUS
<1> HIDE DEF S
<1>3. /\ t \in Seq(S)
      /\ Len(t) = b
      /\ \A i \in 1..b : t[i] = chain[i]
  <2>1. /\ t \in Seq(S)
        /\ Len(t) = IF 1 <= b THEN b - 1 + 1 ELSE 0
        /\ \A i \in 1..(b - 1 + 1) : t[i] = chain[1 + i - 1]
    BY <1>0, <1>1, SubSeqProperties
  <2> HIDE DEF t
  <2> QED
    BY <2>1
<1>4. /\ v \in Seq(S)
      /\ Len(v) = a
      /\ \A i \in 1..a : v[i] = chain[i]
  <2>1. /\ v \in Seq(S)
        /\ Len(v) = IF 1 <= a THEN a - 1 + 1 ELSE 0
        /\ \A i \in 1..(a - 1 + 1) : v[i] = chain[1 + i - 1]
    BY <1>0, <1>1, <1>2, SubSeqProperties
  <2> HIDE DEF v
  <2> QED
    BY <2>1
<1> HIDE DEF t
<1>5. /\ u \in Seq(S)
      /\ Len(u) = a
      /\ \A i \in 1..a : u[i] = t[i]
  BY <1>0, <1>2, <1>3
<1> HIDE DEF u, v
<1>6. \A i \in 1..a : u[i] = v[i]
  BY <1>2, <1>3, <1>4, <1>5
<1> QED
  BY <1>4, <1>5, <1>6, SeqEqual DEF u, v, t

\* Row-level security shows a transaction all rows of its object, or none.
LEMMA AllOrNothing ==
    ASSUME NEW p \in Processes
    PROVE  visible(p) = own_rows(p) \/ visible(p) = {}
BY DEF visible, own_rows, stored

LEMMA InitOrder == Init => OrderInv
<1> SUFFICES ASSUME Init PROVE OrderInv
  OBVIOUS
<1>1. \A i, table, object : stored(i, table, object) = {}
  BY DEF Init, stored
<1>2. \A table : InOrder(table, {})
  <2>1. Numbered({}, 0)
    BY DEF Numbered
  <2> QED
    BY <2>1 DEF InOrder, Consistent
<1>3. TablesInOrder
  BY <1>1, <1>2 DEF TablesInOrder
<1> QED
  BY <1>3 DEF Init, OrderInv, TransactionsInOrder, LocksAreHeld

\* Nothing changes for the tables when no session, transaction or row does.
LEMMA OrderStutter ==
    ASSUME OrderInv, UNCHANGED <<sessions, transactions, rows>>
    PROVE  OrderInv'
BY DEF OrderInv, TablesInOrder, TransactionsInOrder, LocksAreHeld, stored, own_rows,
       self_institution, scope

\* The transaction of one process becomes another one, or none.
LEMMA OrderTransactionStep ==
    ASSUME BoundaryInv, OrderInv, NEW p \in Processes, NEW t,
           transactions' = [transactions EXCEPT ![p] = t], UNCHANGED <<sessions, rows>>,
           t # NONE =>
              /\ Orderly(t, self_institution(p),
                         stored(self_institution(p), t.op.table, t.op.object))
              /\ \A q \in Processes : q # p /\ transactions[q] # NONE =>
                    scope(q, transactions[q].op) # scope(p, t.op)
    PROVE  OrderInv'
<1>1. /\ transactions'[p] = t
      /\ \A q \in Processes : q # p => transactions'[q] = transactions[q]
  BY DEF BoundaryInv, TypeOK
<1>2. TablesInOrder'
  BY DEF OrderInv, TablesInOrder, stored
<1>3. /\ \A q \in Processes : self_institution(q)' = self_institution(q)
      /\ \A i, table, object : stored(i, table, object)' = stored(i, table, object)
  BY DEF self_institution, stored
<1>4. TransactionsInOrder'
  <2> SUFFICES ASSUME NEW q \in Processes, transactions'[q] # NONE
               PROVE  Orderly(transactions'[q], self_institution(q)',
                              stored(self_institution(q), transactions[q].op.table,
                                     transactions[q].op.object)')
    BY DEF TransactionsInOrder, own_rows
  <2>1. stored(self_institution(q), transactions[q].op.table, transactions[q].op.object)'
          = stored(self_institution(q), transactions'[q].op.table, transactions'[q].op.object)
    BY DEF stored, self_institution
  <2>2. Orderly(transactions'[q], self_institution(q),
                stored(self_institution(q), transactions'[q].op.table,
                       transactions'[q].op.object))
    <3>1. CASE q = p
      BY <1>1, <3>1
    <3>2. CASE q # p
      BY <1>1, <3>2 DEF OrderInv, TransactionsInOrder, own_rows
    <3> QED
      BY <3>1, <3>2
  <2> QED
    BY <1>3, <2>1, <2>2
<1>5. LocksAreHeld'
  BY <1>1 DEF OrderInv, LocksAreHeld, scope, self_institution
<1> QED
  BY <1>2, <1>4, <1>5 DEF OrderInv

LEMMA BeginOrder ==
    ASSUME BoundaryInv, OrderInv, NEW p \in Processes, NEW op \in Operations, begin(p, op)
    PROVE  OrderInv'
<1> DEFINE t == [op |-> op, phase |-> "locked", pending |-> <<>>, inserted |-> {}]
<1>1. transactions' = [transactions EXCEPT ![p] = t] /\ UNCHANGED <<sessions, rows>>
  BY DEF begin
<1>2. /\ t.op = op /\ t.phase = "locked" /\ t.pending = <<>> /\ t.inserted = {}
      /\ DOMAIN t.pending = {}
  OBVIOUS
<1>3. \A q \in Processes : q # p /\ transactions[q] # NONE =>
         scope(q, transactions[q].op) # scope(p, t.op)
  BY <1>2 DEF begin, _lock
<1> HIDE DEF t
<1>4. \A i, S : Orderly(t, i, S)
  BY <1>2 DEF Orderly
<1> QED
  BY <1>1, <1>3, <1>4, OrderTransactionStep

LEMMA EndOrder ==
    ASSUME BoundaryInv, OrderInv, NEW p \in Processes, end(p)
    PROVE  OrderInv'
BY OrderTransactionStep DEF end

\* A transaction goes on with rows to insert.
LEMMA GoOnOrder ==
    ASSUME BoundaryInv, OrderInv, NEW p \in Processes, transactions[p] # NONE,
           NEW phase, NEW pending, go_on(p, phase, pending),
           \A t : /\ t.op = transactions[p].op /\ t.inserted = transactions[p].inserted
                  /\ t.phase = phase /\ t.pending = pending
                  => Orderly(t, self_institution(p), own_rows(p))
    PROVE  OrderInv'
<1> DEFINE t == [transactions[p] EXCEPT !.phase = phase, !.pending = pending]
<1>1. transactions' = [transactions EXCEPT ![p] = t] /\ UNCHANGED <<sessions, rows>>
  BY DEF go_on, BoundaryInv, TypeOK
<1>2. /\ t.op = transactions[p].op /\ t.inserted = transactions[p].inserted
      /\ t.phase = phase /\ t.pending = pending
  BY OpenTransaction DEF Transaction
<1> HIDE DEF t
<1>3. Orderly(t, self_institution(p), stored(self_institution(p), t.op.table, t.op.object))
  BY <1>2 DEF own_rows
<1>4. \A q \in Processes : q # p /\ transactions[q] # NONE =>
         scope(q, transactions[q].op) # scope(p, t.op)
  BY <1>2 DEF OrderInv, LocksAreHeld
<1> QED
  BY <1>1, <1>3, <1>4, OrderTransactionStep

LEMMA RowFields ==
    ASSUME NEW p, NEW number, NEW content
    PROVE  /\ row(p, number, content).table = transactions[p].op.table
           /\ row(p, number, content).institution = self_institution(p)
           /\ row(p, number, content).object = transactions[p].op.object
           /\ row(p, number, content).number = number
           /\ row(p, number, content).content = content
BY DEF row

LEMMA SelectOrder ==
    ASSUME BoundaryInv, OrderInv, NEW p \in Processes, select(p)
    PROVE  OrderInv'
<1> DEFINE op == transactions[p].op
           i == self_institution(p)
           S == own_rows(p)
<1>1. /\ transactions[p] # NONE /\ transactions[p].phase = "locked"
      /\ op \in Operations /\ i \in Institutions /\ op.table \in Tables
  BY OpenTransaction, SessionType, BoundaryAssumptions
     DEF select, Transaction, self_institution
<1>2. transactions[p].inserted = {}
  BY <1>1 DEF OrderInv, TransactionsInOrder, Orderly
<1>3. CASE end(p)
  BY <1>3, EndOrder
<1>4. CASE op.table = "engagement_snapshots" /\ go_on(p, "absent", <<>>)
  <2>1. ASSUME NEW t, t.op = op, t.inserted = {}, t.phase = "absent", t.pending = <<>>
        PROVE  Orderly(t, i, S)
    BY <1>4, <2>1 DEF Orderly
  <2> QED
    BY <1>1, <1>2, <1>4, <2>1, GoOnOrder
<1>5. CASE /\ op.table = "audit_events"
           /\ is_prefix_of(visible(p), op.content)
           /\ go_on(p, "insert", events_after(p, Cardinality(visible(p))))
  <2> DEFINE n == Cardinality(visible(p))
             events == events_after(p, n)
  <2>1. n \in Nat /\ Len(op.content) \in Nat
    BY <1>1, <1>5, VisibleType, FS_CardinalityType, BoundaryAssumptions
  <2>2. /\ DOMAIN events = 1..(Len(op.content) - n)
        /\ \A k \in DOMAIN events :
              events[k] = row(p, n + k, SubSeq(op.content, 1, n + k))
    BY DEF events_after
  <2>3. \A k \in DOMAIN events :
           k \in Nat \ {0} /\ n + k \in Nat \ {0} /\ n + k <= Len(op.content)
    BY <2>1, <2>2
  <2>4. visible(p) = {} => n = 0
    BY FS_EmptySet
  <2>5. visible(p) = S => Numbered(S, n)
    <3>1. PICK m \in Nat : Numbered(S, m)
      BY <1>1 DEF OrderInv, TablesInOrder, InOrder, own_rows
    <3> QED
      BY <3>1, VisibleType, NumberedCardinality
  <2> HIDE DEF n, events
  <2>6. ASSUME NEW t, t.op = op, t.inserted = {}, t.phase = "insert", t.pending = events
        PROVE  Orderly(t, i, S)
    <3>1. \A k \in DOMAIN t.pending :
             OwnRow(t, i, t.pending[k]) /\ t.pending[k].number = n + k
      <4>1. ASSUME NEW k \in DOMAIN events
            PROVE  OwnRow(t, i, events[k]) /\ events[k].number = n + k
        <5>1. /\ events[k].table = op.table /\ events[k].institution = i
              /\ events[k].object = op.object /\ events[k].number = n + k
              /\ events[k].content = SubSeq(op.content, 1, n + k)
          <6> DEFINE number == n + k
                     content == SubSeq(op.content, 1, number)
          <6>1. events[k] = row(p, number, content)
            BY <2>2
          <6> HIDE DEF number, content
          <6>2. /\ events[k].table = op.table /\ events[k].institution = i
                /\ events[k].object = op.object /\ events[k].number = number
                /\ events[k].content = content
            BY <6>1, RowFields
          <6> QED
            BY <6>2 DEF number, content
        <5> QED
          BY <2>3, <2>6, <5>1 DEF OwnRow
      <4> QED
        BY <2>6, <4>1
    <3>2. Following(t, n, 0)
      <4>1. \A k \in DOMAIN t.pending : t.pending[k].number = n + 0 + k
        BY <2>1, <3>1
      <4>2. (n + 1)..(n + 0) = {}
        BY <2>1
      <4> QED
        BY <1>5, <2>6, <4>1, <4>2 DEF Following
    <3>3. Placed(t, S, n, 0)
      <4>1. CASE visible(p) = {}
        BY <2>4, <4>1 DEF Placed
      <4>2. CASE visible(p) = S
        BY <1>5, <2>5, <2>6, <4>2 DEF Placed
      <4> QED
        BY <4>1, <4>2, AllOrNothing
    <3> QED
      BY <2>1, <2>6, <3>1, <3>2, <3>3 DEF Orderly
  <2>7. go_on(p, "insert", events)
    BY <1>5 DEF n, events
  <2> QED
    BY <1>1, <1>2, <2>6, <2>7, GoOnOrder
<1>6. CASE /\ op.table = "idempotency_records"
           /\ go_on(p, "insert", <<row(p, 1, op.content)>>)
  <2> DEFINE r == row(p, 1, op.content)
  <2>1. r.number = 1 /\ OwnRow([op |-> op], i, r)
    BY <1>6 DEF row, OwnRow
  <2> HIDE DEF r
  <2>2. ASSUME NEW t, t.op = op, t.inserted = {}, t.phase = "insert", t.pending = <<r>>
        PROVE  Orderly(t, i, S)
    <3>1. DOMAIN t.pending = {1} /\ t.pending[1] = r /\ Len(t.pending) = 1
      BY <2>2
    <3>2. OwnRow(t, i, r)
      BY <2>1, <2>2 DEF OwnRow
    <3>3. Following(t, 0, 0)
      BY <2>1, <2>2, <3>1 DEF Following
    <3> QED
      BY <2>2, <3>1, <3>2, <3>3 DEF Orderly, Placed
  <2>3. go_on(p, "insert", <<r>>)
    BY <1>6 DEF r
  <2> QED
    BY <1>1, <1>2, <2>2, <2>3, GoOnOrder
<1> QED
  BY <1>1, <1>3, <1>4, <1>5, <1>6 DEF select

LEMMA NextRevisionOrder ==
    ASSUME BoundaryInv, OrderInv, NEW p \in Processes, next_revision(p)
    PROVE  OrderInv'
<1> DEFINE op == transactions[p].op
           i == self_institution(p)
           S == own_rows(p)
           revision == greatest_plus_one(visible(p))
           r == row(p, revision, op.content)
<1>1. /\ transactions[p] # NONE /\ transactions[p].phase = "absent"
      /\ op \in Operations /\ i \in Institutions
  BY OpenTransaction, SessionType DEF next_revision, Transaction, self_institution
<1>2. transactions[p].inserted = {} /\ op.table = "engagement_snapshots"
  BY <1>1 DEF OrderInv, TransactionsInOrder, Orderly
<1>3. CASE end(p)
  BY <1>3, EndOrder
<1>4. CASE go_on(p, "insert", <<r>>)
  <2>1. PICK n \in Nat : revision = n + 1 /\ (n = 0 \/ Numbered(S, n))
    <3>1. CASE visible(p) = {}
      <4>1. Numbered({}, 0)
        BY DEF Numbered
      <4> QED
        BY <3>1, <4>1, NextNumber
    <3>2. CASE visible(p) = S
      <4>1. PICK n \in Nat : Numbered(S, n)
        BY <1>1 DEF OrderInv, TablesInOrder, InOrder, own_rows
      <4> QED
        BY <3>2, <4>1, NextNumber
    <3> QED
      BY <3>1, <3>2, AllOrNothing
  <2>2. r.number = n + 1 /\ OwnRow([op |-> op], i, r)
    BY <1>2, <2>1 DEF row, OwnRow
  <2> HIDE DEF r
  <2>3. ASSUME NEW t, t.op = op, t.inserted = {}, t.phase = "insert", t.pending = <<r>>
        PROVE  Orderly(t, i, S)
    <3>1. DOMAIN t.pending = {1} /\ t.pending[1] = r /\ Len(t.pending) = 1
      BY <2>3
    <3>2. OwnRow(t, i, r)
      BY <2>2, <2>3 DEF OwnRow
    <3>3. Following(t, n, 0)
      <4>1. (n + 1)..(n + 0) = {} /\ r.number = n + 0 + 1
        BY <2>1, <2>2
      <4> QED
        BY <1>2, <2>3, <3>1, <4>1 DEF Following
    <3>4. Placed(t, S, n, 0)
      BY <1>2, <2>1, <2>3 DEF Placed
    <3> QED
      BY <2>1, <2>3, <3>1, <3>2, <3>3, <3>4 DEF Orderly
  <2> QED
    BY <1>1, <1>2, <1>4, <2>3, GoOnOrder
<1> QED
  BY <1>3, <1>4 DEF next_revision

\* The next row: its number is the next one, and no stored row has its keys.
LEMMA InsertOrder ==
    ASSUME BoundaryInv, OrderInv, NEW p \in Processes, insert(p)
    PROVE  OrderInv'
<1> DEFINE u == transactions[p]
           r == Head(u.pending)
           i == self_institution(p)
           S == own_rows(p)
           own == RowsOf(sessions[p].institution_id)
           t == [u EXCEPT !.pending = Tail(u.pending), !.inserted = u.inserted \cup {r}]
<1>1. u # NONE /\ u.pending # <<>> /\ UNCHANGED <<sessions, rows>>
  BY DEF insert
<1>2. CASE transactions' = [transactions EXCEPT ![p] = NONE]
  BY <1>1, <1>2, OrderTransactionStep
<1>3. CASE /\ transactions' = [transactions EXCEPT ![p] = t]
           /\ keys_are_free(r, rows \cup u.inserted)
  <2>1. u \in Transaction /\ u.pending \in Seq(own)
    BY <1>1, OpenTransaction
  <2>2. Orderly(u, i, S)
    BY <1>1 DEF OrderInv, TransactionsInOrder
  <2>3. u.phase = "insert"
    BY <1>1, <2>2 DEF Orderly
  <2>4. PICK base \in Nat, m \in Nat : Following(u, base, m) /\ Placed(u, S, base, m)
    BY <2>2, <2>3 DEF Orderly
  <2>5. /\ Len(u.pending) \in Nat \ {0} /\ DOMAIN u.pending = 1..Len(u.pending)
        /\ r = u.pending[1]
        /\ Len(Tail(u.pending)) = Len(u.pending) - 1
        /\ \A k \in DOMAIN Tail(u.pending) :
              k + 1 \in DOMAIN u.pending /\ Tail(u.pending)[k] = u.pending[k + 1]
    BY <1>1, <2>1, HeadTailProperties
  <2>6. r.number = base + m + 1 /\ OwnRow(u, i, r)
    BY <2>2, <2>4, <2>5 DEF Following, Orderly
  <2>7. /\ t.op = u.op /\ t.phase = "insert" /\ t.pending = Tail(u.pending)
        /\ t.inserted = u.inserted \cup {r}
    BY <2>1, <2>3 DEF Transaction
  <2> HIDE DEF r, t
  <2>8. \A s \in S \cup u.inserted : s.number # r.number /\ s.content # r.content
    <3>1. ASSUME NEW s \in S \cup u.inserted
          PROVE  s.number # r.number /\ s.content # r.content
      <4>1. /\ s.table = u.op.table /\ s.institution = i /\ s.object = u.op.object
            /\ s \in rows \cup u.inserted
        BY <2>2 DEF Orderly, OwnRow, own_rows, stored
      <4>2. r.table = u.op.table /\ r.institution = i /\ r.object = u.op.object
        BY <2>6 DEF OwnRow
      <4> QED
        BY <1>3, <4>1, <4>2 DEF keys_are_free
    <3> QED
      BY <3>1
  <2>9. Following(t, base, m + 1)
    <3>1. {s.number : s \in t.inserted} = (base + 1)..(base + (m + 1))
      <4>1. {s.number : s \in t.inserted} = {s.number : s \in u.inserted} \cup {r.number}
        BY <2>7
      <4>2. (base + 1)..(base + (m + 1)) = ((base + 1)..(base + m)) \cup {base + m + 1}
        BY <2>4
      <4> QED
        BY <2>4, <2>6, <4>1, <4>2 DEF Following
    <3>2. \A x, y \in t.inserted : x.number = y.number => x = y
      BY <2>4, <2>7, <2>8 DEF Following
    <3>3. \A k \in DOMAIN t.pending : t.pending[k].number = base + (m + 1) + k
      <4>1. ASSUME NEW k \in DOMAIN Tail(u.pending)
            PROVE  Tail(u.pending)[k].number = base + (m + 1) + k
        <5>1. Tail(u.pending)[k].number = base + m + (k + 1)
          BY <2>4, <2>5 DEF Following
        <5>2. k \in Nat
          BY <1>1, <2>1, HeadTailProperties
        <5> QED
          BY <2>4, <5>1, <5>2
      <4> QED
        BY <2>7, <4>1
    <3>4. t.op.table # "audit_events" => (m + 1) + Len(t.pending) = 1
      <4>1. u.op.table # "audit_events" => m + Len(u.pending) = 1
        BY <2>4 DEF Following
      <4>2. Len(t.pending) = Len(u.pending) - 1 /\ t.op.table = u.op.table
        BY <2>5, <2>7
      <4>3. Len(u.pending) \in Nat /\ m \in Nat
        BY <2>4, <2>5
      <4>4. m + Len(u.pending) = 1 => (m + 1) + (Len(u.pending) - 1) = 1
        <5>1. \A x, y \in Nat : x + y = 1 => (x + 1) + (y - 1) = 1
          OBVIOUS
        <5> QED
          BY <4>3, <5>1, Zenon
      <4> QED
        BY <4>1, <4>2, <4>4, Zenon
    <3>5. t.op.table = "idempotency_records" => base = 0
      BY <2>4, <2>7 DEF Following
    <3> QED
      BY <3>1, <3>2, <3>3, <3>4, <3>5 DEF Following
  <2>10. Placed(t, S, base, m + 1)
    <3>1. Numbered(S, base) /\ (u.op.table = "audit_events" => is_prefix_of(S, u.op.content))
      <4>1. CASE base = 0 /\ m = 0
        <5>1. PICK n \in Nat : Numbered(S, n)
          <6>1. u.op \in Operations /\ i \in Institutions
            BY <1>1, <2>1, OpenTransaction, SessionType DEF Transaction, self_institution
          <6> QED
            BY <6>1 DEF OrderInv, TablesInOrder, InOrder, own_rows
        <5>2. n = 0
          <6>1. 1 \notin {s.number : s \in S}
            BY <2>6, <2>8, <4>1
          <6> QED
            BY <5>1, <6>1 DEF Numbered
        <5>3. S = {}
          <6>1. {s.number : s \in S} = {}
            BY <5>1, <5>2 DEF Numbered
          <6> QED
            BY <6>1
        <5> QED
          BY <4>1, <5>1, <5>2, <5>3 DEF is_prefix_of
      <4>2. CASE ~(base = 0 /\ m = 0)
        BY <2>4, <4>2 DEF Placed
      <4> QED
        BY <4>1, <4>2
    <3>2. \A x \in u.inserted, s \in S : x.content # s.content
      <4>1. CASE base = 0 /\ m = 0
        <5>1. {s.number : s \in u.inserted} = {}
          BY <2>4, <4>1 DEF Following
        <5> QED
          BY <5>1
      <4>2. CASE ~(base = 0 /\ m = 0)
        BY <2>4, <4>2 DEF Placed
      <4> QED
        BY <4>1, <4>2
    <3>3. \A x \in t.inserted, s \in S : x.content # s.content
      BY <2>7, <2>8, <3>2
    <3> QED
      BY <2>7, <3>1, <3>3 DEF Placed
  <2>11. Orderly(t, i, S)
    <3>1. \A x \in t.inserted : OwnRow(t, i, x)
      BY <2>2, <2>6, <2>7 DEF Orderly, OwnRow
    <3>2. \A k \in DOMAIN t.pending : OwnRow(t, i, t.pending[k])
      BY <2>2, <2>5, <2>7 DEF Orderly, OwnRow
    <3>3. m + 1 \in Nat
      BY <2>4
    <3> QED
      BY <2>4, <2>7, <2>9, <2>10, <3>1, <3>2, <3>3 DEF Orderly
  <2>12. Orderly(t, i, stored(i, t.op.table, t.op.object))
    BY <2>7, <2>11 DEF own_rows
  <2>13. \A q \in Processes : q # p /\ transactions[q] # NONE =>
            scope(q, transactions[q].op) # scope(p, t.op)
    BY <1>1, <2>7 DEF OrderInv, LocksAreHeld
  <2> QED
    BY <1>1, <1>3, <2>12, <2>13, OrderTransactionStep
<1>4. \/ transactions' = [transactions EXCEPT ![p] = NONE]
      \/ /\ transactions' = [transactions EXCEPT ![p] = t]
         /\ keys_are_free(r, rows \cup u.inserted)
  BY DEF insert, BoundaryInv, TypeOK
<1> QED
  BY <1>2, <1>3, <1>4

\* A table and what one transaction has inserted into it.
LEMMA MergedInOrder ==
    ASSUME NEW t, NEW i, NEW S, NEW base \in Nat, NEW m \in Nat,
           \A r \in t.inserted : OwnRow(t, i, r),
           t.phase = "insert", t.pending = <<>>, t.op.table \in Tables,
           t.op.table = "audit_events" => Len(t.op.content) \in Nat,
           Following(t, base, m), Placed(t, S, base, m), InOrder(t.op.table, S),
           \A s \in S : s.number \in Nat
    PROVE  InOrder(t.op.table, S \cup t.inserted)
<1> DEFINE T == t.inserted
<1>1. CASE base = 0 /\ m = 0
  <2>1. {r.number : r \in T} = (0 + 1)..(0 + 0)
    BY <1>1 DEF Following
  <2>2. (0 + 1)..(0 + 0) = {}
    OBVIOUS
  <2>3. T = {}
    BY <2>1, <2>2, Zenon
  <2> QED
    BY <2>3
<1>2. CASE /\ Numbered(S, base)
           /\ t.op.table = "audit_events" => is_prefix_of(S, t.op.content)
           /\ \A r \in T, s \in S : r.content # s.content
  <2>1. /\ {r.number : r \in S} = 1..base
        /\ {r.number : r \in T} = (base + 1)..(base + m)
    BY <1>2 DEF Numbered, Following
  <2>2. \A r \in S, s \in T : r.number < s.number
    <3>1. ASSUME NEW r \in S, NEW s \in T PROVE r.number < s.number
      <4>1. r.number \in 1..base /\ s.number \in (base + 1)..(base + m)
        BY <2>1
      <4> QED
        BY <4>1
    <3> QED
      BY <3>1
  <2>3. Numbered(S \cup T, base + m)
    <3>1. {r.number : r \in S \cup T} = {r.number : r \in S} \cup {r.number : r \in T}
      OBVIOUS
    <3>2. 1..(base + m) = (1..base) \cup ((base + 1)..(base + m))
      OBVIOUS
    <3>3. ASSUME NEW r \in S \cup T, NEW s \in S \cup T, r.number = s.number
          PROVE  r = s
      <4>1. CASE r \in S /\ s \in S
        BY <1>2, <3>3, <4>1 DEF Numbered
      <4>2. CASE r \in T /\ s \in T
        BY <3>3, <4>2 DEF Following
      <4>3. CASE r \in S /\ s \in T
        <5>1. r.number < s.number /\ r.number \in Nat
          BY <2>2, <4>3
        <5> QED
          BY <3>3, <5>1
      <4>4. CASE r \in T /\ s \in S
        <5>1. s.number < r.number /\ s.number \in Nat
          BY <2>2, <4>4
        <5> QED
          BY <3>3, <5>1
      <4> QED
        BY <4>1, <4>2, <4>3, <4>4
    <3> QED
      BY <2>1, <3>1, <3>2, <3>3 DEF Numbered
  <2>4. m = 1 => \A r \in T : r.number = base + 1
    <3>1. ASSUME m = 1, NEW r \in T PROVE r.number = base + 1
      <4>1. r.number \in (base + 1)..(base + m)
        BY <2>1
      <4> QED
        BY <3>1, <4>1
    <3> QED
      BY <3>1
  <2>5. Consistent(t.op.table, S \cup T)
    <3>1. CASE t.op.table = "engagement_snapshots"
      <4>1. m = 1
        BY <3>1 DEF Following
      <4>2. ASSUME NEW r \in T, NEW s \in T PROVE r = s
        <5>1. r.number = base + 1 /\ s.number = base + 1
          BY <2>4, <4>1
        <5> QED
          BY <5>1 DEF Following
      <4> QED
        BY <1>2, <3>1, <4>2 DEF InOrder, Consistent
    <3>2. CASE t.op.table = "audit_events"
      <4>1. \A r \in S \cup T : r.number \in Nat
        BY DEF OwnRow
      <4>2. \A r \in S \cup T :
               r.content = SubSeq(t.op.content, 1, r.number)
        BY <1>2, <3>2 DEF is_prefix_of, OwnRow
      <4>3. ASSUME NEW r \in S \cup T, NEW s \in S \cup T, r.number < s.number
            PROVE  r.content = SubSeq(s.content, 1, r.number)
        <5>1. r.number <= s.number
          BY <4>1, <4>3
        <5>2. SubSeq(SubSeq(t.op.content, 1, s.number), 1, r.number)
                 = SubSeq(t.op.content, 1, r.number)
          BY <4>1, <5>1, SubSeqTwice
        <5>3. /\ r.content = SubSeq(t.op.content, 1, r.number)
              /\ s.content = SubSeq(t.op.content, 1, s.number)
          BY <4>2
        <5> QED
          BY <5>2, <5>3
      <4> QED
        BY <3>2, <4>3 DEF Consistent
    <3>3. CASE t.op.table = "idempotency_records"
      <4>1. base = 0 /\ m = 1
        BY <3>3 DEF Following
      <4>2. S = {}
        <5>1. {r.number : r \in S} = 1..0
          BY <2>1, <4>1, Zenon
        <5>2. 1..0 = {}
          OBVIOUS
        <5> QED
          BY <5>1, <5>2, Zenon
      <4>3. ASSUME NEW r \in T, NEW s \in T PROVE r = s
        <5>1. r.number = base + 1 /\ s.number = base + 1
          BY <2>4, <4>1
        <5> QED
          BY <5>1 DEF Following
      <4> QED
        BY <3>3, <4>2, <4>3 DEF Consistent
    <3> QED
      BY <3>1, <3>2, <3>3 DEF Tables
  <2> QED
    BY <2>3, <2>5 DEF InOrder
<1> QED
  BY <1>1, <1>2 DEF Placed

\* Only the rows of the own lock change.
LEMMA CommitOrder ==
    ASSUME BoundaryInv, OrderInv, NEW p \in Processes, commit(p)
    PROVE  OrderInv'
<1> DEFINE t == transactions[p]
           i == self_institution(p)
           S == own_rows(p)
<1>1. /\ t # NONE /\ t.phase = "insert" /\ t.pending = <<>>
      /\ rows' = rows \cup t.inserted
      /\ transactions' = [transactions EXCEPT ![p] = NONE]
      /\ sessions' = sessions
  BY DEF commit
<1>2. /\ Orderly(t, i, S) /\ t.op \in Operations /\ i \in Institutions
      /\ t.op.table \in Tables /\ (t.op.table = "audit_events" => Len(t.op.content) \in Nat)
  BY <1>1, OpenTransaction, SessionType, BoundaryAssumptions
     DEF OrderInv, TransactionsInOrder, Transaction, self_institution
<1>3. \A r \in t.inserted : OwnRow(t, i, r)
  BY <1>2 DEF Orderly
<1>4. PICK base \in Nat, m \in Nat : Following(t, base, m) /\ Placed(t, S, base, m)
  BY <1>1, <1>2 DEF Orderly
<1>5. InOrder(t.op.table, S \cup t.inserted)
  <2>1. InOrder(t.op.table, S)
    BY <1>2 DEF OrderInv, TablesInOrder, own_rows
  <2>2. \A s \in S : s.number \in Nat
    BY DEF own_rows, stored, BoundaryInv, TypeOK, Row
  <2> QED
    BY <1>1, <1>2, <1>3, <1>4, <2>1, <2>2, MergedInOrder
<1>6. ASSUME NEW j, NEW op, <<j, op.table, op.object>> # scope(p, t.op)
      PROVE  stored(j, op.table, op.object)' = stored(j, op.table, op.object)
  <2>1. \A r \in t.inserted :
           ~(r.institution = j /\ r.table = op.table /\ r.object = op.object)
    BY <1>3, <1>6 DEF OwnRow, scope
  <2> QED
    BY <1>1, <2>1 DEF stored
<1>7. ASSUME NEW j, NEW op, <<j, op.table, op.object>> = scope(p, t.op)
      PROVE  stored(j, op.table, op.object)' = S \cup t.inserted /\ op.table = t.op.table
  <2>1. j = i /\ op.table = t.op.table /\ op.object = t.op.object
    BY <1>7 DEF scope
  <2> QED
    BY <1>1, <1>3, <2>1 DEF stored, own_rows, OwnRow
<1>8. TablesInOrder'
  <2>1. ASSUME NEW j \in Institutions, NEW op \in Operations
        PROVE  InOrder(op.table, stored(j, op.table, op.object)')
    <3>1. CASE <<j, op.table, op.object>> = scope(p, t.op)
      BY <1>5, <1>7, <3>1
    <3>2. CASE <<j, op.table, op.object>> # scope(p, t.op)
      BY <1>6, <3>2 DEF OrderInv, TablesInOrder
    <3> QED
      BY <3>1, <3>2
  <2> QED
    BY <2>1 DEF TablesInOrder
<1>9. TransactionsInOrder'
  <2> SUFFICES ASSUME NEW q \in Processes, transactions'[q] # NONE
               PROVE  Orderly(transactions[q], self_institution(q), own_rows(q))'
    BY DEF TransactionsInOrder
  <2>1. q # p /\ transactions'[q] = transactions[q]
    BY <1>1 DEF BoundaryInv, TypeOK
  <2>2. scope(q, transactions[q].op) # scope(p, t.op)
    BY <1>1, <2>1 DEF OrderInv, LocksAreHeld
  <2>3. self_institution(q)' = self_institution(q)
    BY <1>1 DEF self_institution
  <2>4. stored(self_institution(q), transactions[q].op.table, transactions[q].op.object)'
           = own_rows(q)
    <3>1. \A r \in t.inserted :
             ~(/\ r.institution = self_institution(q)
               /\ r.table = transactions[q].op.table
               /\ r.object = transactions[q].op.object)
      BY <1>3, <2>2 DEF OwnRow, scope
    <3> QED
      BY <1>1, <2>1, <2>3, <3>1 DEF stored, own_rows
  <2>5. Orderly(transactions[q], self_institution(q), own_rows(q))
    BY <2>1 DEF OrderInv, TransactionsInOrder
  <2> QED
    BY <2>1, <2>3, <2>4, <2>5 DEF own_rows
<1>10. LocksAreHeld'
  BY <1>1 DEF BoundaryInv, TypeOK, OrderInv, LocksAreHeld, scope, self_institution
<1> QED
  BY <1>8, <1>9, <1>10 DEF OrderInv

\* Sessions and connections: only one that has no transaction gets a session, and
\* one that is closed loses its transaction.
LEMMA ConnectOrder ==
    ASSUME BoundaryInv, OrderInv, NEW p \in Processes, Connect(p)
    PROVE  OrderInv'
<1>1. ASSUME NEW session \in AuthorizedTenantSession, create_session(p, session)
      PROVE  OrderInv'
  <2>1. /\ connections[p] = NONE
        /\ sessions' = [sessions EXCEPT ![p] = session]
        /\ transactions' = transactions /\ rows' = rows
    BY <1>1 DEF create_session
  <2>2. transactions[p] = NONE
    BY <2>1 DEF BoundaryInv, TypeOK
  <2>3. \A q \in Processes : transactions[q] # NONE =>
           /\ self_institution(q)' = self_institution(q)
           /\ own_rows(q)' = own_rows(q)
    BY <2>1, <2>2 DEF BoundaryInv, TypeOK, self_institution, own_rows, stored
  <2>4. TablesInOrder'
    BY <2>1 DEF OrderInv, TablesInOrder, stored
  <2>5. TransactionsInOrder'
    BY <2>1, <2>3 DEF OrderInv, TransactionsInOrder
  <2>6. LocksAreHeld'
    BY <2>1, <2>3 DEF OrderInv, LocksAreHeld, scope
  <2> QED
    BY <2>4, <2>5, <2>6 DEF OrderInv
<1>2. ASSUME NEW a \in Accounts, NEW access \in AccessModes, connect(p, a, access)
      PROVE  OrderInv'
  BY <1>2, OrderStutter DEF connect
<1>3. CASE verify(p)
  BY <1>3, OrderStutter DEF verify
<1>4. CASE close(p)
  BY <1>4, OrderTransactionStep DEF close
<1> QED
  BY <1>1, <1>2, <1>3, <1>4 DEF Connect

LEMMA NextOrder == BoundaryInv /\ OrderInv /\ [Next]_vars => OrderInv'
<1> SUFFICES ASSUME BoundaryInv, OrderInv, [Next]_vars PROVE OrderInv'
  OBVIOUS
<1>1. CASE Configure
  <2>1. UNCHANGED <<sessions, transactions, rows>>
    BY <1>1 DEF Configure, approved_change_package, register_service_account,
                disable_service_account, run_tenant_auth_command
  <2> QED
    BY <2>1, OrderStutter
<1>2. ASSUME NEW p \in Processes, Connect(p) PROVE OrderInv'
  BY <1>2, ConnectOrder
<1>3. ASSUME NEW p \in Processes, Store(p) PROVE OrderInv'
  BY <1>3, BeginOrder, SelectOrder, NextRevisionOrder, InsertOrder, CommitOrder DEF Store
<1>4. CASE UNCHANGED vars
  BY <1>4, OrderStutter DEF vars
<1> QED
  BY <1>1, <1>2, <1>3, <1>4 DEF Next

\* However transactions of several processes are interleaved, and whatever row-level
\* security hides from them when accounts are mapped elsewhere and back, the rows of
\* an engagement or key are numbered without a gap, and what they say is consistent:
\* each transaction goes on from a row that is the last one as long as its lock is
\* held, or collides with a key.
THEOREM TablesOrdered == Spec => []TablesStayOrdered
<1>1. BoundaryInv /\ OrderInv => TablesStayOrdered
  <2> SUFFICES ASSUME BoundaryInv, OrderInv, NEW i \in Institutions, NEW op \in Operations
               PROVE  LET table == stored(i, op.table, op.object)
                      IN  /\ {r.number : r \in table} = 1..Cardinality(table)
                          /\ \A r, s \in table : r # s =>
                                CASE op.table = "engagement_snapshots" ->
                                        r.content # s.content
                                  [] op.table = "audit_events" ->
                                        r.number < s.number =>
                                           r.content = SubSeq(s.content, 1, r.number)
                                  [] op.table = "idempotency_records" -> FALSE
    BY DEF TablesStayOrdered
  <2> DEFINE table == stored(i, op.table, op.object)
  <2>1. PICK n \in Nat : Numbered(table, n)
    BY DEF OrderInv, TablesInOrder, InOrder
  <2>2. IsFiniteSet(table)
    <3>1. table \subseteq rows
      BY DEF stored
    <3> QED
      BY <3>1, FS_Subset DEF BoundaryInv, Finite
  <2>3. Cardinality(table) = n
    BY <2>1, <2>2, NumberedCardinality
  <2>4. {r.number : r \in table} = 1..Cardinality(table)
    BY <2>1, <2>3 DEF Numbered
  <2>5. Consistent(op.table, table) /\ op.table \in Tables
    BY BoundaryAssumptions DEF OrderInv, TablesInOrder, InOrder
  <2>6. ASSUME NEW r \in table, NEW s \in table, r # s
        PROVE  CASE op.table = "engagement_snapshots" -> r.content # s.content
                 [] op.table = "audit_events" ->
                       r.number < s.number => r.content = SubSeq(s.content, 1, r.number)
                 [] op.table = "idempotency_records" -> FALSE
    <3> HIDE DEF table
    <3>1. CASE op.table = "engagement_snapshots"
      BY <2>5, <2>6, <3>1 DEF Consistent
    <3>2. CASE op.table = "audit_events"
      BY <2>5, <2>6, <3>2 DEF Consistent
    <3>3. CASE op.table = "idempotency_records"
      BY <2>5, <2>6, <3>3 DEF Consistent
    <3> QED
      BY <2>5, <3>1, <3>2, <3>3 DEF Tables
  <2> QED
    BY <2>4, <2>6
<1> QED
  BY <1>1, InitOrder, NextOrder, Invariance, PTL DEF Spec

-----------------------------------------------------------------------------
(* The tables are append-only logs *)

\* What is stored in one table for one object of one institution, in its order.
log(S) == [n \in 1..Cardinality(S) |-> (CHOOSE r \in S : r.number = n).content]

Scopes == {<<i, op.table, op.object>> : i \in Institutions, op \in Operations}

log_of(s) == log(stored(s[1], s[2], s[3]))

TableLogs ==
    INSTANCE AppendOnlyLogs
        WITH Trails <- Scopes, Events <- Contents, logs <- [s \in Scopes |-> log_of(s)]

\* The log of rows that are numbered has the content of row n at n.
LEMMA LogOfNumbered ==
    ASSUME NEW S, S \subseteq Row, IsFiniteSet(S), NEW n \in Nat, Numbered(S, n)
    PROVE  /\ log(S) \in Seq(Contents)
           /\ Len(log(S)) = n
           /\ \A r \in S : r.number \in 1..n /\ log(S)[r.number] = r.content
<1>1. Cardinality(S) = n
  BY NumberedCardinality
<1>2. \A k \in 1..n : /\ (CHOOSE r \in S : r.number = k) \in S
                      /\ (CHOOSE r \in S : r.number = k).number = k
  <2>1. \A k \in 1..n : \E r \in S : r.number = k
    BY DEF Numbered
  <2> QED
    BY <2>1
<1>3. log(S) = [k \in 1..n |-> (CHOOSE r \in S : r.number = k).content]
  BY <1>1 DEF log
<1>4. \A k \in 1..n : (CHOOSE r \in S : r.number = k).content \in Contents
  BY <1>2 DEF Row
<1>5. log(S) \in [1..n -> Contents]
  BY <1>3, <1>4
<1>6. log(S) \in Seq(Contents) /\ Len(log(S)) = n
  BY <1>5
<1>7. ASSUME NEW r \in S PROVE r.number \in 1..n /\ log(S)[r.number] = r.content
  <2>1. r.number \in 1..n
    BY DEF Numbered
  <2>2. (CHOOSE x \in S : x.number = r.number) = r
    BY <1>2, <2>1 DEF Numbered
  <2> QED
    BY <1>3, <2>1, <2>2
<1> QED
  BY <1>6, <1>7

\* More rows with higher numbers continue the log.
LEMMA LogContinues ==
    ASSUME NEW S, NEW T, S \subseteq T, T \subseteq Row, IsFiniteSet(T),
           NEW n \in Nat, Numbered(S, n), NEW m \in Nat, Numbered(T, m)
    PROVE  /\ Len(log(S)) <= Len(log(T))
           /\ SubSeq(log(S), 1, Len(log(S))) = SubSeq(log(T), 1, Len(log(S)))
<1>1. IsFiniteSet(S)
  BY FS_Subset
<1>2. /\ log(S) \in Seq(Contents) /\ Len(log(S)) = n
      /\ \A r \in S : log(S)[r.number] = r.content
  BY <1>1, LogOfNumbered
<1>3. /\ log(T) \in Seq(Contents) /\ Len(log(T)) = m
      /\ \A r \in T : log(T)[r.number] = r.content
  BY LogOfNumbered
<1>4. n <= m
  <2>1. 1..n \subseteq 1..m
    BY DEF Numbered
  <2> QED
    BY <2>1
<1>5. \A k \in 1..n : log(S)[k] = log(T)[k]
  <2>1. \A k \in 1..n : \E r \in S : r.number = k
    BY DEF Numbered
  <2> QED
    BY <1>2, <1>3, <2>1
<1> QED
  BY <1>2, <1>3, <1>4, <1>5

\* Rows are only ever added, those of one transaction to one log.
LEMMA RowsAreAdded ==
    ASSUME BoundaryInv, OrderInv, [Next]_vars
    PROVE  \/ rows' = rows
           \/ /\ rows \subseteq rows'
              /\ \E s \in Scopes : \A u \in Scopes \ {s} :
                    stored(u[1], u[2], u[3])' = stored(u[1], u[2], u[3])
<1>1. ASSUME NEW p \in Processes, commit(p)
      PROVE  /\ rows \subseteq rows'
             /\ \E s \in Scopes : \A u \in Scopes \ {s} :
                   stored(u[1], u[2], u[3])' = stored(u[1], u[2], u[3])
  <2> DEFINE t == transactions[p]
             s == scope(p, t.op)
  <2>1. t # NONE /\ rows' = rows \cup t.inserted
    BY <1>1 DEF commit
  <2>2. \A r \in t.inserted : OwnRow(t, self_institution(p), r)
    BY <2>1 DEF OrderInv, TransactionsInOrder, Orderly
  <2>3. s \in Scopes
    BY <2>1, OpenTransaction, SessionType
       DEF Transaction, self_institution, scope, Scopes
  <2>4. ASSUME NEW u \in Scopes \ {s}
        PROVE  stored(u[1], u[2], u[3])' = stored(u[1], u[2], u[3])
    <3>1. u = <<u[1], u[2], u[3]>>
      BY DEF Scopes
    <3>2. \A r \in t.inserted : ~(r.institution = u[1] /\ r.table = u[2] /\ r.object = u[3])
      BY <2>2, <2>4, <3>1 DEF OwnRow, scope
    <3> QED
      BY <2>1, <3>2 DEF stored
  <2> QED
    BY <2>1, <2>3, <2>4
<1>2. CASE rows' = rows
  BY <1>2
<1> QED
  BY <1>1, <1>2 DEF Next, Configure, Connect, Store, vars, approved_change_package,
     register_service_account, disable_service_account, run_tenant_auth_command,
         create_session, connect, verify,
     close, begin, select, next_revision, insert, end, go_on

\* Every log is of finitely many rows that are numbered.
ScopesAreNumbered ==
    \A s \in Scopes : /\ IsFiniteSet(stored(s[1], s[2], s[3]))
                      /\ stored(s[1], s[2], s[3]) \subseteq Row
                      /\ \E n \in Nat : Numbered(stored(s[1], s[2], s[3]), n)

LEMMA OrderedAreNumbered == BoundaryInv /\ OrderInv => ScopesAreNumbered
<1> SUFFICES ASSUME BoundaryInv, OrderInv, NEW i \in Institutions, NEW op \in Operations
             PROVE  /\ IsFiniteSet(stored(i, op.table, op.object))
                    /\ stored(i, op.table, op.object) \subseteq Row
                    /\ \E n \in Nat : Numbered(stored(i, op.table, op.object), n)
  BY DEF ScopesAreNumbered, Scopes
<1>1. stored(i, op.table, op.object) \subseteq rows
  BY DEF stored
<1> QED
  BY <1>1, FS_Subset DEF BoundaryInv, Finite, TypeOK, OrderInv, TablesInOrder, InOrder

\* The PostgreSQL store implements append-only logs, as the SQLite store does: whatever
\* happens to mappings and processes, the revisions of an engagement, its events and the
\* request of a key are only ever added to, each object's by one transaction at a time.
THEOREM TablesImplementLogs == Spec => TableLogs!Spec
<1> DEFINE logs == [s \in Scopes |-> log_of(s)]
<1>1. Init => TableLogs!Init
  <2> SUFFICES ASSUME Init PROVE logs \in [Scopes -> Seq(Contents)]
    BY DEF TableLogs!Init
  <2>1. \A s \in Scopes : log_of(s) \in Seq(Contents)
    BY OrderedAreNumbered, InitOrder, InitInv, LogOfNumbered DEF ScopesAreNumbered, log_of
  <2> QED
    BY <2>1
<1>2. /\ BoundaryInv /\ OrderInv /\ [Next]_vars
      /\ BoundaryInv' /\ OrderInv'
      => [TableLogs!Next]_logs
  <2> SUFFICES ASSUME BoundaryInv, OrderInv, [Next]_vars, BoundaryInv', OrderInv',
                      logs' # logs
               PROVE  \E s \in Scopes :
                         /\ \A u \in Scopes \ {s} : logs'[u] = logs[u]
                         /\ Len(logs[s]) <= Len(logs'[s])
                         /\ SubSeq(logs[s], 1, Len(logs[s])) =
                               SubSeq(logs'[s], 1, Len(logs[s]))
                         /\ logs[s] # logs'[s]
    BY DEF TableLogs!Next, TableLogs!Extend, TableLogs!IsStrictPrefix, TableLogs!IsPrefix
  <2>1. rows' # rows
    BY DEF log_of, stored
  <2>2. PICK s \in Scopes : \A u \in Scopes \ {s} :
           stored(u[1], u[2], u[3])' = stored(u[1], u[2], u[3])
    BY <2>1, RowsAreAdded
  <2>3. \A u \in Scopes \ {s} : logs'[u] = logs[u]
    BY <2>2 DEF log_of
  <2>4. logs[s] # logs'[s]
    BY <2>3
  <2> DEFINE S == stored(s[1], s[2], s[3])
             T == stored(s[1], s[2], s[3])'
  <2>5. S \subseteq T
    BY <2>1, RowsAreAdded DEF stored
  <2>6. PICK n \in Nat : Numbered(S, n)
    BY OrderedAreNumbered DEF ScopesAreNumbered
  <2>7. /\ IsFiniteSet(T) /\ T \subseteq Row
        /\ \E m \in Nat : Numbered(T, m)
    <3>1. ScopesAreNumbered'
      BY OrderedAreNumbered, PTL
    <3> QED
      BY <3>1 DEF ScopesAreNumbered
  <2>8. logs[s] = log(S) /\ logs'[s] = log(T)
    BY DEF log_of
  <2> HIDE DEF S, T, logs
  <2>9. PICK m \in Nat : Numbered(T, m)
    BY <2>7
  <2>10. /\ Len(log(S)) <= Len(log(T))
         /\ SubSeq(log(S), 1, Len(log(S))) = SubSeq(log(T), 1, Len(log(S)))
    BY <2>5, <2>6, <2>7, <2>9, LogContinues
  <2> QED
    BY <2>3, <2>4, <2>8, <2>10
<1> QED
  BY <1>1, <1>2, InitOrder, NextOrder, Invariance, PTL DEF Spec, TableLogs!Spec
=============================================================================
