--------------------------- MODULE TenantBoundary ---------------------------
(* The tenant boundary of the PostgreSQL store (postgres_rls.py,                 *)
(* postgres_tenant.py, postgres_cli.py): an application session authorizes a     *)
(* process for an institution, and the database maps the account it connects     *)
(* with to an institution and an access mode.  Both are configured through       *)
(* ChangeControl.  Connections are verified once; row-level security looks at    *)
(* the mapping in every statement, while operators run the SQL of packages.      *)
(*                                                                               *)
(* The server is PostgreSQL at READ COMMITTED: a statement sees what is committed *)
(* when it starts, advisory locks last as long as their transaction.  Payloads   *)
(* are encrypted and play no part.                                               *)
EXTENDS TenantAuthorization, Sequences, FiniteSetsExt

CONSTANTS
    Accounts,    \* LOGIN roles
    Processes,   \* each with a session and a connection
    Operations   \* what processes store

Tables == {"engagement_snapshots", "audit_events", "idempotency_records"}

AccessModes == {"read", "write"}

\* Calls of save_snapshot, persist_audit_chain and record_idempotency.  The object
\* is an engagement or a key; the content a snapshot, a chain, or a request and its
\* result.
ASSUME BoundaryAssumptions ==
    \A op \in Operations :
       /\ op.table \in Tables
       /\ op.table = "audit_events" => Len(op.content) \in Nat

VARIABLES
    packages,     \* the approved change packages
    mappings,     \* tenant_service_accounts
    memberships,  \* the boundary roles granted to each account
    vouched,      \* the authorizations that commands said are of an approved policy
    sessions,     \* AuthorizedTenantSession of each process
    connections,  \* VerifiedPostgresSession of each process
    transactions, \* the open transaction of each process
    rows          \* what is committed to the three tables

configuration == <<packages, mappings, memberships, vouched>>

vars == <<configuration, sessions, connections, transactions, rows>>

Init ==
    /\ packages = {}
    /\ mappings = [a \in Accounts |-> NONE]
    /\ memberships = [a \in Accounts |-> {}]
    /\ vouched = {}
    /\ sessions = [p \in Processes |-> NONE]
    /\ connections = [p \in Processes |-> NONE]
    /\ transactions = [p \in Processes |-> NONE]
    /\ rows = {}

-----------------------------------------------------------------------------
(* Configuration.  Operators make a package, have SQL generated with it and run   *)
(* the SQL, now or later and as often as they like.  A package that was good for  *)
(* generating is still good, so the SQL needs no variable of its own.             *)

approved_change_package(package) ==
    /\ packages' = packages \cup {package}
    /\ UNCHANGED <<mappings, memberships, vouched, sessions, connections, transactions, rows>>

group_role(access) == IF access = "read" THEN "reader" ELSE "writer"

mapping(account, institution, access) ==
    [service_role |-> account, institution_id |-> institution, access_mode |-> access]

\* postgres-service-account-sql
register_service_account(account, institution, access) ==
    /\ \E package \in packages :
          verify_postgres_mapping_change_package(mapping(account, institution, access), package)
    /\ mappings' = [mappings EXCEPT ![account] =
                      [mapping |-> mapping(account, institution, access), active |-> TRUE]]
    /\ memberships' = [memberships EXCEPT ![account] = {group_role(access)}]
    /\ UNCHANGED <<packages, vouched, sessions, connections, transactions, rows>>

\* postgres-disable-service-account-sql: whatever the account is mapped to.
disable_service_account(account, institution) ==
    /\ \E package \in packages :
          verify_postgres_disable_change_package(account, institution, package)
    /\ mappings' = [mappings EXCEPT ![account] =
                      IF @ = NONE THEN NONE ELSE [@ EXCEPT !.active = FALSE]]
    /\ memberships' = [memberships EXCEPT ![account] = {}]
    /\ UNCHANGED <<packages, vouched, sessions, connections, transactions, rows>>

\* authorize-tenant-route, verify-tenant-authorization and
\* authorized-tenant-store-metadata, which opens an SQLite store.
run_tenant_auth_command(authorization) ==
    /\ \E package \in packages :
          verify_tenant_policy_change_package(authorization.policy, authorization.context,
                                              package)
    /\ vouched' = vouched \cup {authorization}
    /\ UNCHANGED <<packages, mappings, memberships, sessions, connections, transactions, rows>>

-----------------------------------------------------------------------------
(* Sessions and connections *)

\* AuthorizedTenantSession.create asks for no package: that is for its caller, and no
\* command opens the PostgreSQL store.
create_session(p, session) ==
    /\ connections[p] = NONE
    /\ sessions' = [sessions EXCEPT ![p] = session]
    /\ UNCHANGED <<configuration, connections, transactions, rows>>

is_mapped(account) == mappings[account] # NONE /\ mappings[account].active

\* The functions of the schema that row-level security calls.
current_institution(account) == mappings[account].mapping.institution_id
current_access_mode(account) == mappings[account].mapping.access_mode

\* open_authorized_postgres_store, up to the look at memberships.
connect(p, account, access) ==
    /\ sessions[p] # NONE
    /\ connections[p] = NONE
    /\ require(sessions[p], IF access = "read" THEN "store_read" ELSE "store_write")
    /\ memberships[account] = {group_role(access)}
    /\ connections' = [connections EXCEPT ![p] =
                         [account |-> account, access |-> access, verified |-> FALSE]]
    /\ UNCHANGED <<configuration, sessions, transactions, rows>>

\* The rest of verify_postgres_connection, by later statements.
verify(p) ==
    /\ connections[p] # NONE
    /\ ~connections[p].verified
    /\ LET account == connections[p].account
           access == connections[p].access
           matches == /\ is_mapped(account)
                      /\ current_institution(account) = sessions[p].institution_id
                      /\ current_access_mode(account) = access
                      /\ ("writer" \in memberships[account]) = (access = "write")
       IN  connections' = [connections EXCEPT ![p] =
                             IF matches THEN [@ EXCEPT !.verified = TRUE] ELSE NONE]
    /\ UNCHANGED <<configuration, sessions, transactions, rows>>

\* The process closes the store or dies: the server rolls back.
close(p) ==
    /\ connections[p] # NONE
    /\ connections' = [connections EXCEPT ![p] = NONE]
    /\ transactions' = [transactions EXCEPT ![p] = NONE]
    /\ UNCHANGED <<configuration, sessions, rows>>

-----------------------------------------------------------------------------
(* Transactions *)

self_institution(p) == sessions[p].institution_id

\* What the advisory lock of a transaction is for.
scope(p, op) == <<self_institution(p), op.table, op.object>>

_lock(p, op) ==
    \A q \in Processes :
       transactions[q] # NONE => scope(q, transactions[q].op) # scope(p, op)

\* Every operation begins with the lock.
begin(p, op) ==
    /\ connections[p] # NONE
    /\ connections[p].verified
    /\ connections[p].access = "write"
    /\ transactions[p] = NONE
    /\ _lock(p, op)
    /\ transactions' = [transactions EXCEPT ![p] =
                          [op |-> op, phase |-> "locked", pending |-> <<>>, inserted |-> {}]]
    /\ UNCHANGED <<configuration, sessions, connections, rows>>

\* A refused statement, a conflict, or nothing to do.
end(p) ==
    /\ transactions' = [transactions EXCEPT ![p] = NONE]
    /\ UNCHANGED <<configuration, sessions, connections, rows>>

\* With what is to be inserted.
go_on(p, phase, pending) ==
    /\ transactions' = [transactions EXCEPT ![p].phase = phase, ![p].pending = pending]
    /\ UNCHANGED <<configuration, sessions, connections, rows>>

may_select(p) ==
    LET account == connections[p].account
    IN  is_mapped(account) /\ memberships[account] # {}

\* The rows of the own institution, if row-level security shows them.
visible(p) ==
    LET op == transactions[p].op
    IN  {r \in rows : /\ r.institution = self_institution(p)
                      /\ r.institution = current_institution(connections[p].account)
                      /\ r.table = op.table
                      /\ r.object = op.object}

row(p, number, content) ==
    [table |-> transactions[p].op.table, institution |-> self_institution(p),
     object |-> transactions[p].op.object, number |-> number, content |-> content]

is_prefix_of(stored, chain) ==
    \A r \in stored : r.number <= Len(chain) /\ r.content = SubSeq(chain, 1, r.number)

\* The events after the first n.  An event is the chain that ends with it.
events_after(p, n) ==
    LET chain == transactions[p].op.content
    IN  [k \in 1..(Len(chain) - n) |-> row(p, n + k, SubSeq(chain, 1, n + k))]

\* The first look at the table.
select(p) ==
    LET op == transactions[p].op
    IN  /\ transactions[p] # NONE
        /\ transactions[p].phase = "locked"
        /\ \/ ~may_select(p) /\ end(p)
           \/ /\ may_select(p)
              /\ op.table = "engagement_snapshots"
              /\ IF \E r \in visible(p) : r.content = op.content
                 THEN end(p)
                 ELSE go_on(p, "absent", <<>>)
           \/ /\ may_select(p)
              /\ op.table = "audit_events"
              /\ IF is_prefix_of(visible(p), op.content)
                 THEN go_on(p, "insert", events_after(p, Cardinality(visible(p))))
                 ELSE end(p)
           \/ /\ may_select(p)
              /\ op.table = "idempotency_records"
              /\ IF visible(p) # {}
                 THEN end(p)
                 ELSE go_on(p, "insert", <<row(p, 1, op.content)>>)

greatest_plus_one(stored) == Max({0} \cup {r.number : r \in stored}) + 1

\* save_snapshot looks again for the greatest revision.
next_revision(p) ==
    /\ transactions[p] # NONE
    /\ transactions[p].phase = "absent"
    /\ IF may_select(p)
       THEN go_on(p, "insert", <<row(p, greatest_plus_one(visible(p)),
                                     transactions[p].op.content)>>)
       ELSE end(p)

\* Mutant: the policy trusts what was verified when the connection was made.
insert_as_verified(p, r) == connections[p].verified /\ connections[p].access = "write"

\* The privilege and the policy of an INSERT.
may_insert(p, r) ==
    LET account == connections[p].account
    IN  /\ "writer" \in memberships[account]
        /\ is_mapped(account)
        /\ r.institution = current_institution(account)
        /\ current_access_mode(account) = "write"

\* Mutant: the tables have no keys.
any_row(r, stored) == TRUE

\* The primary key, and the unique snapshots and events of an engagement.
keys_are_free(r, stored) ==
    ~ \E s \in stored :
         /\ <<s.table, s.institution, s.object>> = <<r.table, r.institution, r.object>>
         /\ s.number = r.number \/ s.content = r.content

insert(p) ==
    LET r == Head(transactions[p].pending)
    IN  /\ transactions[p] # NONE
        /\ transactions[p].pending # <<>>
        /\ IF may_insert(p, r) /\ keys_are_free(r, rows \cup transactions[p].inserted)
           THEN transactions' = [transactions EXCEPT ![p].pending = Tail(@),
                                                     ![p].inserted = @ \cup {r}]
           ELSE transactions' = [transactions EXCEPT ![p] = NONE]
        /\ UNCHANGED <<configuration, sessions, connections, rows>>

commit(p) ==
    /\ transactions[p] # NONE
    /\ transactions[p].phase = "insert"
    /\ transactions[p].pending = <<>>
    /\ rows' = rows \cup transactions[p].inserted
    /\ transactions' = [transactions EXCEPT ![p] = NONE]
    /\ UNCHANGED <<configuration, sessions, connections>>

-----------------------------------------------------------------------------

Institutions == {context.institution_id : context \in Contexts}

Configure ==
    \/ \E package \in ApprovedPackages : approved_change_package(package)
    \/ \E a \in Accounts, i \in Institutions, access \in AccessModes :
          register_service_account(a, i, access)
    \/ \E a \in Accounts, i \in Institutions : disable_service_account(a, i)
    \/ \E session \in AuthorizedTenantSession : run_tenant_auth_command(session)

Connect(p) ==
    \/ \E session \in AuthorizedTenantSession : create_session(p, session)
    \/ \E a \in Accounts, access \in AccessModes : connect(p, a, access)
    \/ verify(p)
    \/ close(p)

Store(p) ==
    \/ \E op \in Operations : begin(p, op)
    \/ select(p)
    \/ next_revision(p)
    \/ insert(p)
    \/ commit(p)

Next == Configure \/ \E p \in Processes : Connect(p) \/ Store(p)

Spec == Init /\ [][Next]_vars

-----------------------------------------------------------------------------
(* Properties *)

Mapping == [service_role: Accounts, institution_id: Institutions, access_mode: AccessModes]

\* What the columns hold: an operation's content, or the beginning of a chain.
Contents ==
    {op.content : op \in Operations} \cup
        UNION {{SubSeq(op.content, 1, n) : n \in 1..Len(op.content)} :
                  op \in {op \in Operations : op.table = "audit_events"}}

\* With the checks of the columns: revisions and sequences are positive.
Row ==
    [table: Tables, institution: Institutions, object: {op.object : op \in Operations},
     number: Nat \ {0}, content: Contents]

Transaction ==
    [op: Operations, phase: {"locked", "absent", "insert"}, pending: Seq(Row),
     inserted: SUBSET Row]

\* Connections are those of sessions, and transactions those of verified connections.
TypeOK ==
    /\ packages \subseteq ApprovedPackages
    /\ mappings \in [Accounts -> {NONE} \cup [mapping: Mapping, active: BOOLEAN]]
    /\ memberships \in [Accounts -> SUBSET {"reader", "writer"}]
    /\ vouched \subseteq AuthorizedTenantSession
    /\ sessions \in [Processes -> {NONE} \cup AuthorizedTenantSession]
    /\ connections \in [Processes ->
          {NONE} \cup [account: Accounts, access: AccessModes, verified: BOOLEAN]]
    /\ transactions \in [Processes -> {NONE} \cup Transaction]
    /\ rows \subseteq Row
    /\ \A p \in Processes : connections[p] # NONE => sessions[p] # NONE
    /\ \A p \in Processes : transactions[p] # NONE =>
          connections[p] # NONE /\ connections[p].verified

\* No single person configures a tenant: every mapping in force, and the policy of
\* every authorization that a command vouched for with its context, were approved by
\* two.  For the way from signatures through packages to SQL and commands.
NobodyConfiguresAlone ==
    /\ \A a \in Accounts : is_mapped(a) =>
          \E package \in packages :
             package.request.after = mappings[a].mapping /\ ApprovedByTwo(package)
    /\ \A authorization \in vouched :
          \E package \in packages :
             /\ package.request.after = authorization.policy
             /\ package.request.context = authorization.context
             /\ ApprovedByTwo(package)

inserted(t) == IF t = NONE THEN {} ELSE t.inserted

\* Nothing is inserted unless both boundaries allow it at that moment: the session
\* may write for the institution, and the account is mapped to it for writing,
\* however the account was mapped when the connection was verified.
WritesCrossBothBoundaries ==
    [][\A p \in Processes :
          \A r \in inserted(transactions'[p]) \ inserted(transactions[p]) :
             /\ r.institution = sessions[p].institution_id
             /\ "store_write" \in sessions[p].capabilities
             /\ mappings[connections[p].account] =
                   [mapping |-> mapping(connections[p].account, r.institution, "write"),
                    active |-> TRUE]]_vars

stored(institution, table, object) ==
    {r \in rows : r.institution = institution /\ r.table = table /\ r.object = object}

\* What is stored for an engagement stays in order, even when its account is mapped
\* elsewhere and back between two statements of a transaction: snapshots are numbered
\* and different, events are one chain, a key has one request.
TablesStayOrdered ==
    \A i \in Institutions, op \in Operations :
       LET table == stored(i, op.table, op.object)
       IN  /\ {r.number : r \in table} = 1..Cardinality(table)
           /\ \A r, s \in table : r # s =>
                 CASE op.table = "engagement_snapshots" -> r.content # s.content
                   [] op.table = "audit_events" ->
                         r.number < s.number => r.content = SubSeq(s.content, 1, r.number)
                   [] op.table = "idempotency_records" -> FALSE
=============================================================================
