# FinRedOps in TLA+

FinRedOps governs security tests of a financial institution: who may test what,
when, how often, with whose approval, and what evidence remains. This directory
is a TLA+ development kept beside the code: modules translated from
`src/src/finredops/`, TLC configurations that check small instances of them, and
theorems about them that TLAPS proves for every instance. In what follows
`x.py` is `src/src/finredops/x.py`; `PROJECT.json` maps every definition to its
lines.

    tlc -config GovernanceExecution.cfg MCGovernance      # one of the runs
    tlapm GovernanceProofs.tla                            # one module's proofs

## 1. The system

Most of the code is a set of in-process components that a deployment composes.
None of them runs a thread of its own. What is concurrent is the processes and
callers around them: several processes on one SQLite file, several operators in
one service, an isolated worker and an anchor authority elsewhere. None reads a
clock on its own (except the anchor authority): callers pass `now`.

| Component | State | Operations | Interacts with | What is hard | Must hold |
|---|---|---|---|---|---|
| governance service (`service.py`, `policy.py`, `audit.py`, `models.py`, `planner.py`) | engagements, proposals, approvals, decisions, receipts, emergency stops, request times, one audit chain | register, submit, approve, activate, pause, ingest a plan, execute | calls the policy engine and the runners; is published to the store | state changes before its audit event, which may be refused; callers' times in any order; a controlled execution waits for the network | dual control, one voice per person and role, a stop is final and inert, the rate ceiling, every result has its permission |
| controlled runner (`validation.py`, `runner.py`) | none | execute one request | polls `is_cancelled` of the service | a stop during the request | every call returns; a stopped one yields no result |
| governance store (`store.py`) | schema version, snapshots, audit events, idempotency records, protection labels | open and migrate, persist a chain, save a snapshot, encrypt existing records, record an idempotency key | several processes and institutions on one file | decisions taken before the write lock; crashes between transactions | audit trails only grow; snapshots are covered by them; institutions stay apart |
| evidence vault (`evidence_vault.py`, `vault_*.py`) | records and custody histories | ingest, access, hold, release, extend, approve deletion, export, restore | several callers; bundles go from vault to vault | three reads of the history in each operation | a hold blocks deletion whatever races; histories stay loadable; restored custody is genuine |
| workload execution (`workload_execution.py`, `workload_ledger.py`, `workload_identity.py`) | ledger of consumed one-time grants | build a lease, execute with the isolated worker | emergency-stop supplier, policy decisions, worker | two calls with one grant; a crash after consumption; a stop that is set and cleared; late answers | one request per grant; only undisturbed answers to the own request are trusted |
| audit anchoring (`anchor_*.py`, `reference_anchor.py`, `signed_evidence.py`) | the authority's ledger of receipts | sign, commit, append, verify | HTTPS client and separate authority processes | lost replies, retries, two clocks, a ledger restored from a backup | the ledger verifies offline; a retry gets the first receipt; forks are noticed |
| change control (`change_control.py`) | none (signed packages) | propose, sign, resolve, verify | tenant and database command lines | keys and signatures expire, packages do not; one person may hold several keys | nothing is configured that two people did not approve |
| tenant authorization (`tenant_auth.py`) | sessions | authorize, create a session, require a capability | change control, OIDC, the stores | an authorization is checked once | a session acts for one institution, with capabilities of an approved policy |
| PostgreSQL tenant boundary (`postgres_rls.py`, `postgres_tenant.py`, `postgres_cli.py`) | account mappings, memberships, connections, the three tables | map and disable accounts, connect, save a snapshot, persist a chain, record an idempotency key | change control, sessions, operators who run SQL | the mapping changes between the verification of a connection and its statements, and between two statements of a transaction | writes cross both boundaries; the tables stay in order |
| custody registry (`custody.py`) | artifacts, their events on one audit chain, disposed identifiers, all in memory | register, record, manifest | its manifest goes into dossiers | an artifact is stored before its first event, which may be refused | custody without gaps; only named causes break a manifest |
| evidence intake (`intake.py`) | one import: candidates, counts | import, merge | candidates are what reviews are of | occurrences are merged two at a time, in the order of the document | a candidate says what all its occurrences say; nothing is counted twice or lost |
| qualified review, trust, signed approvals (`review.py`, `trust.py`, `approval_keys.py`, `signed_approvals.py`) | immutable documents: reviews, lifecycle events, risk acceptances, assertions, signatures | review, supersede, revoke, resolve; accept a risk; approve | promotion; signers outside | the operator supplies any of the documents, in any combination; which review is authoritative; signatures that outlive their context | one authoritative review per finding; a risk has an owner who is not its reviewer; two people approve |
| promotion and reporting (`promotion.py`, `reporting.py`) | draft reports with their manifests, approved reports | promote | review, approvals | duplicates of findings whose review changes | no finding disappears; what is reported was asserted together |
| report comparison and applicability (`diffing.py`, `applicability.py`) | none | compare two reports; decide which controls apply | go into dossiers | a comparison sees two revisions only | what successive comparisons pass over, one of the ends does not show either |
| audit dossier (`bundle.py`) | none (bundles) | build, verify | report, applicability, manifest, comparison; the installed profile | documents made under other releases of the profile than the one a bundle is verified with | what verifies as ready is reconciled in all its parts |
| OIDC identity, cryptography and keys, catalogue data, release checks, command lines, API | none | | | | data, I/O or rendering |

## 2. The modules

| Module | Models | Runs | Proofs |
|---|---|---|---|
| `Governance` | service, policy engine, audit chain, control of the runner | `authorization`, `execution`, `three_people` | `GovernanceProofs` |
| `AppendOnlyLogs` | the abstract promise: logs that are only extended, one at a time | refined in `store` and `vault` | implemented, as `GovernanceStoreProofs`, `EvidenceVaultProofs` and `TenantBoundaryProofs` show |
| `GovernanceStore` | the SQLite store and the processes that use it | `store`, `store_upgrade` | `GovernanceStoreProofs` |
| `EvidenceVault` | vaults, custody histories, recovery bundles | `vault` | `EvidenceVaultProofs` |
| `WorkloadExecution` | leases, grant ledger, worker calls, emergency stop | `workload`, `workload_stale_policy` | `WorkloadExecutionProofs` |
| `AuditAnchor` | audit signatures, commitments, the authority's ledger, a monitor | `anchor` | `AuditAnchorProofs` |
| `ReviewTrust` | reviews, lifecycle events, identity assertions, resolution of histories | `report_approval` | (with `ReportApproval`) |
| `ReportApproval` | extends `ReviewTrust`: risk acceptances, promotion, approval | `report_approval` | `ReportApprovalProofs` |
| `ChangeControl` | requests, governors' signatures, approved packages (operators) | `tenant` | (with `TenantBoundary`) |
| `TenantAuthorization` | extends `ChangeControl`: routing policies, authorizations, sessions (operators) | `tenant` | (with `TenantBoundary`) |
| `TenantBoundary` | extends both: what operators configure, connections and transactions of the PostgreSQL store | `tenant` | `TenantBoundaryProofs` |
| `CustodyRegistry` | the registry and the verification of its manifests | `intake_and_dossier` | (with `AuditDossier`) |
| `ReportComparison` | the comparison of two reports (operators) | `intake_and_dossier` | (with `AuditDossier`) |
| `AuditDossier` | extends both: applicability, bundles, releases of the profile | `intake_and_dossier` | `IntakeAndDossierProofs` |
| `FindingIntake` | one import of scanner results | `intake_and_dossier` | (in `IntakeAndDossierProofs`) |

`MC<Module>` instantiates a module for TLC. A definition marked `Mutant` in a
module is the mapped definition below it with a plausible mistake; no run uses
it. It shows that the property named in `PROJECT.json` notices the mistake.

### Conventions of all modules

- Digests, hashes and signatures are perfect: two are equal when what they cover
  is equal. A hash chain covers its history, so comparing heads is comparing
  histories.
- A refused operation that raises before it changes anything is no step. One that
  changes something and then raises is a step (`Governance` has several).
- A process that dies takes no further step; unless the module says otherwise
  (`GovernanceStore`), what it had in memory plays no further part.
- Times are naturals and free: no order is assumed between what two callers pass.

### Governance

The variables are the service's dictionaries and sets under their own names.
`register_engagement`, `submit_engagement`, `record_approval`,
`activate_engagement`, `pause_engagement`, `ingest_plan` and `execute_proposal`
are the methods of `FinRedOpsService`; each is atomic, as it runs to its end
without giving way, except that a controlled execution is divided where the
runner polls `is_cancelled`: before it connects (`cancel_before_connection`,
`connect`) and when headers have arrived (`response`, or `probe_failure` with no
second poll). Preemption of one operation by another thread is not modelled: the
service has no lock and its callers are expected to serialise.

Every operation changes its dictionaries first and appends its audit event last.
`AuditChain.append` raises when the caller's time is older than the last event;
the change then stays without an event. `append`, `ingest_plan`,
`decision_unlogged` and `complete` model this. One chain is shared by all
engagements, as in the service.

Static checks (is the action catalogued, allowed and in scope, are the
parameters valid, does preflight allow the engagement) depend on nothing that
changes, so `InPolicy` and `preflight_allowed` are constants; generated plans
pass through `Plans`. `_controlled_request_times` is kept as the positions of the
admitting events, whose times are the times the code keeps.

### GovernanceStore

Two or more handles, each with an institution, on one file. `open` reads the
schema version outside any transaction; the migration scripts are transactions of
their own and may run after another handle's. `persist_audit_chain`,
`save_snapshot`, the encryption of existing records and the insertion of an
idempotency record are single transactions; the look-up of a key (`unused`) is
not in the same one as its insertion. A process publishes its chain and then its
snapshot, in that order, as `demo.py:343` does, and may crash anywhere. With
`ExclusiveUpgrade` no process opens a version-1 file beside another, which
`docs/FAILURE_RECOVERY.md` asks of operators ("Stop writers"). A file of an older
schema holds records of all three tables (`LegacyChain`, `LegacySnapshots`,
`LegacyRequests`), which the migrations carry over. A new revision is the greatest one
of its engagement plus one, 0 where there is none (`next_revision`, `store.py:321`);
that revisions number the snapshots is a consequence, and proved as one.
`AuditIsAppendOnly` is a refinement: the stored trails, without their protection,
are `AppendOnlyLogs`.

### EvidenceVault

A custody operation is three steps: the history is loaded and decided on
(`access`, `apply_legal_hold`, `release_legal_hold`, `extend_retention`,
`approve_deletion`, `export_recovery_bundle` through `load` and `_append`), loaded
and verified again by the backend (`append_event`), and inserted under the write
lock if the head is unchanged (`_insert_event`, or `refused`).
`verify_vault_history` and `evaluate_deletion_eligibility` are operators on
histories, translated once and used as guards. The digest of the eligibility an
approval carries is the prefix of the history it was evaluated on. A restore takes a
bundle that a vault exported or any of `ForeignBundles`, which no vault of the model
exported: the digest of a bundle has no key (`evidence_vault.py:291`,
`vault_bundle.py:54`), so whoever composes a consistent one may have it restored.
`RestoredHistoryIsGenuine` therefore says that restored custody is the complete custody
of another vault *or* that of a foreign bundle. All vaults
belong to one institution; encryption is not modelled. Days are `Day` ticks.
`CustodyIsAppendOnly` is a refinement of `AppendOnlyLogs`, with one log for every
piece of evidence in every vault.

### WorkloadExecution

`execute_with_isolated_worker` is five steps: it reads the emergency stop and
verifies everything against it (`begin`), consumes the grant (`consume_once`, one
transaction whose primary key refuses the second row), calls the worker
(`invoke`), is answered (`answer`, `worker_fails`) and reads the stop again
(`finish`). Between any two the stop may change, other calls proceed, and the
process may die. The supplier of the stop, the policy engine and the worker are
external. Two assumptions are made of them: `changed_at` advances with every
change of the stop, and the worker signs at most one envelope per lease. The
worker may answer a call with any envelope it ever signed.

### AuditAnchor

`sign_audit_chain` and `create_verified_audit_anchor_commitment` run in the
institution, between which the chain may grow. `append` is one
`BEGIN IMMEDIATE` transaction of an authority process, with its own clock and
key; it handles any commitment that was made, any number of times, which covers
late, repeated and retried requests and lost replies. `put_back` is the external
restore of an older ledger that `docs/AUDIT_ANCHORING.md` warns of. `accept` is a
monitor that calls `verify_audit_anchor_receipt` with the prior digest and the
expected sequence, as that document asks. A digest of a receipt is the sequence of
entries up to it. Event times are left out of the audit chain here (they are in
`Governance`).

### ReviewTrust and ReportApproval

Reviews, lifecycle events, risk acceptances, drafts with their manifests, and
approved reports are documents in files; the variables are the sets of those that
exist, and each only grows. An identifier is derived from the content, so a document
stands for its identifier and digest. Every step is one command: finalize a review
(`review_from_draft`) or a lifecycle event made from a template
(`lifecycle_event_from_draft`), finalize an acceptance
(`risk_acceptance_from_draft`), `promote` and `approve_report_with_signatures`. Each
is given any documents that exist: a promotion takes any subset of the reviews, the
events and the acceptances. No command reads a clock: the time of a resolution is
the caller's argument, so times are free, and a tick is a day.

`resolve_trusted_reviews` is translated check by check: `transitions_valid` is the
loop over the events, `roots` and `walk` the search from the root, and `linear` its
end, that everything was visited. `walk` is a recursive function by steps, which
stays where it ends, where the code breaks off. `ResolvesExactlyChains` compares it
with `is_chain`, which says what a history should be without a walk.

Who signs what is outside the code. An assertion or signature can be any that a
signing command would make a request for (`AssertionsOf`, `RiskSignatures`,
`ReportSignatures`), by any trusted key and of any time; what the verifier checks of
it decides. One intake batch and one engagement are modelled, so the fields that
bind a document to them are always right; so are a signature's purpose and object
type, which the request derives from the command. What is later than its time, of
another review or of another history is what can go wrong, and is checked.

### ChangeControl, TenantAuthorization and TenantBoundary

Change requests, signatures, packages, policies and authorizations are documents
that anyone can make whom the code lets, so `ChangeControl` and
`TenantAuthorization` have no variables: they say which packages there can be
(`ApprovedPackages`), what each permits (`verify_..._change_package`), and which
sessions can be created (`AuthorizedTenantSession`): sessions of any authorization that
is in time, whether or not its policy was approved, since `create` asks for no package
(`tenant_auth.py:451`). The holder of a key may sign
any request and state anything in the signature. A digest is the thing it covers.

`TenantBoundary` has the state: the packages that were made, the rows of
`tenant_service_accounts` and the roles granted to each account, which one script
changes together, and for each process its session, its connection, its open
transaction. An operator generates SQL with a package, and runs it whenever and as
often as he likes; since a package never stops being good, "the package exists"
is the guard of running its SQL (`register_service_account`,
`disable_service_account`). The commands of `tenant_auth_cli.py` do ask for a package;
what they have said of an authorization is `vouched` (`run_tenant_auth_command`). So
`NobodyConfiguresAlone` speaks of mappings in force and of vouched authorizations, and
not of sessions: a program that creates its own session is asked for no package by
anyone, and no command opens the PostgreSQL store.

A connection is verified by several statements outside any transaction: `connect`
looks at the memberships, `verify` at the mapping and the privileges. The store's
operations are transactions at READ COMMITTED in which every statement is a step:
the advisory lock (`begin`), the first SELECT (`select`), a second one for a new
revision (`next_revision`), one INSERT for each row (`insert`), `commit`. Row-level
security (`may_select`, `visible`, `may_insert`) reads the mapping that is committed
when the statement starts. A process may close the store or die at any point
(`close`), and closes it before it creates another session.

Configuration goes through the guarded command lines; a database administrator who
writes SQL of his own is outside, as `docs/THREAT_MODEL.md` has it, and so are changes
of role attributes, `SET ROLE` and a second contract. Reads change nothing and are no
steps; a read-only connection is modelled because it must not write.

### CustodyRegistry, ReportComparison and AuditDossier

`register` stores the artifact and then appends its event, which the chain refuses when
the caller's clock is behind the last event, or when there is no actor; the artifact
then stays. A refused `record` changes nothing. `verify` is what
`EvidenceManifest.verify` does with a manifest, check by check; each check is an operator
of its own (`unique_locators`, `chronological`, `begins_with_registration`, `orderly`), so
that properties can name the causes of a failure. The registry is in memory and is used
by one process; what differs is the callers' times.

`compare_reports` gives a delta with one field for each list of the code. Reports are
functions from identifiers to findings and from controls to conclusions, because
`validate_report` refuses two of one name.

In `AuditDossier` the documents exist (`Reports`, `ApplicabilityContext`, `Profiles` are
constants); what changes is the registry, the comparisons made, the bundles built and the
release of the program, which brings its regulatory profile (`Install`). An assessment of
applicability may have been made under any release, and need not be what
`assess_applicability` makes (`Derived`): reading one back checks its digest and fields
and derives no decision again (`applicability.py:161`), so there are assessments whose
decisions somebody edited (`EditedApplicability`). `build_audit_bundle` and
`verify_audit_bundle` are two lists of checks in two functions of the code, translated
separately; both use `_submission_blockers`, which the one stores and the other compares.
A bundle carries digests of all its parts, so a changed one is refused and only intact
ones are modelled. `overlooked` is what a builder does not notice and a verifier does:
entries over the limits that only verification has ("size"), and texts that begin or end
in blanks ("blanks"), which reading a report or an assessment back strips
(`reporting.py:728`, `applicability.py:368`), so that its digest is another.

### FindingIntake

One import: `begin_run` and `read_result` go through the document, `finish` makes the
batch. Every result is normalized (`_normalize_result`: its rule by index or identifier,
the severity and confidence it or its rule states, its fingerprint) and merged with the
candidate of the same fingerprint (`_merge_occurrences`). Anything invalid refuses the
whole import (`Refuse`). Texts are numbers in their order, `CaseFold` is the folding of
their case; redaction has already happened. Results are invalid whose rule states
defaults without a known level ("unsupported"), and whose lists of tags are longer
together than the limit, however often they repeat a tag (`tags_listed`).

## 3. The runs

| Run | Asks | Shows |
|---|---|---|
| `authorization` | who activates an engagement and lets a simulated execution through? | In every order of lifecycle operations, votes, plans and executions: `ActivationDualControl`, `SimulationDualControl`, `OneVoicePerRole`, `StopIsFinal` |
| `execution` | what do two overlapping controlled executions do against stops, a late third approval and any times? | `ControlledThreeApprovers`, `RateCeiling`, `PermissionInChain`, `StoppedIsInert`, and `CallsReturn` under fairness |
| `three_people` | are the three approvals of a controlled execution by a different person for each role? | No (finding 1) |
| `store` | what survives two processes, any old schema, encryption and crashes? | `SnapshotsAreCovered`, `RevisionsNumberSnapshots`, `LabelsAreTrue`, `KeyKeepsFirstRequest`, and the refinement `AuditIsAppendOnly` |
| `store_upgrade` | do records keep their institution when two processes open a version-1 file? | No (finding 2) |
| `vault` | what do two racing callers do to custody, and a restore elsewhere? | `HistoriesVerify`, `HoldsBlockDeletion`, `RestoredHistoryIsGenuine`, and the refinement `CustodyIsAppendOnly` |
| `workload` | what do racing, dying and retrying calls with late answers do? | `OneRequestPerGrant`, `TrustedWereUndisturbed`, `TrustedAnswersOwnRequest` |
| `workload_stale_policy` | does a newer denial stop an execution? | No (finding 3) |
| `anchor` | what do two clocks, retries and a restored ledger do? | `ChainIsAccepted`, `RetriesGetTheReceipt`, `AnchoredWereSigned`, `ForksAreNoticed` |
| `report_approval` | what does the resolver accept, what comes of a promotion of it, and what do accepted risks and approvals vouch for? | `ResolvesExactlyChains` for every combination of documents that can exist, `NothingDisappears`, `AssertedTogether`, `AcceptedRiskHasAnOwner`, `ApprovedByTwo` |
| `tenant` | what do operators who map an account here and there do to processes that are storing? | `NobodyConfiguresAlone`, `TablesStayOrdered`, `WritesCrossBothBoundaries` |
| `intake_and_dossier` | what breaks a manifest, what does a verified dossier vouch for, what do comparisons hide? And, on its own: what does an import make of its results? | `OnlyRefusalsBreakCustody`, `BrokenForGood`, `ReadyMeansReconciled`, `BuiltBundlesVerify`, `QuietDeltasCompose`; `MergedAsOne`, `CountsAgree` |

The type invariants (`TypeOK`, `CustodyTypeOK`) are proved for every instance (section 4)
and therefore in no run.

### Bounds, and why they are enough

- `authorization`: three people, one engagement, one plan, times {0, 1}, at most
  four approvals and nine events. Two approvals are required, so four admit two
  wrong ones beside the right ones (one person in two roles, a denial, a vote that
  expires). Nine events are the seven of the shortest complete execution and
  two more, such as a stop.
- `execution` starts from the state after the setup at time 0 (`RaceInit`, reached
  by the operations listed there), because the setup alone is eleven events. Two
  operators and three times with a minute of two ticks, so that a request is
  inside, at the end of and outside the window of another. Four events may be
  added before the bound stops new operations (`MaxEvents` 15, eleven of them the
  setup's); calls in flight still finish. The setup leaves out the business owner's
  votes: up to two more approvals may be recorded (`MaxApprovals` 8), the third one
  that an execution needs, or a late vote of the proposer.
- `three_people`: what one person in two roles needs, and no time passes.
- `store`: two handles of one institution, one of them encrypting; chains of two
  events, so that two processes can disagree on the second; start versions 0, 1
  and 2, the older files with an event, a snapshot and a key in use. Two institutions are in `store_upgrade`.
- `vault`: two callers and four events beside an ingest, enough for a hold and its
  release, an extension, and an approval that raced one of them. The other vault
  only receives: with two vaults a restored copy has nowhere to be restored to. One
  foreign bundle, with a hold, which is enough to differ from every exported one.
- `workload`: two calls and two leases on two grants: the leases may share a grant
  or not. Two changes of the stop set and clear it.
- `anchor`: two events, hence up to three commitments and receipts, one restore.
- `report_approval` has three batches, each with bounds of its own (`ThreeBatches`).
  Two findings with three reviews and two events, so that one finding's history may be a
  chain of three, fork, or end in a cycle beside a root while the other is its duplicate;
  no acceptance or approval. One finding with two opinions of it, of which the second
  supersedes the first or replaces it on the command line, so that there are two
  histories to promote, and one acceptance. One review with an acceptance, two
  promotions and an approval. Three days with one of validity: assertions may overlap or
  not. A skew of zero makes the boundaries of validity sharp; the skew is a constant in
  the proofs.
- `tenant`: one account, which may be mapped to either of two institutions, for
  reading or writing, or disabled, and two processes of one institution, whose
  sessions may be those of one who writes or one who reads. Two snapshots of one
  engagement, a chain of two events and one idempotency key: two writers can compete
  for a revision, a chain can be written halfway, and an INSERT can follow a SELECT
  that saw another institution. One person has keys of both governor roles, another
  has a disabled one.
- `intake_and_dossier`: three artifacts of which two share an identifier and two a
  locator, three events at two times; two releases of the profile, of which the second
  moves a control to another authority; answers that are complete, unconfirmed or
  missing; one assessment whose decision somebody edited; issued reports under either release with either conclusion, and a draft;
  revisions of other reports that differ in every way a comparison knows. One bundle, two
  comparisons. `Apart` keeps two questions apart whose combinations add nothing: several
  comparisons are made without custody and bundles, and custody ends with a bundle, as a
  bundle is a copy of what there was. An import is of at most two runs and three results
  that differ in place, text, severity, rule, tags and redaction, so that
  three occurrences of one candidate meet in every order. The two parts have no variable in common and
  are explored one at a time.

Deadlock is not checked: every model may simply have nothing left to do within
its bounds.

### Fairness

Only `CallsReturn` is a liveness property. It assumes weak fairness of `Finish`
for each session: the runner goes on whenever it can, which its code does without
waiting for anyone but the transport, and the transport answers or times out
(`BoundedTlsHeadTransport` sets a timeout on every connection). Nothing else in
the code is scheduled, so no other fairness is justified and none is used.

## 4. What is proved

All theorems hold for every value of the constants that satisfies the module's
named assumption (`GovernanceAssumptions`, `WorkloadAssumptions`,
`AnchorAssumptions`, `ReviewAssumptions` with `ApprovalAssumptions`, `ChangeAssumptions`
with `TenantAssumptions` and `BoundaryAssumptions`, `StoreAssumptions`, `VaultAssumptions` with
`BundleAssumptions`,
`CustodyAssumptions` with `DossierAssumptions`, `IntakeAssumptions`), which TLC checks in the runs; none
bounds the number of people, calls, events or times.

`GovernanceProofs`:

- `TypeCorrect`, `OneVoice`: `TypeOK` is inductive; so is `OneVoicePerRole` with it,
  since only `record_approval` adds a vote.
- `StopFinal`: from `StoppedIsPaused`, that a stopped engagement is paused: without
  it activation, which looks at the status, could bring it back.
- `Ceiling`: `RateCeiling` is about the chain, the code counts a pruned list. The
  inductive invariant `RateInv` adds that the chain is chronological
  (`ChainChronological`), and that a forgotten request is at least a minute older
  than the end of the chain (`ForgottenIsOld`). `AdmitStep` is the counting argument.
- `ActivationByTwo`, `SimulationByTwo`: `TwoRoles` shows that counting actors and
  roles separately does name two different people when two roles are required, which
  is exactly what fails for three (finding 1). `PersonMonotone` carries it along, as
  approvals are never withdrawn.

- `ControlledByThree`: `ThreeRoles` is the same count for three roles, of approvals
  that are not the proposer's; `ThreeMonotone` carries it along, past a vote of the
  proposer that is dated back.
- `ResultsArePermitted`, `StopIsInert`: `ChainStep` says what any step appends, and that
  it is inert for a stopped engagement; `ReceiptStep` and `CallStep`, where receipts and
  calls come from. Both need `StoppedIsPaused`, and the second one that a call in flight
  had its permission before the stop.

`WorkloadExecutionProofs`:

- `TypeCorrect`: with the facts that calls hold issued leases, and past the ledger a
  consumed grant.
- `OneRequest`, `OwnAnswers`: from the inductive `GrantInv`: a consumed grant belongs
  to one call past the ledger (`GrantsAreOwned`), the ledger names its lease, what
  was requested was consumed, and no call that may still ask has the same grant
  (`RequestsWereConsumed`).
- `Undisturbed`: from `StopInv`: what a waiting call has read of the stop is older
  than the stop if it has changed since. Generations may repeat; the time may not.

`AuditAnchorProofs`:

- `TypeCorrect`, `LedgerVerifies`, `MonitorNoticesForks`: from `ChainInv`: the ledger
  and what the monitor accepted are `Linked` (every receipt names its place and the
  entries before it), and the ledger is `Ordered`. Cutting the ledger keeps this
  (`LinkedCut`), so restores are covered.
- `RetriesAreAnsweredAlike`: as long as nothing was put back, every reply is on the
  ledger (`RepliesAreOnLedger`), where a commitment is only once.
- `AnchorsAreSigned`: from the inductive `CommitmentsWereSigned`, of everything that was
  committed, anchored or not; `PrefixAppend` says that a longer chain continues what the
  shorter one did.

`ReportApprovalProofs`:

- `TypeCorrect`: with the fact that the reviews are finitely many, without which a
  walk over them would not end. `HeadInHistory` shows that the end of the walk of a
  linear history is one of its reviews: the walk's steps are the history, and its
  end is a step. No induction over the walk is needed.
- `NoFindingDisappears`, `AcceptedRisksHaveOwners`, `PromotionsAreAssertedTogether`:
  manifests only accumulate, so each rests on one lemma about the promotion that
  made it (`Promoted` collects what the command has checked).
- `ApprovalsAreDual`: in the same way, from the promotion the approval cites.
- `ResolverAcceptsChains`: `EventsAreMade` (there are finitely many events, and a
  revocation replaces by nothing) is all it needs of a state; the rest is about any
  history and events. `WalkSteps` shows that the recursive walk exists, so that its
  equation may be used. `LinearIsChain` numbers the reviews by the steps of the walk that
  come to them, which are different because a walk that comes to one twice never leaves
  the circle (`WalkGoesOn`); `ChainIsLinear` follows the chain step by step.

`TenantBoundaryProofs`:

- `TypeCorrect`, `WritesCross`: from the inductive `BoundaryInv`: what a transaction will
  insert is of its session's institution and who is connected for writing has a session
  that may write (`TransactionsAreOwn`, `WritersMayWrite`), since a session is replaced
  only while nothing is connected; a mapping is that of its account; rows are finite, so
  there is a greatest revision (`GreatestExists`). What the mapping was when the
  connection was verified plays no part: the policy of the INSERT is enough.
- `ConfiguredByTwo`: a package could not be made without two people
  (`PackagesAreApproved`), packages are not forgotten, and a disabled mapping is not in
  force. The same holds of what the commands vouch for; a session alone shows nothing.
- `TablesOrdered`: from `BoundaryInv` and the inductive `OrderInv`: the tables are
  numbered without a gap and consistent (`TablesInOrder`), and so is every open
  transaction: it still follows the table it began with, and its inserted rows are
  placed behind it (`TransactionsInOrder`). That nobody else writes the same object
  meanwhile is the advisory lock (`LocksAreHeld`). That row-level security may show a
  SELECT nothing is why a row may be placed where one is already: the insertion is then
  refused.
- `TablesImplementLogs`: from the same invariants, the refinement of `AppendOnlyLogs` by
  all three tables: rows are only added (`RowsAreAdded`), to one log, and numbered rows
  with more of them make a log that continues (`LogContinues`). The SQLite store keeps
  the same promise for its trails, under `ExclusiveUpgrade`.

`GovernanceStoreProofs`, all under `ExclusiveUpgrade`, the practice that
`docs/FAILURE_RECOVERY.md` asks for; without it records change
their institution (finding 2):

- `TypeCorrect`, `SnapshotsStayCovered`, `LabelsStayTrue`, `RevisionsAreNumbers`: from the
  inductive `StoreInv`. `PhasesAgree` says which versions a handle may still believe in
  that has read one and not yet acted on it, and that a version-1 file has one process;
  `OldTables`, that a migration finds what the old file held, in the clear and of one
  institution. `Distinct` and `Numbered` are what the greatest revision plus one keeps;
  that there are as many snapshots as the greatest revision says follows from them. `PersistedAreCovered` carries what was persisted over to the
  snapshot, whatever the other process publishes in between.
- `KeysKeepRequests`, `AuditImplementsLogs`, `RecordsStay`: step by step from the same
  invariant. The refinement rests on trails without their protection: encryption
  rewrites rows and is a stutter.

`EvidenceVaultProofs`:

- `TypeCorrect`, `AllHistoriesVerify`, `RestoresAreGenuine`: from the inductive `VaultInv`.
  `CallsDecided` is the point: a call between its second look and its insertion has an
  event that is legal after the history it *saw*; the insertion compares heads, so that
  is the history it is appended to. `BundlesAreGenuine` says what a bundle under way
  carries, and survives whatever happens in the vault it came from. A foreign bundle
  needs nothing but to be of the right form: the code checks the rest of it.
- `HoldsHold`: a consequence of `HistoriesVerify`, as a deletion approval in a history
  that verifies was eligible in its prefix.
- `CustodyImplementsLogs`: every step extends one history, by one event or from nothing.

`IntakeAndDossierProofs`:

- `RegistryVerifies`, `BrokenRegistriesStay`: from the inductive `CustodyInv`: identifiers
  are unique, events are chronological and about artifacts that are there, and no
  registration follows another event, nor anything a disposal
  (`EventsFollowRegistration`). `RegisteredIsOrderly` shows that with this only the first
  event of an artifact can be wrong.
- `ReadyIsReconciled`, `BundlesVerify`: with `BundlesAreChecked`, that what building has
  checked holds of the bundle and its own release. The first one uses nothing
  of how a bundle was built but that its assessment is derived or of `EditedApplicability`:
  that conclusions agree with decisions is in what verification compares, and that they
  agree with the answers holds where the assessment is derived, and only there.
- `ComparisonsCompose`: ranks are transitive; a control that is new must not be bad.
- `TypeCorrect`. The assumptions are that severities, states and conclusions are of the
  code's enumerations, and that the questions of applicability cover the authorities of
  all controls, as `authority_flags` does.

- `ImportsMergeAsOne`, `ImportsCountRight`: from the inductive `IntakeInv`. Every
  candidate `Says` what its occurrences so far say together, and `SaysMore` shows that
  merging one more occurrence in keeps this: no fold over the occurrences has to be
  computed. `OrderIsIrrelevant` is about `_merge_occurrences` itself: two more
  occurrences may be merged in either order, with the same candidate in every field.
  `FirstIsIrrelevant` says the same of the first two, but for the tool's name and version,
  which are the first one's. The total of the occurrences is a sum over the candidates; `SumRest` lets it
  begin with any of them, and `TotalGrows` says that one more occurrence adds one.

Induction over data always enters in the same way: a set of naturals or
of subsets of a finite set has a smallest element in the well-founded orderings of the
library (`WFMin`), so a counterexample would have a smallest one (`SetInduction`,
`SmallestSubset`, `GreatestExists`). The library's induction theorems that take an operator
cannot be instantiated here. A recursive function is shown to exist before its equation is
used (`WalkSteps`, `SumExists`). No module uses a RECURSIVE operator.

Every safety invariant and action property that a passing run checks is proved. Only
model-checked is `CallsReturn`: liveness under fairness is out of the prover's reach, as
is ENABLED.

## 5. Findings

1. `policy.py:233` counts approving people and approved roles separately. One person
   who approves as business owner and as execution approver, and two who approve as
   control team, let a controlled execution through;
   `docs/CONTROLLED_VALIDATION.md:48` says "three distinct actors", one for each
   role. Run `three_people`.
2. `store.py:220` reads the schema version outside a transaction; the migration from
   version 1 is run again by a second handle that had read 1, and assigns every
   institution's rows to `default`. Run `store_upgrade`. `docs/FAILURE_RECOVERY.md`
   avoids it by stopping writers.
3. `workload_execution.py:586` accepts any decision that once allowed the proposal;
   `docs/WORKLOAD_EXECUTION.md:62` says stale-policy artifacts fail closed. Run
   `workload_stale_policy`.
4. `custody.py:263` stores an artifact before it appends its registration event. If the
   chain refuses the event, because the caller's clock is behind the last event of the
   engagement, the artifact stays without one, its identifier is taken, and no manifest
   of the registry verifies any more, whereas `docs/CHAIN_OF_CUSTODY.md:19` says that an
   artifact must begin with its registration event. The properties of run
   `intake_and_dossier` say so of the code as it is: `OnlyRefusalsBreakCustody` names the
   cause, `BrokenForGood` that it is not repaired.

## 6. Not modelled

`PROJECT.json` lists every component with the reason. In short: parsing,
redaction, rendering and command lines (no protocol); cryptography (taken as
perfect); the installation of the database schema and the checks of its catalogue;
tables of regulations and controls. `oidc_identity.py` verifies one token against given
keys and a given time and keeps nothing, so there is no behaviour to explore. Inside modelled components: institution bindings and encryption in the
vault, static checks in the policy engine, request and response bytes in the runner,
transport exceptions other than `ProbeFailure`; in the report workflow severities,
control references, report metadata, the promotion without identity assertions
(`promotion.py:414`), commands that only print, and the writing of a command's
several output files, which is one step; in the dossier the ZIP container and the
parsing of its members; in the intake the parsing of documents, the redaction of texts
and locations, and the other evidence formats (`evidence.py`, `cvss40.py`,
`supply_chain.py`).

A limit of the code that no property covers: the commands see the documents they are
given. A revocation that is left off the command line does not block a promotion
(`docs/TRUST_IDENTITY.md:111` reads as if it did), and approval looks at the promotion
only, not at what was revoked or ran out since. Nor are the manifest of a promotion and
the bundle of a vault signed: their digests are those of their contents
(`signed_approvals.py:451`, `vault_bundle.py:54`). `ApprovedByTwo` says that two people
with approver keys signed what was approved, not that the promotion was made by the
command that makes promotions; here it was.

Two more are in change control and tenant sessions. The digest of the state before a
change is signed but compared with nothing: the package that once created a mapping can
be used again after the mapping was disabled, and a disable applies to whatever the
account is mapped to (`docs/CHANGE_CONTROL.md:99` and lines 146 to 147 read as if the
prior state were matched). And a session has no end: `require` looks at its capabilities
and never at the time, so a process that created it in time may go on opening stores with
it. `TenantBoundary` has both behaviours. `WritesCrossBothBoundaries` is about the moment of
each INSERT, as row-level security is: a mapping may change between the last INSERT of a
transaction and its commit.

## 7. What remains

In order of what can go wrong:

1. **Reloading**: batches, reports and reviews go through JSON files between commands; that
   what is loaded is what was saved is a question of the conversions. The dossier has the
   one that loses something there (`overlooked`); the other modules have none.
2. **Prior states** of change packages: the replay described in section 6 stays a limit
   until the commands know what is installed.
3. **Bindings**: institutions in the vault, and the fields that bind documents to one
   batch and one engagement, which are always right here because there is one of each.
