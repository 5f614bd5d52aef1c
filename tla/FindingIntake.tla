---------------------------- MODULE FindingIntake ----------------------------
(***************************************************************************)
(* The import of the output of scanners (intake.py): results are read in   *)
(* the order of the document, normalized to candidates, and merged with    *)
(* the candidate that has the same fingerprint.  Anything invalid refuses  *)
(* the whole import.  The end is a batch, or no batch.                     *)
(*                                                                         *)
(* Texts are numbers in their order, after redaction; CaseFold maps them   *)
(* to their folded form.  0 stands for a line or column that is not given, *)
(* and NOTHING for any other value.  A fingerprint stands for what it      *)
(* covers.                                                                 *)
(***************************************************************************)
EXTENDS Naturals, Sequences, FiniteSets, FiniteSetsExt

CONSTANTS
    Runs,     \* [tool_name, tool_version, rules]: runs of tools, with their rules
    Results,  \* [rule_id, rule_index, level, precision, message, location, ...]
    CaseFold,
    NOTHING,
    MAXIMUM_RUNS, MAXIMUM_RESULTS, MAXIMUM_TAGS_PER_FINDING

_SEVERITY_RANK_OF_TOOLS == [informational |-> 0, low |-> 1, medium |-> 2, high |-> 3]

confidence_rank == [unknown |-> 0, low |-> 1, medium |-> 2, high |-> 3]

severity_of_level ==
    [none |-> "informational", note |-> "low", warning |-> "medium", error |-> "high"]

\* What a rule or result may say of a level and a precision.  "unsupported" is a level
\* that is not in SARIF, or a rule's default configuration without one; NOTHING is a
\* result without a level, or a rule without a default configuration.
graded(x) ==
    /\ x.level \in DOMAIN severity_of_level \cup {"unsupported", NOTHING}
    /\ x.precision \in DOMAIN confidence_rank \cup {NOTHING}

ASSUME IntakeAssumptions ==
    /\ {MAXIMUM_RUNS, MAXIMUM_RESULTS, MAXIMUM_TAGS_PER_FINDING} \subseteq Nat
    /\ \A run \in Runs :
          /\ \A i, j \in DOMAIN run.rules : run.rules[i].id = run.rules[j].id => i = j
          /\ \A i \in DOMAIN run.rules :
                /\ graded(run.rules[i])
                /\ run.rules[i].id \in Nat
                /\ run.rules[i].title \in Nat \cup {NOTHING}
    /\ \A result \in Results :
          /\ graded(result)
          /\ {result.rule_id, result.rule_index} \subseteq Nat \cup {NOTHING}
          /\ {result.message, result.artifact_ref, result.start_line, result.start_column}
                \subseteq Nat

VARIABLES
    read,                  \* the results read, with their runs
    runs,                  \* the runs begun, in their order
    findings,              \* the candidates by fingerprint
    tools,
    result_count,
    unsafe_location_count,
    redacted_result_count,
    outcome                \* of the import

intakeVars == <<read, runs, findings, tools, result_count, unsafe_location_count,
                redacted_result_count, outcome>>

IntakeInit ==
    /\ read = <<>>
    /\ runs = <<>>
    /\ findings = <<>>
    /\ tools = {}
    /\ result_count = 0
    /\ unsafe_location_count = 0
    /\ redacted_result_count = 0
    /\ outcome = "reading"

-----------------------------------------------------------------------------
(* One result *)

\* The rules a result may mean: by its index, or else by its identifier.
indexed(result, run) ==
    IF result.rule_index # NOTHING
    THEN {i \in DOMAIN run.rules : i = result.rule_index + 1}
    ELSE {i \in DOMAIN run.rules : run.rules[i].id = result.rule_id}

resolved_id(result, run) ==
    IF result.rule_id # NOTHING THEN result.rule_id
    ELSE run.rules[result.rule_index + 1].id

\* An index is within the rules, and does not contradict the identifier.
_resolve_rule(result, run) ==
    /\ result.rule_index # NOTHING => indexed(result, run) # {}
    /\ result.rule_id = NOTHING => result.rule_index # NOTHING
    /\ \A i \in indexed(result, run) : run.rules[i].id = resolved_id(result, run)

descriptors(result, run) == {run.rules[i] : i \in indexed(result, run)}

\* What the result says itself, or its rule, or neither.
said(own, described, default) ==
    CASE own # NOTHING -> own
      [] own = NOTHING /\ described \ {NOTHING} # {} -> CHOOSE d \in described : d # NOTHING
      [] OTHER -> default

level_of(result, run) ==
    said(result.level, {d.level : d \in descriptors(result, run)}, "warning")

_machine_severity(result, run) == severity_of_level[level_of(result, run)]

_machine_confidence(result, run) ==
    said(result.precision, {d.precision : d \in descriptors(result, run)}, "unknown")

_tags(result, run) ==
    Range(result.tags) \cup UNION {Range(d.tags) : d \in descriptors(result, run)}

\* The tags of both lists are counted before they are made a set.
tags_listed(result, run) ==
    Len(result.tags) + MapThenSumSet(LAMBDA d : Len(d.tags), descriptors(result, run))

title_of(result, run) ==
    said(NOTHING, {d.title : d \in descriptors(result, run)}, resolved_id(result, run))

\* Where there are no partial fingerprints, the place and message make a finding.
fingerprint_of(result, run) ==
    [tool |-> CaseFold[run.tool_name], rule_id |-> resolved_id(result, run),
     partial_fingerprints |-> result.partials,
     fallback |-> IF result.partials # NOTHING THEN <<>>
                  ELSE <<result.artifact_ref, result.start_line, CaseFold[result.message]>>]

acceptable(result, run) ==
    /\ _resolve_rule(result, run)
    /\ level_of(result, run) \in DOMAIN severity_of_level
    /\ tags_listed(result, run) <= MAXIMUM_TAGS_PER_FINDING

_normalize_result(result, run) ==
    [fingerprint |-> fingerprint_of(result, run),
     source_tool |-> run.tool_name, source_tool_version |-> run.tool_version,
     title |-> title_of(result, run), message |-> result.message,
     machine_severity |-> _machine_severity(result, run),
     machine_confidence |-> _machine_confidence(result, run),
     artifact_ref |-> result.artifact_ref,
     start_line |-> result.start_line, start_column |-> result.start_column,
     tags |-> _tags(result, run), occurrence_count |-> 1,
     redaction_kinds |-> result.redactions]

-----------------------------------------------------------------------------
(* Merging *)

higher(a, b, rank) == IF rank[b] > rank[a] THEN b ELSE a

lesser(a, b) == IF b < a THEN b ELSE a

\* A position that is not given does not count.
earlier(a, b) == IF a = 0 \/ b = 0 THEN a + b ELSE lesser(a, b)

\* Mutant: the severity of the latest occurrence.
merge_with_latest_severity(current, incoming) ==
    [current EXCEPT
       !.title = lesser(@, incoming.title),
       !.machine_severity = incoming.machine_severity,
       !.machine_confidence = higher(@, incoming.machine_confidence, confidence_rank),
       !.message = lesser(@, incoming.message),
       !.artifact_ref = lesser(@, incoming.artifact_ref),
       !.start_line = earlier(@, incoming.start_line),
       !.start_column = earlier(@, incoming.start_column),
       !.tags = @ \cup incoming.tags,
       !.occurrence_count = @ + incoming.occurrence_count,
       !.redaction_kinds = @ \cup incoming.redaction_kinds]

\* The source tool and its version stay those of the first occurrence.
_merge_occurrences(current, incoming) ==
    [current EXCEPT
       !.title = lesser(@, incoming.title),
       !.machine_severity = higher(@, incoming.machine_severity, _SEVERITY_RANK_OF_TOOLS),
       !.machine_confidence = higher(@, incoming.machine_confidence, confidence_rank),
       !.message = lesser(@, incoming.message),
       !.artifact_ref = lesser(@, incoming.artifact_ref),
       !.start_line = earlier(@, incoming.start_line),
       !.start_column = earlier(@, incoming.start_column),
       !.tags = @ \cup incoming.tags,
       !.occurrence_count = @ + incoming.occurrence_count,
       !.redaction_kinds = @ \cup incoming.redaction_kinds]

\* Mutant: an occurrence replaces the candidate.
replaced(finding) ==
    [f \in DOMAIN findings \cup {finding.fingerprint} |->
        IF f = finding.fingerprint THEN finding ELSE findings[f]]

merged(finding) ==
    [f \in DOMAIN findings \cup {finding.fingerprint} |->
        IF f # finding.fingerprint THEN findings[f]
        ELSE IF f \in DOMAIN findings THEN _merge_occurrences(findings[f], finding)
        ELSE finding]

-----------------------------------------------------------------------------
(* The loop *)

Refuse ==
    /\ outcome' = "refused"
    /\ UNCHANGED <<read, runs, findings, tools, result_count, unsafe_location_count,
                   redacted_result_count>>

\* The next run of the document.
begin_run(run) ==
    /\ Len(runs) < MAXIMUM_RUNS
    /\ runs' = Append(runs, run)
    /\ tools' = tools \cup {run.tool_name}
    /\ UNCHANGED <<read, findings, result_count, unsafe_location_count,
                   redacted_result_count, outcome>>

current_run == runs[Len(runs)]

\* A candidate may not collect more tags than one result may have.
accumulate(result) ==
    LET finding == _normalize_result(result, current_run)
        after == merged(finding)
    IN  IF Cardinality(after[finding.fingerprint].tags) <= MAXIMUM_TAGS_PER_FINDING
        THEN /\ findings' = after
             /\ read' = Append(read, [result |-> result, run |-> current_run])
             /\ result_count' = result_count + 1
             /\ unsafe_location_count' = unsafe_location_count + (IF result.unsafe THEN 1 ELSE 0)
             /\ redacted_result_count' =
                   redacted_result_count + (IF result.redactions # {} THEN 1 ELSE 0)
             /\ UNCHANGED <<runs, tools, outcome>>
        ELSE Refuse

\* The next result of the run; one too many refuses the document.
read_result(result) ==
    /\ runs # <<>>
    /\ IF result_count < MAXIMUM_RESULTS /\ acceptable(result, current_run)
       THEN accumulate(result) ELSE Refuse

\* The checks of the batch that is made of the counts.
EvidenceIntakeBatch ==
    /\ result_count <= MAXIMUM_RESULTS
    /\ Cardinality(DOMAIN findings) <= result_count
    /\ {unsafe_location_count, redacted_result_count} \subseteq 0..result_count
    /\ tools # {}
    /\ MapThenSumSet(LAMBDA f : findings[f].occurrence_count, DOMAIN findings) = result_count
    /\ \A f \in DOMAIN findings : findings[f].source_tool \in tools

finish ==
    /\ runs # <<>>
    /\ outcome' = IF EvidenceIntakeBatch THEN "imported" ELSE "refused"
    /\ UNCHANGED <<read, runs, findings, tools, result_count, unsafe_location_count,
                   redacted_result_count>>

IntakeNext ==
    /\ outcome = "reading"
    /\ \/ \E run \in Runs : begin_run(run)
       \/ \E result \in Results : read_result(result)
       \/ finish

IntakeSpec == IntakeInit /\ [][IntakeNext]_intakeVars

-----------------------------------------------------------------------------
(* Properties *)

Occurrences(f) ==
    {i \in DOMAIN read : fingerprint_of(read[i].result, read[i].run) = f}

Occurrence(i) == _normalize_result(read[i].result, read[i].run)

\* v is the least of the numbers that are given in S, or 0.
LeastGiven(v, S) ==
    IF S \subseteq {0} THEN v = 0 ELSE v \in S \ {0} /\ \A w \in S \ {0} : v <= w

\* A candidate says of its occurrences what one would say who saw all of them at once,
\* in no order: the highest severity and confidence, the least texts, places and positions,
\* all tags and redactions, and how many there are.  For the pairwise merging in the
\* order of the document.
MergedAsOne ==
    /\ DOMAIN findings = {fingerprint_of(read[i].result, read[i].run) : i \in DOMAIN read}
    /\ \A f \in DOMAIN findings :
       LET candidate == findings[f]
           all == {Occurrence(i) : i \in Occurrences(f)}
       IN  /\ candidate.machine_severity \in {o.machine_severity : o \in all}
           /\ \A o \in all : /\ _SEVERITY_RANK_OF_TOOLS[o.machine_severity]
                                   <= _SEVERITY_RANK_OF_TOOLS[candidate.machine_severity]
                             /\ confidence_rank[o.machine_confidence]
                                   <= confidence_rank[candidate.machine_confidence]
           /\ candidate.machine_confidence \in {o.machine_confidence : o \in all}
           /\ LeastGiven(candidate.start_line, {o.start_line : o \in all})
           /\ LeastGiven(candidate.start_column, {o.start_column : o \in all})
           /\ candidate.message \in {o.message : o \in all}
           /\ candidate.title \in {o.title : o \in all}
           /\ candidate.artifact_ref \in {o.artifact_ref : o \in all}
           /\ \A o \in all : /\ candidate.message <= o.message
                             /\ candidate.title <= o.title
                             /\ candidate.artifact_ref <= o.artifact_ref
           /\ candidate.tags = UNION {o.tags : o \in all}
           /\ candidate.redaction_kinds = UNION {o.redaction_kinds : o \in all}
           /\ candidate.occurrence_count = Cardinality(Occurrences(f))

\* The import never fails by its own counting: after any results, the batch made of
\* what was counted passes the batch's checks.  For counts that are kept in three
\* places and checked against each other at the end.
CountsAgree == runs # <<>> => EvidenceIntakeBatch
=============================================================================
