------------------------- MODULE MCIntakeAndDossier -------------------------
(* Small instances of AuditDossier and of FindingIntake for TLC.  They share no state: *)
(* the one is explored while the other has not begun.                                  *)
EXTENDS AuditDossier, FindingIntake, TLC

-----------------------------------------------------------------------------
(* Dossiers *)

Control(id, authority) ==
    [control_id |-> id, authority |-> authority, source_url |-> authority,
     assessment_types |-> {"annual"}]

\* A release of the profile, and one that moves a control to another authority.
SmallProfiles ==
    [v1 |-> {Control("c1", "BDDK"), Control("c2", "BDDK")},
     v2 |-> {Control("c1", "BDDK"), Control("c2", "KVKK")}]

Artifact(id, locator, collected_at) ==
    [evidence_id |-> id, locator |-> locator, collected_at |-> collected_at]

SmallArtifacts ==
    {Artifact("e1", "l1", 0), Artifact("e1", "l2", 1), Artifact("e2", "l1", 0)}

Answers(kvkk, confirmed_by) ==
    [institution_name |-> "bank", assessment_type |-> "annual",
     in_scope |-> [BDDK |-> "in_scope", KVKK |-> kvkk], confirmed_by |-> confirmed_by]

SmallContexts ==
    {Answers("out_of_scope", "legal"), Answers("in_scope", "legal"),
     Answers("in_scope", ""), Answers("unanswered", "")}

\* All is confirmed to be in scope, but the second control was decided not to apply.
SmallEdited ==
    {[context |-> Answers("in_scope", "legal"), profile |-> "v2",
      decisions |-> [c \in SmallProfiles.v2 |->
                        IF c.control_id = "c1" THEN "applicable" ELSE "not_applicable"]]}

Document(organization, p, status, complete, c2, found) ==
    [assessment_type |-> "annual", organization |-> organization, profile |-> p,
     status |-> status, complete |-> complete, issued_at |-> 0,
     human_approvals |-> IF status = "draft" THEN {"anna"} ELSE {"anna", "ben"},
     evidence_refs |-> {"l1"}, findings |-> found,
     conclusions |-> [c1 |-> "conforms"] @@ c2]

Concluded(conclusion) == "c2" :> conclusion

Found(severity, status) == "f1" :> [severity |-> severity, status |-> status]

\* Reports of the bank under either release, with either conclusion, and a draft.
BankReports ==
    {Document("bank", p, "issued", TRUE, Concluded(c), Found("high", "closed")) :
        p \in {"v1", "v2"}, c \in {"conforms", "not_applicable"}} \cup
    {Document("bank", "v2", "draft", TRUE, Concluded("conforms"), Found("high", "closed"))}

\* Revisions of others' drafts, that are not complete: one changes in its findings,
\* the other one in its conclusions.
Revisions ==
    {Document("broker", "v2", "draft", FALSE, <<>>, found) :
        found \in {<<>>, Found("high", "open"), Found("low", "risk_accepted"),
                      Found("low", "closed"), Found("high", "remediated")}} \cup
    {Document("insurer", "v2", "draft", FALSE, c2, <<>>) :
        c2 \in {<<>>, Concluded("conforms"), Concluded("not_tested"), Concluded("gap")}}

SmallReports == BankReports \cup Revisions

\* Several comparisons are explored on their own, and custody ends with a bundle.
Apart ==
    /\ deltas # {} => _artifacts = {}
    /\ Cardinality(deltas) > 1 => bundles = {} /\ profile = "v2"
    /\ \A b \in bundles : b.evidence = manifest

-----------------------------------------------------------------------------
(* Imports *)

CONSTANTS t1, t2, t3 \* tags

Rule(id, level, precision, tags) ==
    [id |-> id, level |-> level, precision |-> precision, title |-> id + 1, tags |-> tags]

\* Two versions of a tool whose names differ in their case only, with other rules; one
\* rule lists a tag twice, and one has no level where it should have one.
SmallRuns ==
    {[tool_name |-> 1, tool_version |-> 1,
      rules |-> <<Rule(5, "error", NOTHING, <<t1, t1>>), Rule(6, NOTHING, "high", <<>>),
                 Rule(7, "unsupported", NOTHING, <<>>)>>],
     [tool_name |-> 2, tool_version |-> 2, rules |-> <<Rule(6, "note", "low", <<t2>>)>>]}

Folded == [t \in 1..4 |-> IF t = 1 THEN 2 ELSE IF t = 3 THEN 4 ELSE t]

Result(rule_id, rule_index, level, message, partials, line, tags) ==
    [rule_id |-> rule_id, rule_index |-> rule_index, level |-> level,
     precision |-> NOTHING, message |-> message, partials |-> partials,
     artifact_ref |-> IF line = 0 THEN 2 ELSE 1, unsafe |-> line = 0,
     start_line |-> line, start_column |-> IF message = 3 THEN 7 ELSE 0,
     tags |-> tags, redactions |-> IF message = 4 THEN {"secret_field"} ELSE {}]

\* Results that are alike but for their place, text, severity or tags.
SmallResults ==
    {Result(6, NOTHING, level, message, "p1", line, <<>>) :
        level \in {NOTHING, "none"}, message \in {3, 4}, line \in {0, 1}} \cup
    {Result(NOTHING, index, NOTHING, message, NOTHING, 1, <<>>) :
        index \in 0..2, message \in {3, 4}} \cup
    {Result(6, NOTHING, "warning", 4, "p1", 2, <<t3>>),
     Result(5, 0, NOTHING, 4, "p1", 1, <<t1>>), Result(6, 0, "error", 3, "p1", 9, <<t1>>)}

-----------------------------------------------------------------------------

InitApart == Init /\ IntakeInit

NextApart ==
    \/ runs = <<>> /\ Next /\ Apart' /\ UNCHANGED intakeVars
    \/ vars = <<{}, <<>>, {}, "v1", {}, {}>> /\ IntakeNext /\ UNCHANGED vars

SpecApart == InitApart /\ [][NextApart]_<<vars, intakeVars>>
=============================================================================
