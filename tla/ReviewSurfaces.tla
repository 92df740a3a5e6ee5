--------------------------- MODULE ReviewSurfaces ---------------------------
(***************************************************************************)
(* What a reader finds on GitHub when a review is published: the comment   *)
(* of an issue review and the body of its draft pull request, the body of  *)
(* a pull request review, and the summary comment of a repository scan     *)
(* (reviews/view-utils.ts and the three renderer.ts).                      *)
(*                                                                         *)
(* A text is what it carries: the set of its sections, its status lines,   *)
(* the files it lists, how many lines of the patch it shows and the draft  *)
(* pull request it links.  A review record is                              *)
(*   [verdict, overview, narratives, mitigation, files, patch, coverage,   *)
(*    level, regression, next_step, residual]                              *)
(* with files a sequence of file changes, patch the number of lines of     *)
(* patch_diff, and Null for what the record leaves open.                   *)
(***************************************************************************)
EXTENDS Naturals, Sequences, FiniteSets, FiniteSetsExt, SequencesExt

CONSTANTS
    Null,
    MaxPreview      \* the 32 lines of a patch preview

Verdicts == {"no-actionable-finding", "confirmed-vulnerability", "confirmed-defect",
             "plausible-risk", "inconclusive"}

-----------------------------------------------------------------------------
(***************************************************************************)
(* The opening status lines, one vocabulary for every surface              *)
(***************************************************************************)
\* Each headline names its value; a value outside the contract is unknown.
Named(value, known) == IF value \in known THEN value ELSE "unknown"

analysisHeadline(verdict) == Named(verdict, Verdicts)
coverageHeadline(coverage) ==
    Named(coverage, {"full", "partial", "local-only", "misaligned", "unresolved"})
verificationHeadline(level) ==
    Named(level, {"static", "logic-simulated", "runtime-partial", "runtime-endpoint"})
checksHeadline(regression) ==
    Named(regression, {"passed", "failed", "not-run", "not-applicable", "unresolved"})

\* The paths of a list of file changes, each once.
fileChangePaths(changes) == {changes[i].path : i \in DOMAIN changes}

mitigationHeadline(verdict, files) ==
    IF files # {} THEN [patch |-> "proposed", files |-> Cardinality(files)]
    ELSE [patch |-> IF verdict = "no-actionable-finding" THEN "not needed" ELSE "none",
          files |-> 0]

renderReviewStatusLines(record, includeNextStep) ==
    [analysis |-> analysisHeadline(record.verdict),
     mitigation |-> mitigationHeadline(record.verdict, fileChangePaths(record.files)),
     verification |-> <<coverageHeadline(record.coverage), verificationHeadline(record.level),
                        checksHeadline(record.regression)>>,
     next_step |-> IF includeNextStep /\ record.next_step # "none" THEN record.next_step ELSE "none"]

-----------------------------------------------------------------------------
(***************************************************************************)
(* Sections                                                                *)
(***************************************************************************)
\* Narratives by priority, the ones without a priority last.
sortedAnalysisNarratives(narratives) ==
    LET ranked == SelectSeq(narratives, LAMBDA n : n.priority # Null)
    IN SortSeq(ranked, LAMBDA a, b : a.priority < b.priority)
       \o SelectSeq(narratives, LAMBDA n : n.priority = Null)

\* A narrative is known by its fields that hold text; an absent field leaves
\* no line, and the control review has a heading only above something.
PartsOf(narrative, fields) == SelectSeq(fields, LAMBDA f : f \in narrative.parts)

renderControlReview(narrative) ==
    LET lists == PartsOf(narrative, <<"reachable_assets", "security_controls", "control_limits">>)
    IN IF lists = << >> THEN << >> ELSE <<"Control review">> \o lists

analysisNarrativeBodyLines(narrative) ==
    PartsOf(narrative, <<"verdict", "vulnerability_type", "validation_level", "scope_shape",
                         "outcome_deciding_control_point", "cwe_id", "description", "locations",
                         "source_facts", "sink_facts", "supported_inferences", "proof_gaps">>)
      \o renderControlReview(narrative)
      \o PartsOf(narrative, <<"scope_analysis", "related_paths", "cwe_rationale">>)

\* A narrative without a title is called by its place.
renderAnalysisNarratives(narratives) ==
    LET sorted == sortedAnalysisNarratives(narratives)
    IN [i \in DOMAIN sorted |->
          [title |-> IF sorted[i].title = Null THEN <<"Narrative", i>> ELSE <<sorted[i].title>>,
           body |-> analysisNarrativeBodyLines(sorted[i])]]

\* Of a verification: its ratings, its claim, and its three lists.
renderVerificationSummaryLines(record, unknownNextStep) ==
    {"coverage", "regression", "level", "claim"}
    \cup (IF record.next_step # Null \/ unknownNextStep THEN {"next step"} ELSE {})
    \cup (IF record.residual THEN {"findings", "evidence", "residual risks"} ELSE {})

\* What the analysis section carries, beside its narratives.
renderAnalysisSection(record) == {"verdict", "analysis"}

-----------------------------------------------------------------------------
(***************************************************************************)
(* An issue review: a comment, and perhaps a draft pull request            *)
(***************************************************************************)
hasReviewRecordPatchReadyForPromotion(record) ==
    /\ record.files # << >>
    /\ record.coverage = "full"
    /\ record.regression \in {"passed", "not-run", "not-applicable"}
    /\ record.next_step = "none"

\* The contract check of a path's shape, and the paths that only an explicit
\* policy may publish.
validateRepoRelativePathShape(change) == change.kind # "unsafe"
isSensitivePath(change) == change.kind = "sensitive"
validateRepoRelativePath(change) ==
    validateRepoRelativePathShape(change) /\ ~isSensitivePath(change)

\* A file change is [path, name, kind, status, mode]: the path as the record
\* has it, and without /workspace and with one kind of slash, its name.
normalizePromotionFilePath(change) ==
    IF change.kind = "empty" THEN Null
    ELSE IF ~validateRepoRelativePath(change) THEN "refused"
    ELSE change.name

\* Display only: a path that is refused is left out.
normalizeDisplayFiles(changes) ==
    {normalizePromotionFilePath(changes[i]) : i \in DOMAIN changes} \ {Null, "refused"}

buildPatchPreviewFromReviewRecord(record) == Min({record.patch, MaxPreview})

buildSuggestedDraftPrPlanFromReviewRecord(record) ==
    LET ready == hasReviewRecordPatchReadyForPromotion(record)
    IN [patch_ready |-> ready, changed_files |-> normalizeDisplayFiles(record.files),
        patch_preview |-> IF ready THEN buildPatchPreviewFromReviewRecord(record) ELSE 0,
        sections |-> {"verdict"} \cup (IF record.residual THEN {"residual risks"} ELSE {})]

\* The body of the draft pull request.
buildDraftPullRequestBodyFromReviewRecord(record) ==
    [status |-> renderReviewStatusLines(record, TRUE),
     sections |-> {"mitigation"} \cup renderAnalysisSection(record)
                  \cup renderVerificationSummaryLines(record, TRUE) \cup {"notes"},
     narratives |-> renderAnalysisNarratives(record.narratives),
     files |-> normalizeDisplayFiles(record.files),
     patch |-> 0, link |-> Null]

renderIssueCodeModificationSummary(record, plan) ==
    IF plan.patch_ready THEN {"title"} ELSE {"mitigation"}

renderSuggestedDraftPrSection(plan) == IF plan.patch_ready THEN plan.sections ELSE {}

\* Short when a draft pull request holds the rest, complete otherwise.
renderIssueReviewCommentFromReviewRecord(record, plan, draft) ==
    IF draft # Null
    THEN [status |-> renderReviewStatusLines(record, FALSE), sections |-> {"analysis"},
          narratives |-> << >>, files |-> {}, patch |-> 0, link |-> draft]
    ELSE [status |-> renderReviewStatusLines(record, FALSE),
          sections |-> {"patch ready"} \cup renderIssueCodeModificationSummary(record, plan)
                       \cup renderSuggestedDraftPrSection(plan)
                       \cup renderAnalysisSection(record) \cup {"mitigation"}
                       \cup renderVerificationSummaryLines(record, TRUE),
          narratives |-> renderAnalysisNarratives(record.narratives),
          files |-> fileChangePaths(record.files) \cup
                    (IF plan.patch_ready THEN plan.changed_files ELSE {}),
          patch |-> plan.patch_preview, link |-> Null]

-----------------------------------------------------------------------------
(***************************************************************************)
(* A pull request review                                                   *)
(***************************************************************************)
renderMitigationSection(record) ==
    IF record.mitigation \/ record.files # << >> THEN {"mitigation"} ELSE {}

renderVerificationSection(record) ==
    IF record.coverage = Null THEN {} ELSE
    renderVerificationSummaryLines(
        [record EXCEPT !.next_step = IF @ = "none" THEN Null ELSE @], FALSE)

renderAnalysisSummaryCommentFromReviewRecord(record) ==
    [status |-> renderReviewStatusLines(record, TRUE),
     sections |-> renderAnalysisSection(record) \cup renderMitigationSection(record)
                  \cup renderVerificationSection(record),
     narratives |-> renderAnalysisNarratives(record.narratives),
     files |-> fileChangePaths(record.files), patch |-> 0, link |-> Null]

-----------------------------------------------------------------------------
(***************************************************************************)
(* The summary of a repository scan.  A case is [id, disposition, verdict, *)
(* cvss], cvss Null or [outcome, score, severity]; a delivery [id, cases,  *)
(* files]; a published entry adds the CVSS fields of its cases.            *)
(***************************************************************************)
Severities == <<"none", "low", "medium", "high", "critical">>

cvssSeverityRank(severity) ==
    IF severity \in Range(Severities) THEN CHOOSE i \in DOMAIN Severities : Severities[i] = severity
    ELSE 0

Scored(cases) == {i \in DOMAIN cases : cases[i].cvss # Null /\ cases[i].cvss.score # Null}

severityCount(cases, severity) ==
    Cardinality({i \in Scored(cases) : cases[i].cvss.severity = severity
                    \/ (severity = "unknown" /\ cases[i].cvss.severity \notin Range(Severities))})

buildCvssSummaryFromCases(cases) ==
    [scored |-> Cardinality(Scored(cases)),
     not_scored |-> Cardinality({i \in DOMAIN cases :
                       cases[i].cvss # Null /\ cases[i].cvss.outcome = "not-scored"}),
     unscored |-> Len(cases) - Cardinality(Scored(cases)),
     severity_counts |-> [s \in Range(Severities) \cup {"unknown"} |->
                           severityCount(cases, s)]]

\* The first of the highest scores, else the outcome they have in common.
deliveryCvssFieldsFromCases(delivery, cases) ==
    LET matched == {i \in DOMAIN cases : cases[i].id \in delivery.cases /\ cases[i].cvss # Null}
        scored == matched \cap Scored(cases)
        best == Min({i \in scored : \A j \in scored : cases[j].cvss.score <= cases[i].cvss.score})
        others == {i \in matched : cases[i].cvss.outcome \notin {Null, "not-scored", "scored"}}
    IN IF scored # {}
       THEN [outcome |-> "scored", score |-> cases[best].cvss.score,
             severity |-> cases[best].cvss.severity]
       ELSE [outcome |-> IF matched # {} /\ \A i \in matched : cases[i].cvss.outcome = "not-scored"
                         THEN "not-scored"
                         ELSE IF others # {} THEN cases[Min(others)].cvss.outcome ELSE Null,
             score |-> Null, severity |-> Null]

PublishedEntry(delivery, cases) ==
    [id |-> delivery.id, case_count |-> Cardinality(delivery.cases), files |-> delivery.files]
    @@ deliveryCvssFieldsFromCases(delivery, cases)

deliverySeverityKey(entry) ==
    IF entry.outcome = "not-scored" THEN "not-scored"
    ELSE IF entry.score = Null
         THEN IF entry.outcome \notin {Null, "scored"} THEN entry.outcome ELSE "unscored"
    ELSE IF entry.severity = Null THEN "unknown" ELSE entry.severity

ScoreOf(entry) == IF entry.score = Null THEN 0 ELSE entry.score + 1

\* Score, severity, number of cases, then the title: an order without ties.
sortDeliveriesByRisk(entries) ==
    LET key(e) == <<ScoreOf(e), cvssSeverityRank(e.severity), e.case_count>>
        before(a, b) ==
            \/ \E k \in 1..3 : key(a)[k] > key(b)[k] /\ \A j \in 1..(k - 1) : key(a)[j] = key(b)[j]
            \/ key(a) = key(b) /\ a.id < b.id
    IN SortSeq(entries, before)

\* The groups of the comment: the keys by rank, each with its entries.
Groups(entries) ==
    LET sorted == sortDeliveriesByRisk(entries)
        keys == {deliverySeverityKey(entries[i]) : i \in DOMAIN entries}
    IN [k \in keys |-> SelectSeq(sorted, LAMBDA e : deliverySeverityKey(e) = k)]

\* A file that several deliveries touch, with all of them.
coordinationNotesForDeliveries(entries) ==
    LET touching(f) == {entries[i].id : i \in {j \in DOMAIN entries : f \in entries[j].files}}
        files == UNION {entries[i].files : i \in DOMAIN entries}
    IN {[file |-> f, deliveries |-> touching(f)] : f \in {g \in files : Cardinality(touching(g)) > 1}}

isBlockedConfirmedCase(case) ==
    /\ case.disposition # "keep"
    /\ case.verdict \in {"confirmed-defect", "confirmed-vulnerability", "plausible-risk"}

renderRepositorySecuritySummaryComment(cases, entries, deletionsSkipped) ==
    [warning |-> deletionsSkipped,
     keep |-> Cardinality({i \in DOMAIN cases : cases[i].disposition = "keep"}),
     published |-> Len(entries),
     cvss |-> buildCvssSummaryFromCases(cases),
     groups |-> Groups(entries),
     notes |-> coordinationNotesForDeliveries(entries),
     blocked |-> {cases[i].id : i \in {j \in DOMAIN cases : isBlockedConfirmedCase(cases[j])}}]

\* The body of a delivery's draft pull request: its files and its cases,
\* with the details of those the result still holds.
buildDeliveryDraftPrBody(delivery, cases) ==
    [case_count |-> Cardinality(delivery.cases), files |-> delivery.files,
     detailed |-> delivery.cases \cap {cases[i].id : i \in DOMAIN cases},
     listed |-> IF delivery.cases \cap {cases[i].id : i \in DOMAIN cases} = {}
                THEN delivery.cases ELSE {}]

-----------------------------------------------------------------------------
(***************************************************************************)
(* parseRepositoryWorkflowResult refuses a delivery id or a file twice,    *)
(* and a path that may not be published.                                   *)
(***************************************************************************)
requirePublishableFileChanges(changes) ==
    /\ \A i \in DOMAIN changes : validateRepoRelativePath(changes[i])
    /\ \A i, j \in DOMAIN changes : changes[i].path = changes[j].path => i = j

parseRepositoryWorkflowResult(deliveries) ==
    /\ \A i, j \in DOMAIN deliveries : deliveries[i].id = deliveries[j].id => i = j
    /\ \A i \in DOMAIN deliveries : requirePublishableFileChanges(deliveries[i].changes)

=============================================================================
