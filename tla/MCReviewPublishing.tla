------------------------- MODULE MCReviewPublishing -------------------------
(***************************************************************************)
(* Instances for publishing a review: every small patch of a three line    *)
(* file against every way the pull request can show it, review records     *)
(* that are and are not ready for promotion, repository results, and the   *)
(* calls to Review Runs with publish contexts that are usable or not.  The *)
(* repository scan that produces such results runs beside them: the parts  *)
(* share no state and are explored one after the other.                    *)
(***************************************************************************)
EXTENDS ReviewPublishing, IssuePublishing, ServiceCalls, RepositoryScan, TLC

VARIABLES part, scan

-----------------------------------------------------------------------------
(***************************************************************************)
(* The scan: four paths in two directories, and requests that meet each    *)
(* file rule, a window with a repeated record, a bulk removal, both        *)
(* packing strategies and both triage modes.                               *)
(***************************************************************************)
MCPaths == 1 .. 4
MCSize == <<1, 2, 1, 5>>

Raw(path, valid, snippet, topic) ==
    [path |-> path, lineValid |-> valid, snippet |-> snippet, topic |-> topic]

\* Nothing; a located candidate; one repeated; two of one file; a location
\* past the end of its file with and without a snippet; one of another chunk.
MCReports ==
    {<< >>,
     <<Raw(1, TRUE, NoPath, 1)>>,
     <<Raw(1, TRUE, NoPath, 1), Raw(1, TRUE, 1, 1)>>,
     <<Raw(1, TRUE, NoPath, 1), Raw(1, TRUE, NoPath, 2)>>,
     <<Raw(1, FALSE, NoPath, 1), Raw(1, FALSE, 2, 1)>>,
     <<Raw(3, TRUE, NoPath, 1), Raw(2, TRUE, NoPath, 1)>>}

Request(mode, tree, window, strategy, triageMode) ==
    [mode |-> mode, tree |-> tree, window |-> window, dir |-> <<"a", "a", "b", "b">>,
     strategy |-> strategy, triageMode |-> triageMode]

Sources == <<{}, {}, {"absent"}, {"absent"}>>
Three == <<{}, {}, {}, {}>>
Mixed == <<{"oversized", "binary"}, {}, {"ignored", "excluded_kind"}, {"absent"}>>
Pruned == <<{"excluded_dir"}, {"binary"}, {}, {}>>
Gone == <<{"absent"}, {"absent"}, {"absent"}, {}>>
GoneIgnored == <<{}, {"absent"}, {"absent", "ignored"}, {}>>

Changed(p, status) == [path |-> p, status |-> status]

MCRequests ==
    {Request("full", Three, << >>, "single-file", "single"),
     Request("incremental", Three, <<Changed(3, "added"), Changed(2, "added")>>,
             "single-file", "batched"),
     Request("full", Sources, << >>, "batched", "batched"),
     Request("full", Mixed, << >>, "batched", "single"),
     Request("full", Pruned, << >>, "batched", "single"),
     Request("incremental", Pruned, <<Changed(1, "modified"), Changed(2, "added")>>,
             "single-file", "single"),
     Request("incremental", Sources, <<Changed(1, "modified"), Changed(1, "deleted"),
             Changed(3, "modified")>>, "batched", "single"),
     Request("incremental", Gone, <<Changed(1, "deleted"), Changed(2, "deleted")>>,
             "batched", "single"),
     Request("incremental", Gone, <<Changed(1, "deleted"), Changed(2, "deleted"),
             Changed(3, "deleted")>>, "batched", "single"),
     Request("incremental", GoneIgnored, <<Changed(1, "modified"), Changed(2, "deleted"),
             Changed(3, "deleted")>>, "single-file", "single")}

\* Kept and suppressed groups that meet in one item; the ids of a run that
\* did not report them are unknown items.
Create(kind, ids) == [kind |-> kind, items |-> ids, text |-> kind = "keep", reason |-> TRUE]

MCCreatePayloads ==
    {Create("keep", {<<1, 1>>}), Create("keep", {<<1, 1>>, <<1, 2>>}),
     Create("suppress", {<<1, 2>>, <<2, 1>>}), Create("suppress", {<<2, 1>>})}

Leave(n) == [group |-> n, kind |-> Same, items |-> Same, text |-> Same, reason |-> Same]

\* Keeping a group that was suppressed leaves it without its case texts.
MCUpdatePayloads ==
    UNION {{[Leave(n) EXCEPT !.kind = "keep"], [Leave(n) EXCEPT !.text = TRUE],
            [Leave(n) EXCEPT !.items = {<<1, 1>>}]} : n \in 1 .. 2}

-----------------------------------------------------------------------------
(***************************************************************************)
(* Publishing                                                              *)
(***************************************************************************)
MCHead == <<1, 2, 3>>
Insertions == {<< >>, <<9>>, <<9, 0>>, <<0>>}

Lines(mark, texts) == [i \in DOMAIN texts |-> [mark |-> mark, text |-> texts[i]]]

\* The hunk that drops the lines of removed and inserts after line g what
\* insert says; git lists the removed lines of a run before the added ones.
HunkOf(removed, insert) ==
    [old_start |-> 1,
     lines |-> Lines("added", insert[0]) \o FlattenSeq([l \in DOMAIN MCHead |->
                 Lines(IF l \in removed THEN "removed" ELSE "context", <<MCHead[l]>>)
                 \o Lines("added", insert[l])])]

GitOrder(removed, insert) ==
    \A g \in 0..2 : g + 1 \in removed => insert[g] = << >>

MCHunks ==
    {HunkOf(d[1], d[2]) : d \in {e \in (SUBSET DOMAIN MCHead) \X [0..3 -> Insertions] :
        GitOrder(e[1], e[2]) /\ (e[1] # {} \/ \E g \in 0..3 : e[2][g] # << >>)}}

Shown == {<<[new_start |-> 1, new_count |-> 3]>>, <<[new_start |-> 2, new_count |-> 1]>>,
          <<[new_start |-> 1, new_count |-> 1], [new_start |-> 3, new_count |-> 1]>>}

PatchFile(readable, visible, hunk, pr) ==
    [readable |-> readable, visible |-> visible, hunks |-> <<hunk>>, pr |-> pr]

SomeHunk == HunkOf({2}, [g \in 0..3 |-> IF g = 2 THEN <<9>> ELSE << >>])

MCPatches ==
    {[head |-> MCHead, file |-> f] : f \in
        {PatchFile(TRUE, TRUE, h, s) : h \in MCHunks, s \in Shown}
        \cup {PatchFile(FALSE, TRUE, SomeHunk, << >>), PatchFile(TRUE, FALSE, SomeHunk, << >>),
              PatchFile(TRUE, TRUE, SomeHunk, << >>)}}

Change(path, name, kind, status) ==
    [path |-> path, name |-> name, kind |-> kind, status |-> status, mode |-> FALSE]

A == Change("a", "a", "safe", "upsert")
AGone == Change("/workspace/a", "a", "safe", "deleted")
B == Change("b", "b", "safe", "deleted")
Nowhere == Change("/workspace", "", "empty", "upsert")
Workflow == Change(".github/workflows/x", ".github/workflows/x", "sensitive", "upsert")

Told == <<[title |-> Null, priority |-> Null, parts |-> {"description", "control_limits"}],
          [title |-> "first", priority |-> 1, parts |-> {"description", "locations"}]>>

BaseRecord ==
    [verdict |-> "confirmed-vulnerability", narratives |-> Told, mitigation |-> TRUE,
     files |-> <<A, B, AGone>>, patch |-> 40, coverage |-> "full", level |-> "static",
     regression |-> "passed", next_step |-> "none", residual |-> TRUE]

MCRecords ==
    {BaseRecord, [BaseRecord EXCEPT !.files = <<A, Nowhere>>, !.patch = 3, !.residual = FALSE],
     [BaseRecord EXCEPT !.files = <<A, Workflow>>], [BaseRecord EXCEPT !.files = <<Nowhere>>],
     [BaseRecord EXCEPT !.verdict = "no-actionable-finding", !.files = << >>, !.patch = 0,
                        !.mitigation = FALSE, !.coverage = Null, !.regression = Null,
                        !.level = Null, !.next_step = Null],
     [BaseRecord EXCEPT !.verdict = "plausible-risk", !.coverage = "partial"]}

-----------------------------------------------------------------------------
(***************************************************************************)
(* Repository results                                                      *)
(***************************************************************************)
Cvss(outcome, score, severity) == [outcome |-> outcome, score |-> score, severity |-> severity]

MCCvss == {Null, Cvss("scored", 9, "critical"), Cvss("scored", 7, "high"),
           Cvss("not-scored", Null, Null), Cvss("deferred", Null, Null)}

Case(id, disposition, verdict, cvss) ==
    [id |-> id, disposition |-> disposition, verdict |-> verdict, cvss |-> cvss]

MCScans ==
    {[cases |-> <<Case(1, "keep", "confirmed-vulnerability", x[1]),
                  Case(2, "keep", "confirmed-defect", x[2]),
                  Case(3, d, "plausible-risk", x[3])>>,
      deliveries |-> <<[id |-> 1, cases |-> {1, 2}, files |-> {"a", "b"}],
                       [id |-> 2, cases |-> {3}, files |-> {"b"}]>>] :
        x \in MCCvss \X MCCvss \X MCCvss, d \in {"keep", "drop"}}

\* The entries of the deliveries that were published, in their order.
Entries(s) ==
    LET kept == SelectSeq(<<1, 2>>, LAMBDA i : i \in s.published)
    IN [k \in DOMAIN kept |-> PublishedEntry(s.deliveries[kept[k]], s.cases)]

Summary(s) == renderRepositorySecuritySummaryComment(s.cases, Entries(s), FALSE)

NoScan == [cases |-> << >>, deliveries |-> << >>, published |-> {}]

-----------------------------------------------------------------------------
(***************************************************************************)
(* Calls to Review Runs                                                    *)
(***************************************************************************)
MCSplit == [n \in {"acme/app", "Acme/App", "other/app"} |->
               CASE n = "acme/app" -> <<"acme", "app">> [] n = "Acme/App" -> <<"Acme", "App">>
                 [] OTHER -> <<"other", "app">>]
MCLower == [n \in {"acme", "Acme", "app", "App", "other"} |->
               CASE n = "Acme" -> "acme" [] n = "App" -> "app" [] OTHER -> n]

NoFiles == Json("undefined", << >>)

\* Fields of every workflow; those another workflow uses are absent.
Repo == [owner |-> Str("acme"), name |-> Str("app"), full |-> Str("Acme/App"), branch |-> Missing,
         number |-> Missing, title |-> Missing, author |-> Missing, head |-> Missing, files |-> NoFiles,
         target |-> Missing, mode |-> Missing, base |-> Missing, workspace_ref |-> Missing,
         open_pr |-> Missing, event |-> Missing]

IssueContext == [Repo EXCEPT !.branch = Str("main"), !.number = Json("number", "7"), !.title = Str("t"),
                             !.workspace_ref = Str("main"), !.event = Str("opened")]
PrContext == [Repo EXCEPT !.number = Json("number", "7"), !.author = Json("null", ""), !.head = Str("sha"),
                          !.event = Str("synchronize"),
                          !.files = Json("array", <<[filename |-> Str("a"), patch |-> Missing],
                                                    [filename |-> Str("b"), patch |-> Json("null", "")]>>)]
ScanContext == [Repo EXCEPT !.branch = Str("main"), !.workspace_ref = Str("main"), !.target = Str("main"),
                            !.mode = Str("full"), !.base = Json("null", ""), !.head = Str("sha"),
                            !.event = Str("manual")]

MCContexts ==
    {IssueContext, PrContext, ScanContext, [IssueContext EXCEPT !.open_pr = Json("boolean", "true")],
     [IssueContext EXCEPT !.open_pr = Str("true")], [IssueContext EXCEPT !.number = Json("number", "0")],
     [IssueContext EXCEPT !.full = Str("other/app")], [PrContext EXCEPT !.name = Str("other")],
     [PrContext EXCEPT !.files.v[1].filename = Str("")], [PrContext EXCEPT !.event = Str("manual")],
     [ScanContext EXCEPT !.mode = Str("partial")], [ScanContext EXCEPT !.full = Str("acme")]}

Quiet == [workflow |-> "issue-review", context |-> IssueContext, publication |-> "none", ours |-> FALSE,
          claim |-> TRUE]

-----------------------------------------------------------------------------
Elsewhere == /\ patch = [head |-> << >>, file |-> Null] /\ author = "person" /\ attempts = 0

\* The scan of the other parts: one that has not begun.
ScanAtRest == ScanInit /\ prepared = CHOOSE r \in Requests : r.window = << >>

PublishingInit ==
    /\ part \in {"draft", "review", "summary", "calls", "scan"}
    /\ IF part = "calls" THEN CallsInit ELSE call = Idle /\ stored = Quiet
    /\ record \in IF part \in {"draft", "review"} THEN MCRecords ELSE {BaseRecord}
    /\ DraftInit /\ IssueInit
    /\ part # "draft" => openPr
    /\ posting = [pc |-> "idle", event |-> "COMMENT"] /\ reviews = {}
    /\ IF part = "review" THEN ReviewInit ELSE Elsewhere
    /\ IF part = "summary" THEN \E s \in MCScans : scan = s @@ [published |-> {}] ELSE scan = NoScan
    /\ IF part = "scan" THEN ScanInit ELSE ScanAtRest

\* A delivery's draft pull request is published.
PublishDelivery ==
    \E i \in DOMAIN scan.deliveries \ scan.published :
        scan' = [scan EXCEPT !.published = @ \cup {i}]

PublishingNext ==
    \/ /\ part = "draft" /\ IssueNext
       /\ UNCHANGED <<reviewVars, callVars, scanVars, scan, part>>
    \/ /\ part = "review" /\ ReviewNext
       /\ UNCHANGED <<draftVars, issueVars, callVars, scanVars, scan, part>>
    \/ /\ part = "summary" /\ PublishDelivery
       /\ UNCHANGED <<draftVars, issueVars, reviewVars, callVars, scanVars, part>>
    \/ /\ part = "calls" /\ CallsNext
       /\ UNCHANGED <<draftVars, issueVars, reviewVars, scanVars, scan, part>>
    \/ /\ part = "scan" /\ ScanNext
       /\ UNCHANGED <<draftVars, issueVars, reviewVars, callVars, scan, part>>

PublishingSpec ==
    /\ PublishingInit
    /\ [][PublishingNext]_<<draftVars, issueVars, reviewVars, callVars, scanVars, scan, part>>

\* The summary of a scan accounts for what it reports: every published
\* delivery is in exactly one group, that of the highest severity among its
\* cases, the counts of the cases add up, every file that two of the
\* deliveries touch is noted with both, and no case is both kept and blocked.
SummaryAccounts ==
    part = "summary" =>
        LET s == Summary(scan)
            severities(d) == {cvssSeverityRank(scan.cases[i].cvss.severity) :
                                i \in {j \in Scored(scan.cases) : scan.cases[j].id \in d.cases}}
            sum == FoldSet(LAMBDA k, n : n + s.cvss.severity_counts[k], 0, DOMAIN s.cvss.severity_counts)
        IN /\ \A i \in scan.published :
                Cardinality({k \in DOMAIN s.groups : \E j \in DOMAIN s.groups[k] :
                                s.groups[k][j].id = scan.deliveries[i].id}) = 1
           /\ \A k \in DOMAIN s.groups : \A j \in DOMAIN s.groups[k] :
                \A r \in severities(scan.deliveries[s.groups[k][j].id]) : r <= cvssSeverityRank(k)
           /\ s.cvss.scored + s.cvss.unscored = Len(scan.cases)
           /\ s.cvss.not_scored <= s.cvss.unscored
           /\ sum = s.cvss.scored
           /\ {n.file : n \in s.notes} = IF scan.published = {1, 2} THEN {"b"} ELSE {}
           /\ \A i \in DOMAIN scan.cases : scan.cases[i].disposition = "keep" =>
                scan.cases[i].id \notin s.blocked

\* What people read accounts for the record behind it: between them the
\* comment of an issue review and the body of its draft pull request leave
\* nothing out, and the summary of a repository review groups every delivery
\* once under the highest severity of its cases, with counts that add up.
SurfacesCarryTheRecord == IssueReviewIsTold /\ SummaryAccounts

=============================================================================
