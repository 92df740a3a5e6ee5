--------------------------- MODULE RepositoryScan ---------------------------
(***************************************************************************)
(* The scan half of a repository review: RepositoryDiscoveryWorkflow and   *)
(* RepositoryScanWorkflow of workflows/repository/workflow.py with the     *)
(* discovery stage (scan_stages/discovery/stage.py), the triage stage      *)
(* (scan_stages/triage) and the preparation of the cases                   *)
(* (workflows/repository/case_execution_input.py).                         *)
(*                                                                         *)
(* Workspace paths are numbers in sorted order.  What the file rules ask   *)
(* of a path is its set of traits; the tokens of a prompt are the sum of   *)
(* the sizes of its files and of the prompt around them.  A candidate is   *)
(* identified by the path it is anchored in and a topic, which stands for  *)
(* category, line and description.                                         *)
(***************************************************************************)
EXTENDS TriageWorkbench, SequencesExt, FiniteSetsExt

CONSTANTS
    Paths,            \* 1 .. n: the paths of the workspace and of the window
    NoPath,
    Requests,         \* what a run may be asked to scan
    Reports,          \* what a chunk's agent may report
    Size,             \* tokens of a file in a prompt
    PromptTokens,     \* tokens of a prompt without files
    TargetTokens, HardLimitTokens,
    MaxConcurrency,   \* AGENT_DISCOVERY_MAX_CONCURRENCY
    MaxDeleted,       \* MAX_DELETED_FILES
    MaxLost,          \* bound on the files one step finds unreadable
    MaxBatchSize,     \* candidates of one triage batch
    MaxPasses         \* passes of one triage stage

VARIABLES
    prepared,         \* the prepared input: tree, window, modes
    phase,            \* the step of the workflow
    manifest,         \* DiscoveryManifest: admitted, skipped, chunks
    results,          \* chunk results received so far
    pending,          \* chunks whose activity is running
    nextIndex,        \* the next chunk to schedule
    discovery,        \* DiscoveryResult
    batch,            \* the triage batch whose draft runs, 0 outside batches
    batchDrafts,      \* group drafts of the batches drafted so far
    pass,             \* triage passes run
    triage            \* TriageResult: cases and suppressed candidates

discoveryVars == <<manifest, results, pending, nextIndex, discovery>>
triageVars == <<batch, batchDrafts, pass, triage>>
scanVars == <<prepared, phase, discoveryVars, triageVars, workbenchVars>>

-----------------------------------------------------------------------------
(***************************************************************************)
(* Which files are scanned                                                 *)
(***************************************************************************)

\* The rules in the order the code asks them, each with the reason it gives.
Rules ==
    <<[trait |-> "ignored",       reason |-> "paths-ignore"],
      [trait |-> "excluded_dir",  reason |-> "excluded-directory"],
      [trait |-> "excluded_kind", reason |-> "excluded-discovery-kind"],
      [trait |-> "absent",        reason |-> "missing-from-workspace"],
      [trait |-> "oversized",     reason |-> "oversized"],
      [trait |-> "binary",        reason |-> "binary-or-unreadable"]>>

Broken(traits) == {k \in DOMAIN Rules : Rules[k].trait \in traits}

\* A path is admitted, or skipped for the first rule it breaks.
_entry_from_incremental_record(traits) ==
    IF Broken(traits) = {} THEN "admitted" ELSE Rules[Min(Broken(traits))].reason

Verdict(p) == _entry_from_incremental_record(prepared.tree[p])

ManifestOf(seen) ==
    [entries |-> {p \in seen : Verdict(p) = "admitted"},
     skipped |-> {[path |-> p, reason |-> Verdict(p)] :
                      p \in {q \in seen : Verdict(q) # "admitted"}}]

\* os.walk never enters an excluded directory, so its files are not reported.
_build_scan_manifest ==
    ManifestOf({p \in Paths : prepared.tree[p] \cap {"absent", "excluded_dir"} = {}})

\* Only the first record of a path counts, and a deletion is not scanned.
FirstRecords(window) ==
    {k \in DOMAIN window : \A j \in 1 .. k - 1 : window[j].path # window[k].path}

_build_incremental_scan_manifest ==
    ManifestOf({prepared.window[k].path :
                    k \in {j \in FirstRecords(prepared.window) :
                               prepared.window[j].status # "deleted"}})

-----------------------------------------------------------------------------
(***************************************************************************)
(* Packing files into prompts                                              *)
(***************************************************************************)
Ascending(S) == SetToSortSeq(S, <)

_estimate_discovery_prompt_tokens(entries) ==
    PromptTokens + FoldSeq(LAMBDA p, sum : sum + Size[p], 0, entries)

emit_current(acc) ==
    IF acc.current = << >> THEN acc
    ELSE [acc EXCEPT !.chunks = Append(@, acc.current), !.current = << >>]

Skip(acc, p, why) == [acc EXCEPT !.skipped = @ \cup {[path |-> p, reason |-> why]}]

PackSingleFile(acc, p) ==
    IF _estimate_discovery_prompt_tokens(<<p>>) > HardLimitTokens
    THEN Skip(acc, p, "token-budget-exceeded")
    ELSE [acc EXCEPT !.chunks = Append(@, <<p>>)]

PackBatched(acc, p) ==
    LET open == IF /\ acc.current # << >>
                   /\ _estimate_discovery_prompt_tokens(Append(acc.current, p)) > TargetTokens
                THEN emit_current(acc) ELSE acc
        tokens == _estimate_discovery_prompt_tokens(Append(open.current, p))
        grown == [open EXCEPT !.current = Append(@, p)]
    IN IF open.current = << >> /\ tokens > HardLimitTokens
       THEN Skip(open, p, "token-budget-exceeded")
       ELSE IF tokens >= TargetTokens THEN emit_current(grown) ELSE grown

\* Mutant: a file that cannot be read when the chunks are packed is passed over.
_pack_discovery_chunks_PassesOver(entries, lost) ==
    LET Pack(acc, p) ==
            IF p \in lost THEN acc
            ELSE IF prepared.strategy = "single-file" THEN PackSingleFile(acc, p)
            ELSE PackBatched(acc, p)
    IN emit_current(FoldLeft(Pack, [chunks |-> << >>, current |-> << >>, skipped |-> {}],
                             Ascending(entries)))

\* The files in lost could not be read again when the chunks were packed.
_pack_discovery_chunks(entries, lost) ==
    LET Pack(acc, p) ==
            IF p \in lost THEN Skip(acc, p, "binary-or-unreadable")
            ELSE IF prepared.strategy = "single-file" THEN PackSingleFile(acc, p)
            ELSE PackBatched(acc, p)
    IN emit_current(FoldLeft(Pack, [chunks |-> << >>, current |-> << >>, skipped |-> {}],
                             Ascending(entries)))

prepare_discovery_chunks(lost) ==
    LET found == IF prepared.mode = "incremental" THEN _build_incremental_scan_manifest
                 ELSE _build_scan_manifest
        packed == _pack_discovery_chunks(found.entries, lost)
    IN [entries |-> found.entries, skipped |-> found.skipped \cup packed.skipped,
        chunks |-> packed.chunks]

-----------------------------------------------------------------------------
(***************************************************************************)
(* The discovery workflow                                                  *)
(***************************************************************************)
NoManifest == [entries |-> {}, skipped |-> {}, chunks |-> << >>]
Chunks == DOMAIN manifest.chunks
NoResult == [done |-> FALSE]

\* Chunks are scheduled in order up to the concurrency limit.
Fill(running, from) ==
    LET room == Max({0, MaxConcurrency - Cardinality(running)})
        last == Min({Len(manifest.chunks), from + room - 1})
    IN from .. last

build_repository_discovery_manifest_activity ==
    /\ phase = "manifest"
    /\ \E lost \in SUBSET prepare_discovery_chunks({}).entries :
        /\ Cardinality(lost) <= MaxLost
        /\ manifest' = prepare_discovery_chunks(lost)
    /\ phase' = "schedule"
    /\ UNCHANGED <<prepared, results, pending, nextIndex, discovery, triageVars, workbenchVars>>

ScheduleFirstChunks ==
    /\ phase = "schedule"
    /\ phase' = "scan"
    /\ results' = [i \in Chunks |-> NoResult]
    /\ pending' = Fill({}, 1)
    /\ nextIndex' = 1 + Cardinality(Fill({}, 1))
    /\ UNCHANGED <<prepared, manifest, discovery, triageVars, workbenchVars>>

\* What one chunk's agent may report: candidates with a location whose line is
\* in the file or past its end, and a snippet found in one file of the chunk
\* or in none.
ReportsOf(sources) ==
    {raws \in Reports : \A k \in DOMAIN raws : raws[k].snippet \in sources \cup {NoPath}}

\* A location outside the chunk or past the end of its file is dropped; a
\* snippet that is in a file replaces a lost location; a candidate left with
\* neither is discarded.
_normalize_candidate(sources, raw) ==
    LET located == raw.path \in sources /\ raw.lineValid
    IN [kept |-> located \/ raw.snippet # NoPath,
        id |-> <<IF located THEN raw.path ELSE raw.snippet, raw.topic>>]

Normalized(sources, raws) ==
    LET all == [k \in DOMAIN raws |-> _normalize_candidate(sources, raws[k])]
    IN SelectSeq(all, LAMBDA c : c.kept)

\* A file of the chunk that can no longer be read is skipped; the agent only
\* runs when a file is left.
scan_discovery_chunk(i, lost, raws) ==
    LET sources == Range(manifest.chunks[i]) \ lost
    IN [done |-> TRUE,
        files |-> sources,
        skipped |-> {[path |-> p, reason |-> "binary-or-unreadable"] :
                         p \in Range(manifest.chunks[i]) \cap lost},
        candidates |-> IF sources = {} THEN << >> ELSE Normalized(sources, raws)]

ChunkFinishes(i) ==
    /\ phase = "scan" /\ i \in pending
    /\ \E lost \in SUBSET Range(manifest.chunks[i]) :
        /\ Cardinality(lost) <= MaxLost
        /\ \E raws \in ReportsOf(Range(manifest.chunks[i]) \ lost) :
               results' = [results EXCEPT ![i] = scan_discovery_chunk(i, lost, raws)]
    /\ LET next == Fill(pending \ {i}, nextIndex)
       IN /\ pending' = (pending \ {i}) \cup next
          /\ nextIndex' = nextIndex + Cardinality(next)
    /\ UNCHANGED <<prepared, phase, manifest, discovery, triageVars, workbenchVars>>

\* The workflow awaits every chunk, so a chunk that fails its last attempt
\* fails the run.
ChunkFails(i) ==
    /\ phase = "scan" /\ i \in pending
    /\ phase' = "failed"
    /\ UNCHANGED <<prepared, discoveryVars, triageVars, workbenchVars>>

build_discovery_result_from_chunks ==
    LET received == SelectSeq([i \in Chunks |-> results[i]], LAMBDA r : r.done)
    IN [files |-> UNION {r.files : r \in Range(received)},
        skipped |-> manifest.skipped \cup UNION {r.skipped : r \in Range(received)},
        candidates |-> FlattenSeq([k \in DOMAIN received |-> received[k].candidates])]

\* The child workflow returns its result and nothing else of its state.
build_repository_discovery_result_activity ==
    /\ phase = "scan" /\ pending = {}
    /\ discovery' = build_discovery_result_from_chunks
    /\ phase' = "triage"
    /\ manifest' = NoManifest /\ results' = << >> /\ nextIndex' = 1
    /\ UNCHANGED <<prepared, pending, triageVars, workbenchVars>>

-----------------------------------------------------------------------------
(***************************************************************************)
(* The triage stage                                                        *)
(***************************************************************************)
CandidateIds == {discovery.candidates[k].id : k \in DOMAIN discovery.candidates}

\* The ids of the candidates anchored in one path, a repeated id repeated.
Bucket(p) == SelectSeq([k \in DOMAIN discovery.candidates |-> discovery.candidates[k].id],
                       LAMBDA id : id[1] = p)

\* Larger buckets first, then by name.
OrderedBuckets ==
    SetToSortSeq({p \in Paths : Bucket(p) # << >>},
                 LAMBDA p, q : \/ Len(Bucket(p)) > Len(Bucket(q))
                               \/ Len(Bucket(p)) = Len(Bucket(q)) /\ p < q)

Sorted(bucket) == SortSeq(bucket, LAMBDA a, b : a[2] < b[2])

Slices(s) ==
    LET n == (Len(s) + MaxBatchSize - 1) \div MaxBatchSize
    IN [k \in 1 .. n |-> SubSeq(s, (k - 1) * MaxBatchSize + 1, Min({k * MaxBatchSize, Len(s)}))]

triage_candidate_batches ==
    LET Close(acc) == IF acc.current = << >> THEN acc
                      ELSE [batches |-> Append(acc.batches, acc.current), current |-> << >>]
        Add(acc, p) ==
            LET bucket == Sorted(Bucket(p))
            IN IF Len(bucket) > MaxBatchSize
               THEN [batches |-> Close(acc).batches \o Slices(bucket), current |-> << >>]
               ELSE LET open == IF /\ acc.current # << >>
                                   /\ Len(acc.current) + Len(bucket) > MaxBatchSize
                                THEN Close(acc) ELSE acc
                    IN [open EXCEPT !.current = @ \o bucket]
    IN Close(FoldLeft(Add, [batches |-> << >>, current |-> << >>], OrderedBuckets)).batches

Completed(cases, suppressed, passes) ==
    [cases |-> cases, suppressed |-> suppressed, passes |-> passes]

\* Without candidates the stage completes without an agent.
TriageNothing ==
    /\ phase = "triage" /\ discovery.candidates = << >>
    /\ triage' = Completed({}, {}, 0)
    /\ phase' = "deletions"
    /\ UNCHANGED <<prepared, discoveryVars, batch, batchDrafts, pass, workbenchVars>>

StartSingleDraft ==
    /\ phase = "triage" /\ discovery.candidates # << >> /\ prepared.triageMode = "single"
    /\ from_candidates(CandidateIds)
    /\ phase' = "draft" /\ pass' = 0 /\ batch' = 0
    /\ UNCHANGED <<prepared, discoveryVars, batchDrafts, triage>>

\* A batch's agent works on a workbench of its own; the batches are drafted
\* concurrently and merged in their order, so the drafts are taken here one
\* batch at a time.
StartBatchDraft ==
    /\ phase = "triage" /\ discovery.candidates # << >> /\ prepared.triageMode = "batched"
    /\ batch < Len(triage_candidate_batches)
    /\ from_candidates(Range(triage_candidate_batches[batch + 1]))
    /\ phase' = "draft" /\ batch' = batch + 1
    /\ UNCHANGED <<prepared, discoveryVars, batchDrafts, pass, triage>>

AgentEdits ==
    /\ phase \in {"draft", "refinement"}
    /\ Edit
    /\ UNCHANGED <<prepared, phase, discoveryVars, triageVars>>

\* Draft edits that only created groups in bulk were not audited.
_should_run_another_triage_pass ==
    /\ MaxPasses > 1
    /\ \/ ~constraints
       \/ edits \in {<<"create_groups">>, <<"delete_groups", "create_groups">>}

\* The agent may only answer that it is done when the constraints hold.
FinishSingleDraft ==
    /\ phase = "draft" /\ batch = 0 /\ constraints
    /\ pass' = pass + 1
    /\ IF _should_run_another_triage_pass
       THEN phase' = "refinement" /\ edits' = << >>
       ELSE phase' = "export" /\ edits' = edits
    /\ UNCHANGED <<prepared, discoveryVars, batch, batchDrafts, triage, items, groups, nextNumber>>

group_drafts ==
    SetToSeq({groups[n] : n \in {m \in DOMAIN groups : groups[m].items # {}}})

FinishBatchDraft ==
    /\ phase = "draft" /\ batch > 0 /\ constraints
    /\ batchDrafts' = Append(batchDrafts, group_drafts)
    /\ pass' = pass + 1
    /\ phase' = IF batch = Len(triage_candidate_batches) THEN "merge" ELSE "triage"
    /\ from_candidates({})
    /\ UNCHANGED <<prepared, discoveryVars, batch, triage>>

\* Every batch's groups are created on the shared workbench in batch order;
\* a candidate id that was in two batches leaves the group of the earlier.
MergeBatchDrafts ==
    /\ phase = "merge"
    /\ LET all == FlattenSeq(batchDrafts)
           n == Len(all)
       IN /\ items' = CandidateIds
          /\ groups' = [k \in 1 .. n |-> Without(all[k], ClaimedAfter(all, k))]
          /\ nextNumber' = 1
    /\ edits' = << >> /\ batchDrafts' = << >>
    /\ phase' = IF MaxPasses > 1 THEN "refinement" ELSE "export"
    /\ UNCHANGED <<prepared, discoveryVars, batch, pass, triage>>

FinishRefinement ==
    /\ phase = "refinement" /\ constraints
    /\ pass' = pass + 1
    /\ phase' = "export"
    /\ UNCHANGED <<prepared, discoveryVars, batch, batchDrafts, triage, workbenchVars>>

\* The stage fails when the workbench is incomplete, as when an agent gives
\* up: triage is fail-fast and the run fails with its last attempt.
ExportTriage ==
    /\ phase = "export"
    /\ IF constraints
       THEN /\ triage' = Completed(ExportedCases, ExportedSuppressions, pass)
            /\ phase' = "deletions"
       ELSE phase' = "failed" /\ UNCHANGED triage
    /\ from_candidates({})
    /\ UNCHANGED <<prepared, discoveryVars, batch, batchDrafts, pass>>

TriageAgentFails ==
    /\ phase \in {"draft", "refinement"}
    /\ phase' = "failed"
    /\ from_candidates({}) /\ batchDrafts' = << >>
    /\ UNCHANGED <<prepared, discoveryVars, batch, pass, triage>>

-----------------------------------------------------------------------------
(***************************************************************************)
(* Deletions of the window and the cases of the run                        *)
(***************************************************************************)
_deleted_paths_for_review ==
    {prepared.window[k].path : k \in {j \in DOMAIN prepared.window :
        prepared.window[j].status = "deleted" /\ "ignored" \notin prepared.tree[prepared.window[j].path]}}

deleted_file_count ==
    IF prepared.mode = "incremental" THEN Cardinality(_deleted_paths_for_review) ELSE 0

deletion_review_skipped == deleted_file_count > MaxDeleted

Directories == {prepared.dir[p] : p \in _deleted_paths_for_review}

\* One case for every directory that lost files, unless the window is a bulk
\* removal.
deleted_repository_cases ==
    IF prepared.mode # "incremental" \/ deletion_review_skipped THEN {}
    ELSE {{p \in _deleted_paths_for_review : prepared.dir[p] = d} : d \in Directories}

\* The batch is refused when two cases would share an id; a case's id is
\* determined by its members, a deletion case's by its directory.
prepare_repository_case_review_inputs_activity ==
    /\ phase = "deletions"
    /\ phase' = "cases"
    /\ UNCHANGED <<prepared, discoveryVars, triageVars, workbenchVars>>

-----------------------------------------------------------------------------
ScanInit ==
    /\ prepared \in Requests
    /\ phase = "manifest"
    /\ manifest = NoManifest
    /\ results = << >> /\ pending = {} /\ nextIndex = 1
    /\ discovery = [files |-> {}, skipped |-> {}, candidates |-> << >>]
    /\ batch = 0 /\ batchDrafts = << >> /\ pass = 0
    /\ triage = Completed({}, {}, 0)
    /\ items = {} /\ groups = << >> /\ nextNumber = 1 /\ edits = << >>

ScanNext ==
    \/ build_repository_discovery_manifest_activity
    \/ ScheduleFirstChunks
    \/ \E i \in Chunks : ChunkFinishes(i) \/ ChunkFails(i)
    \/ build_repository_discovery_result_activity
    \/ TriageNothing \/ StartSingleDraft \/ StartBatchDraft
    \/ AgentEdits \/ TriageAgentFails
    \/ FinishSingleDraft \/ FinishBatchDraft \/ MergeBatchDrafts \/ FinishRefinement
    \/ ExportTriage
    \/ prepare_repository_case_review_inputs_activity

ScanSpec == ScanInit /\ [][ScanNext]_scanVars

-----------------------------------------------------------------------------
\* The paths a run is answerable for: the window's, or the walked tree's.
Offered ==
    IF prepared.mode = "incremental" THEN {prepared.window[k].path : k \in DOMAIN prepared.window}
    ELSE {p \in Paths : prepared.tree[p] \cap {"absent", "excluded_dir"} = {}}

Ignored(p) == "ignored" \in prepared.tree[p]

\* Every candidate triage sees is anchored in a file that was scanned: a
\* location outside the chunk never survives, and one replaced by a snippet
\* points into a file of the same chunk.
CandidatesAreAnchored ==
    \A k \in DOMAIN discovery.candidates : discovery.candidates[k].id[1] \in discovery.files

\* When the cases of a run are prepared, every path it was asked about was
\* scanned, or reported skipped with one reason, or - a deletion - is in
\* exactly one deletion case; unless the deletions are ignored or the result
\* says that deletion review was skipped.  No path is lost between the
\* manifest, the packing and the scan, where each can still drop it; and no
\* candidate speaks of a path that was not scanned.
FilesAccounted ==
    /\ CandidatesAreAnchored
    /\ phase = "cases" =>
        \A p \in Offered :
            LET reasons == {s.reason : s \in {t \in discovery.skipped : t.path = p}}
                reviews == {c \in deleted_repository_cases : p \in c}
            IN \/ p \in discovery.files /\ reasons = {}
               \/ p \notin discovery.files /\ Cardinality(reasons) = 1
               \/ p \in _deleted_paths_for_review /\ Cardinality(reviews) = 1
               \/ p \in _deleted_paths_for_review /\ deletion_review_skipped
               \/ prepared.mode = "incremental" /\ Ignored(p)

\* A completed triage decided every candidate id exactly once: it is in one
\* case, or suppressed, and never both - whatever the agent's edits, the
\* passes and the merge of batches that share an id; and on the way there no
\* item is ever in two groups, in a batch call as much as alone.
TriagePartition ==
    /\ GroupsAreDisjoint
    /\ phase \in {"deletions", "cases"} =>
        /\ (UNION triage.cases) \cup triage.suppressed = CandidateIds
        /\ (UNION triage.cases) \cap triage.suppressed = {}
        /\ \A c, d \in triage.cases : c = d \/ c \cap d = {}

\* Nothing is lost on the way of a repository scan, neither a file between the
\* manifest and the cases (discovery/stage.py, batching.py) nor a candidate in
\* triage (workbench_state.py).
NothingIsLost == FilesAccounted /\ TriagePartition

=============================================================================
