-------------------------- MODULE ReviewPublishing --------------------------
(***************************************************************************)
(* Publishing the review of a pull request (pull-requests/publish.ts,      *)
(* suggestion-comments.ts, github/comment-service.ts): one review with the *)
(* summary, the inline suggestions and what could not be suggested.  The   *)
(* attempt is repeated after a crash or a lost answer; who may attempt it  *)
(* is the business of PublicationProtocol.                                 *)
(*                                                                         *)
(*   patch      the file of the mitigation patch and of the pull request   *)
(*   author     the pull request's author: this app, a person, or an app   *)
(*              login the stored context did not keep                      *)
(*   posting    where the attempt is and the event it asks for             *)
(*   reviews    the reviews of this run on the pull request                *)
(*   attempts   what is left of attempts                                   *)
(*                                                                         *)
(* From the patch to the inline suggestions (suggestion-service.ts): a     *)
(* text line is a natural number, 0 for a blank one.  A hunk of the patch  *)
(* is [old_start, lines], a line of it [mark, text]; a hunk of the pull    *)
(* request is what it shows of the right side, [new_start, new_count].  A  *)
(* patch file is [readable, visible, hunks, pr]: whether its path can be   *)
(* decoded, whether the pull request shows a diff of it, the patch's hunks *)
(* and the pull request's.                                                 *)
(***************************************************************************)
EXTENDS DraftPullRequest

CONSTANTS
    Patches,           \* [head, file] with a patch file
    MaxReviewAttempts,
    MaxListed          \* the 10 unmapped changes a review lists one by one

\* A patch file has finitely many hunks, each of finitely many lines.
ASSUME PatchesAreFinite ==
    \A p \in Patches : /\ IsFiniteSet(DOMAIN p.file.hunks)
                      /\ \A h \in DOMAIN p.file.hunks : IsFiniteSet(DOMAIN p.file.hunks[h].lines)

ASSUME ListedIsNatural == MaxListed \in Nat

VARIABLES patch, author, posting, reviews, attempts

reviewVars == <<patch, author, posting, reviews, attempts>>

Blank == 0

-----------------------------------------------------------------------------
(***************************************************************************)
(* Ranges of lines                                                         *)
(***************************************************************************)
toLineRange(start, count) ==
    IF start = 0 \/ count = 0 THEN {} ELSE start..(start + count - 1)

rangesOverlap(left, right) == left \cap right # {}

\* The first of the pull request's hunks that shows a line of the block.
findAnchoringHunkForBlock(block, prHunks) ==
    LET range == block.start_line..block.line
        anchors == {i \in DOMAIN prHunks :
                       rangesOverlap(range, toLineRange(prHunks[i].new_start, prHunks[i].new_count))}
    IN IF anchors = {} THEN {} ELSE
       toLineRange(prHunks[Min(anchors)].new_start, prHunks[Min(anchors)].new_count)

-----------------------------------------------------------------------------
(***************************************************************************)
(* Blocks: one for each run of changed lines                               *)
(***************************************************************************)
IsContext(hunk, i) == i \in DOMAIN hunk.lines /\ hunk.lines[i].mark = "context"
IsChange(hunk, i) == i \in DOMAIN hunk.lines /\ hunk.lines[i].mark # "context"

\* Mutant: added lines move the cursor of the old file.
OldLineAt_CountsAdded(hunk, i) == hunk.old_start + i - 1

\* The line of the old file at which line i of the hunk stands.
OldLineAt(hunk, i) ==
    hunk.old_start + Cardinality({j \in 1..(i - 1) : hunk.lines[j].mark # "added"})

RunStarts(hunk) == {i \in DOMAIN hunk.lines : IsChange(hunk, i) /\ ~IsChange(hunk, i - 1)}

RunEnd(hunk, start) ==
    Max({i \in DOMAIN hunk.lines : i >= start /\ \A j \in start..i : IsChange(hunk, j)})

\* join and trimEnd: trailing blank lines are not part of the replacement.
TrimEnd(texts) ==
    LET last == Max({0} \cup {i \in DOMAIN texts : texts[i] # Blank})
    IN SubSeq(texts, 1, last)

TextsOf(lines, mark) ==
    LET marked == SelectSeq(lines, LAMBDA l : l.mark = mark)
    IN [i \in DOMAIN marked |-> marked[i].text]

\* A pure insertion has no line of its own: its replacement repeats the
\* context line after it, or else the one before it.
Anchored(hunk, start, end, core) ==
    LET before == {i \in 1..(start - 1) : IsContext(hunk, i)}
    IN IF IsContext(hunk, end + 1) THEN {Append(core, hunk.lines[end + 1].text)}
       ELSE IF before # {} THEN {<<hunk.lines[Max(before)].text>> \o core}
       ELSE {}

BlocksOfRun(hunk, start) ==
    LET end == RunEnd(hunk, start)
        run == SubSeq(hunk.lines, start, end)
        added == TextsOf(run, "added")
        core == TrimEnd(added)
        removed == {OldLineAt(hunk, i) : i \in {j \in start..end : hunk.lines[j].mark = "removed"}}
        block(first, last, texts) ==
            [run |-> start, start_line |-> first, line |-> last, replacement |-> texts]
    IN IF added = << >> THEN {block(Min(removed), Max(removed), << >>)}
       ELSE IF core = << >> THEN {}
       ELSE IF removed # {} THEN {block(Min(removed), Max(removed), core)}
       ELSE IF OldLineAt(hunk, start) = 0 THEN {}
       ELSE {block(OldLineAt(hunk, start), OldLineAt(hunk, start), texts) :
                texts \in Anchored(hunk, start, end, core)}

splitWorkspaceHunkIntoSuggestionBlocks(hunk) ==
    UNION {BlocksOfRun(hunk, start) : start \in RunStarts(hunk)}

-----------------------------------------------------------------------------
(***************************************************************************)
(* The manifest of a patch file                                            *)
(***************************************************************************)
Unmapped(reason, hunk, run) == [reason |-> reason, hunk |-> hunk, run |-> run]

\* The block's range is cut to the lines the anchoring hunk shows.
CandidateOf(block, hunk, anchor) ==
    [hunk |-> hunk, run |-> block.run,
     start_line |-> Max({block.start_line, Min(anchor)}),
     line |-> Min({block.line, Max(anchor)}),
     replacement |-> block.replacement]

HunkManifest(file, h) ==
    LET blocks == splitWorkspaceHunkIntoSuggestionBlocks(file.hunks[h])
        anchor(b) == findAnchoringHunkForBlock(b, file.pr)
    IN [candidates |-> {CandidateOf(b, h, anchor(b)) : b \in {c \in blocks : anchor(c) # {}}},
        unmapped |-> IF blocks = {} THEN {Unmapped("empty", h, 0)}
                     ELSE {Unmapped("no_overlap", h, b.run) : b \in {c \in blocks : anchor(c) = {}}}]

FileManifest(file) ==
    LET refused(reason) == [candidates |-> {}, unmapped |-> {Unmapped(reason, 0, 0)}]
        parts == {HunkManifest(file, h) : h \in DOMAIN file.hunks}
    IN IF ~file.readable THEN refused("path")
       ELSE IF ~file.visible THEN refused("not_visible")
       ELSE IF file.pr = << >> THEN refused("no_hunks")
       ELSE [candidates |-> UNION {p.candidates : p \in parts},
             unmapped |-> UNION {p.unmapped : p \in parts}]

-----------------------------------------------------------------------------
(***************************************************************************)
(* The reference: what a reader gets who accepts suggestions               *)
(***************************************************************************)

\* GitHub replaces the lines of each accepted suggestion.
Accepted(head, candidates) ==
    FlattenSeq([l \in DOMAIN head |->
        LET covering == {c \in candidates : l \in c.start_line..c.line}
        IN IF covering = {} THEN <<head[l]>>
           ELSE IF \E c \in covering : c.start_line = l
                THEN (CHOOSE c \in covering : c.start_line = l).replacement
           ELSE << >>])

\* The added lines of a run up to its last one with a text.
Kept(hunk, i) == \E j \in DOMAIN hunk.lines :
    /\ j >= i /\ hunk.lines[j].mark = "added" /\ hunk.lines[j].text # Blank
    /\ \A k \in i..j : IsChange(hunk, k)

\* The file with the runs of the hunk that start at one of runs.
PatchedBy(head, hunk, runs) ==
    LET old == Cardinality({i \in DOMAIN hunk.lines : hunk.lines[i].mark # "added"})
        in(i) == \E s \in runs : i \in s..RunEnd(hunk, s)
        out(i) == CASE hunk.lines[i].mark = "context" -> <<hunk.lines[i].text>>
                    [] hunk.lines[i].mark = "removed" -> IF in(i) THEN << >> ELSE <<hunk.lines[i].text>>
                    [] hunk.lines[i].mark = "added" ->
                          IF in(i) /\ Kept(hunk, i) THEN <<hunk.lines[i].text>> ELSE << >>
    IN SubSeq(head, 1, hunk.old_start - 1)
       \o FlattenSeq([i \in DOMAIN hunk.lines |-> out(i)])
       \o SubSeq(head, hunk.old_start + old, Len(head))

-----------------------------------------------------------------------------
\* The login the context keeps is this app's.
isCurrentAppBotLogin(login) == login = "app"

\* A person's pull request without an actionable finding is approved;
\* everything else is a comment, confirmed findings too.
reviewEventForRecord ==
    IF isCurrentAppBotLogin(author) THEN "COMMENT"
    ELSE IF record.verdict = "no-actionable-finding" THEN "APPROVE" ELSE "COMMENT"

shouldPublishSuggestions == record.patch > 0

Manifest == IF shouldPublishSuggestions THEN FileManifest(patch.file)
            ELSE [candidates |-> {}, unmapped |-> {}]

\* The unmapped changes a review lists, and how many more it mentions.
appendUnmappedSuggestionSection(unmapped) ==
    [listed |-> Min({Cardinality(unmapped), MaxListed}),
     more |-> Cardinality(unmapped) - Min({Cardinality(unmapped), MaxListed})]

\* The body mentions unmapped changes only beside suggestions.
ReviewBody ==
    [summary |-> renderAnalysisSummaryCommentFromReviewRecord(record),
     unmapped |-> IF Manifest.candidates # {}
                  THEN appendUnmappedSuggestionSection(Manifest.unmapped)
                  ELSE [listed |-> 0, more |-> 0]]

Review(event) ==
    [event |-> event, body |-> ReviewBody, comments |-> Manifest.candidates,
     number |-> Cardinality(reviews) + 1]

-----------------------------------------------------------------------------
ReviewInit ==
    /\ patch \in Patches
    /\ author \in {"app", "person", "forgotten app"}
    /\ posting = [pc |-> "idle", event |-> "COMMENT"]
    /\ reviews = {}
    /\ attempts = MaxReviewAttempts

\* publishPullRequestReviewSideEffect composes the review.
ComposeReview ==
    /\ posting.pc = "idle" /\ attempts > 0
    /\ attempts' = attempts - 1
    /\ posting' = [pc |-> "finding", event |-> reviewEventForRecord]
    /\ UNCHANGED <<patch, author, reviews>>

\* Mutant: an attempt does not look for what an earlier one left.
findPullRequestReviewByMarker_Skips ==
    /\ posting.pc = "finding"
    /\ posting' = [posting EXCEPT !.pc = "creating"]
    /\ UNCHANGED <<patch, author, reviews, attempts>>

\* A review of this app with the run's marker, on any page, is reused.
findPullRequestReviewByMarker ==
    /\ posting.pc = "finding"
    /\ posting' = [posting EXCEPT !.pc = IF reviews # {} THEN "done" ELSE "creating"]
    /\ UNCHANGED <<patch, author, reviews, attempts>>

\* GitHub does not let an account approve its own pull request.
GitHubRefuses(event) == event = "APPROVE" /\ author # "person"

\* isOwnPullRequestApprovalError: the same review again, as a comment.
createPullRequestReview ==
    /\ posting.pc = "creating"
    /\ IF GitHubRefuses(posting.event)
       THEN /\ posting' = [posting EXCEPT !.event = "COMMENT"]
            /\ UNCHANGED reviews
       ELSE /\ reviews' = reviews \cup {Review(posting.event)}
            /\ posting' = [posting EXCEPT !.pc = "done"]
    /\ UNCHANGED <<patch, author, attempts>>

\* A crash, or an answer that never came: the review may have been created.
ReviewAttemptDies ==
    /\ posting.pc # "idle"
    /\ posting' = [posting EXCEPT !.pc = "idle"]
    /\ UNCHANGED <<patch, author, reviews, attempts>>

ReviewNext ==
    \/ ComposeReview \/ findPullRequestReviewByMarker
    \/ createPullRequestReview \/ ReviewAttemptDies

ReviewSpec ==
    DraftInit /\ ReviewInit /\ [][ReviewNext /\ UNCHANGED draftVars]_<<draftVars, reviewVars>>

-----------------------------------------------------------------------------
\* However often the attempt is repeated, the pull request gets one review of
\* this run.  It approves only what had no actionable finding and is not the
\* app's own, and beside its suggestions it accounts for every change of the
\* patch that is not among them.
OneHonestReview ==
    /\ Cardinality(reviews) <= 1
    /\ \A r \in reviews :
         /\ r.event = "APPROVE" => author = "person" /\ record.verdict = "no-actionable-finding"
         /\ r.comments # {} =>
              r.body.unmapped.listed + r.body.unmapped.more = Cardinality(Manifest.unmapped)

\* The suggestions of a review are the patch: whoever accepts those that kept
\* their whole range gets, line by line, the file with exactly those runs of
\* the patch applied, and every run with a text is either suggested or
\* reported as unmapped.
SuggestionsAreThePatch ==
    posting.pc = "finding" /\ shouldPublishSuggestions =>
        LET hunk == patch.file.hunks[1]
            blocks == splitWorkspaceHunkIntoSuggestionBlocks(hunk)
            whole == {c \in Manifest.candidates : \E b \in blocks :
                        b.run = c.run /\ b.start_line = c.start_line /\ b.line = c.line}
            textual(s) == \E i \in s..RunEnd(hunk, s) :
                            hunk.lines[i].mark = "removed" \/ hunk.lines[i].text # Blank
            blanked(s) == /\ \E i \in s..RunEnd(hunk, s) : hunk.lines[i].mark = "added"
                          /\ TrimEnd(TextsOf(SubSeq(hunk.lines, s, RunEnd(hunk, s)), "added")) = << >>
        IN /\ Accepted(patch.head, whole) = PatchedBy(patch.head, hunk, {c.run : c \in whole})
           /\ \A s \in RunStarts(hunk) : textual(s) /\ ~blanked(s) =>
                \/ \E c \in Manifest.candidates : c.run = s
                \/ \E u \in Manifest.unmapped : u.run \in {0, s}

=============================================================================
