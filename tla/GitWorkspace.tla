---------------------------- MODULE GitWorkspace ----------------------------
(***************************************************************************)
(* The workspace a review is prepared in (artifacts/git-workspace.ts) and  *)
(* the window a pull request event opens (pull-requests/review-window.ts). *)
(*                                                                         *)
(* A commit is the sequence of the pushes it holds since the repository's  *)
(* first commit << >>: its ancestors are its prefixes.  The base branch    *)
(* and the pull request are two such histories; they part where the pull   *)
(* request was branched off, and a forced push is a sequence that does not *)
(* extend the tip it replaces.  Commits that merge two histories are left  *)
(* out.  Each push changes some files; the output of git is the sequence   *)
(* of its NUL separated fields.                                            *)
(***************************************************************************)
EXTENDS TriggerRules

CONSTANTS
    Change,       \* per push, the sequence of its file changes
    Timeline,     \* the events on the pull request's timeline
    Repository,   \* the repository under review
    PullRequests, \* the numbers that name pull requests of it
    PageSize,     \* the 100 items GitHub answers with at most
    MaxCommits    \* MAX_PR_COMMIT_SHAS

IsAncestor(c, d) == IsPrefix(c, d)

\* How many pushes two commits have in common.
CommonPushes(c, d) == Max({n \in 0 .. Min({Len(c), Len(d)}) : SubSeq(c, 1, n) = SubSeq(d, 1, n)})

-----------------------------------------------------------------------------
(***************************************************************************)
(* The review window                                                       *)
(***************************************************************************)
\* The base is the tip of the base branch when the pull request was looked
\* at, and need not be an ancestor of the head.
fullReviewWindow(pr, reason) ==
    [kind |-> "full", base |-> pr.base, head |-> pr.head, reason |-> reason]
pushReviewWindow(pr) ==
    [kind |-> "push", base |-> pr.previous, head |-> pr.head, reason |-> "synchronize"]

\* A commit that left the pull request's history may still be known to
\* GitHub: compare answers 404, or a comparison that is not of an ancestor.
compareCommitsBetween(pr, gone) ==
    IF gone THEN [status |-> 404, ancestor |-> FALSE, empty |-> FALSE]
    ELSE [status |-> 200, ancestor |-> IsAncestor(pr.previous, pr.head),
          empty |-> pr.previous = pr.head]

\* Everything but an ancestor with changes falls back to the full window, for
\* a reason that is recorded.
resolveReviewWindowFiles(pr, event, compared) ==
    CASE event # "synchronize"    -> fullReviewWindow(pr, "pull request")
      [] event = "synchronize" /\ pr.previous = Null
                                  -> fullReviewWindow(pr, "previous head missing")
      [] event = "synchronize" /\ pr.previous # Null ->
            IF compared.status = 404 THEN fullReviewWindow(pr, "previous head unreachable")
            ELSE IF ~compared.ancestor THEN fullReviewWindow(pr, "previous head not ancestor")
            ELSE IF compared.empty THEN fullReviewWindow(pr, "no files changed")
            ELSE pushReviewWindow(pr)

\* A list is read page by page until a page is short.
ReadPages(list) ==
    LET Page(n) == SubSeq(list, (n - 1) * PageSize + 1, Min({n * PageSize, Len(list)}))
        From[n \in 1 .. Len(list) \div PageSize + 1] ==
            IF Len(Page(n)) < PageSize THEN Page(n) ELSE Page(n) \o From[n + 1]
    IN From[1]

\* The pull request's commits at this moment, oldest first: those of its tip
\* that the base branch does not hold.
listCommitChainRefsForPullRequest(tip, branch, pr) ==
    LET shared == CommonPushes(tip, branch)
    IN IF Len(tip) = shared THEN <<pr.head>>
       ELSE [i \in 1 .. Len(tip) - shared |-> SubSeq(tip, 1, shared + i)]

-----------------------------------------------------------------------------
(***************************************************************************)
(* The issues that mention the pull request.  An event of the timeline is  *)
(* [event, issue], and the issue that mentions is Null or                  *)
(* [repo, number, pull].                                                   *)
(***************************************************************************)
isSameRepositoryIssueSource(issue, repo) == issue.repo = repo

Mentions(e, repo) ==
    /\ e.event = "cross-referenced" /\ e.issue # Null
    /\ ~e.issue.pull
    /\ isSameRepositoryIssueSource(e.issue, repo)
    /\ e.issue.number > 0

\* Each issue at its first mention.
listTimelineCrossReferencedIssueRefs(timeline, repo) ==
    LET Ref(seen, e) ==
            IF Mentions(e, repo) /\ e.issue.number \notin Range(seen)
            THEN Append(seen, e.issue.number) ELSE seen
    IN FoldLeft(Ref, << >>, ReadPages(timeline))

\* Each is read again by its number; a number that names a pull request is
\* left out although the timeline called it an issue.
fetchTimelineLinkedIssues(timeline, repo, pulls) ==
    LET refs == listTimelineCrossReferencedIssueRefs(timeline, repo)
    IN [refs |-> refs, issues |-> SelectSeq(refs, LAMBDA n : n \notin pulls)]

-----------------------------------------------------------------------------
(***************************************************************************)
(* The workspace                                                           *)
(***************************************************************************)
\* The refs without repetitions, as positions.
FirstOccurrences(refs) ==
    {i \in DOMAIN refs : \A j \in 1 .. i - 1 : refs[j] # refs[i]}

\* The last ref is "head", the window's base is "base", the rest are pinned.
secReviewInputRefName(refs, i, windowBase) ==
    CASE i = Max(FirstOccurrences(refs)) -> "head"
      [] refs[i] = windowBase            -> "base"
      [] OTHER                           -> "pinned"

\* The last ref is checked out and every ref is kept under its role, so that
\* the commits behind it are not pruned; a single ref has no history.
materializeWorkspaceFromRealGitHistory(refs, windowBase) ==
    [checkout |-> refs[Max(FirstOccurrences(refs))],
     pinned |-> {[name |-> secReviewInputRefName(refs, i, windowBase), commit |-> refs[i]] :
                    i \in FirstOccurrences(refs)}]

HasCommit(workspace, c) ==
    \E r \in workspace.pinned :
        r.commit = c \/ (Cardinality(workspace.pinned) > 1 /\ IsAncestor(c, r.commit))

WindowBaseIsListed(refs, windowBase) == windowBase = Null \/ windowBase \in Range(refs)

materializeWorkspaceWithCommitHistory(refs, windowBase) ==
    IF WindowBaseIsListed(refs, windowBase)
    THEN materializeWorkspaceFromRealGitHistory(refs, windowBase) ELSE Null

-----------------------------------------------------------------------------
(***************************************************************************)
(* The export of a window                                                  *)
(***************************************************************************)
\* A change has no line counts if its file is binary; says tells whether the
\* words "Binary files" stand in its part of the patch.
Modify(path, added, removed) ==
    [code |-> "M", path |-> path, previous |-> Null, added |-> added, removed |-> removed,
     says |-> FALSE]
Moved(code, from, to, added) ==
    [code |-> code, path |-> to, previous |-> from, added |-> added, removed |-> 0,
     says |-> FALSE]
Binary(path) ==
    [code |-> "A", path |-> path, previous |-> Null, added |-> Null, removed |-> Null,
     says |-> TRUE]
\* A text that speaks of binary files, and a file that became a link.
Quoting(path) == [Modify(path, 1, 0) EXCEPT !.says = TRUE]
Retyped(path) == [Modify(path, 1, 1) EXCEPT !.code = "T"]

\* base...head: what the head holds beyond the commit both have in common.
DiffOf(base, head) ==
    LET shared == CommonPushes(base, head)
    IN FlattenSeq([i \in 1 .. Len(head) - shared |-> Change[head[shared + i]]])

IsMove(c) == c.code \in {"R", "C"}

NameStatusFields(diff) ==
    FlattenSeq([i \in DOMAIN diff |->
        IF IsMove(diff[i]) THEN <<diff[i].code, diff[i].previous, diff[i].path>>
        ELSE <<diff[i].code, diff[i].path>>])

\* A record of --numstat is one field with its path, or without it for a
\* rename or copy, whose two paths follow.
NumstatFields(diff) ==
    LET Counts(c, path) == [added |-> c.added, removed |-> c.removed, path |-> path]
    IN FlattenSeq([i \in DOMAIN diff |->
        IF IsMove(diff[i]) THEN <<Counts(diff[i], Null), diff[i].previous, diff[i].path>>
        ELSE <<Counts(diff[i], diff[i].path)>>])

GIT_STATUS_NAMES ==
    [A |-> "added", C |-> "copied", D |-> "deleted", M |-> "modified",
     R |-> "renamed", T |-> "type_changed"]

parseNameStatusZ(fields) ==
    LET Read[i \in 1 .. Len(fields) + 1] ==
            IF i > Len(fields) THEN << >>
            ELSE IF fields[i] \in {"R", "C"}
                 THEN <<[status |-> GIT_STATUS_NAMES[fields[i]], previous |-> fields[i + 1],
                         path |-> fields[i + 2]]>> \o Read[i + 3]
                 ELSE <<[status |-> GIT_STATUS_NAMES[fields[i]], previous |-> Null,
                         path |-> fields[i + 1]]>> \o Read[i + 2]
    IN Read[1]

Lines(n) == IF n = Null THEN 0 ELSE n

\* Mutant: the counts of a rename are kept under its old path.
parseNumstatZ_OldPath(fields) ==
    LET Read[i \in 1 .. Len(fields) + 1] ==
            IF i > Len(fields) THEN {}
            ELSE LET moved == fields[i].path = Null
                     path == IF moved THEN fields[i + 1] ELSE fields[i].path
                 IN {[path |-> path, additions |-> Lines(fields[i].added),
                      deletions |-> Lines(fields[i].removed)]}
                    \cup Read[IF moved THEN i + 3 ELSE i + 1]
    IN Read[1]

\* The counts of each path, by the new path of a rename or copy.
parseNumstatZ(fields) ==
    LET Read[i \in 1 .. Len(fields) + 1] ==
            IF i > Len(fields) THEN {}
            ELSE LET moved == fields[i].path = Null
                     path == IF moved THEN fields[i + 2] ELSE fields[i].path
                 IN {[path |-> path, additions |-> Lines(fields[i].added),
                      deletions |-> Lines(fields[i].removed)]}
                    \cup Read[IF moved THEN i + 3 ELSE i + 1]
    IN Read[1]

exportWorkspaceChangedFiles(diff) ==
    LET counts == parseNumstatZ(NumstatFields(diff))
        CountsOf(path) ==
            IF \E c \in counts : c.path = path
            THEN CHOOSE c \in counts : c.path = path
            ELSE [path |-> path, additions |-> 0, deletions |-> 0]
        entries == parseNameStatusZ(NameStatusFields(diff))
    IN [i \in DOMAIN entries |->
           [path |-> entries[i].path, status |-> entries[i].status,
            previous |-> entries[i].previous,
            additions |-> CountsOf(entries[i].path).additions,
            deletions |-> CountsOf(entries[i].path).deletions]]

\* The sections of the patch, in the order of --name-only.  git writes a
\* change of type as a deletion and a creation, with a header each.
splitDiffIntoSections(diff) ==
    LET Section(c) == [of |-> c.path, says |-> c.says]
    IN FlattenSeq([i \in DOMAIN diff |->
           IF diff[i].code = "T" THEN <<Section(diff[i]), Section(diff[i])>>
           ELSE <<Section(diff[i])>>])

exportWorkspaceCommits(base, head) ==
    Prefixes(head) \ Prefixes(base)

\* git compares two commits that the workspace holds with their histories;
\* all share the first commit.
WindowIsComparable(workspace, base, head) ==
    HasCommit(workspace, base) /\ HasCommit(workspace, head)

\* Sections and names are paired by position: there must be as many of one as
\* of the other.
SectionsPair(diff) == Len(splitDiffIntoSections(diff)) = Len(diff)

\* Null if they do not pair.  A section with the words is taken for one of a
\* binary file.
exportWorkspaceWindow(base, head) ==
    LET diff == DiffOf(base, head)
        sections == splitDiffIntoSections(diff)
        entries == exportWorkspaceChangedFiles(diff)
        SectionOf(path) == {i \in DOMAIN diff : diff[i].path = path}
        PatchOf(path) ==
            IF SectionOf(path) = {} THEN Null
            ELSE LET s == sections[Max(SectionOf(path))]
                 IN IF s.says THEN Null ELSE s.of
    IN IF ~SectionsPair(diff) THEN Null
       ELSE [patch |-> sections,
             commits |-> exportWorkspaceCommits(base, head),
             files |-> [i \in DOMAIN entries |->
                           [filename |-> entries[i].path, status |-> entries[i].status,
                            previous |-> entries[i].previous,
                            additions |-> entries[i].additions,
                            deletions |-> entries[i].deletions,
                            patch |-> PatchOf(entries[i].path)]]]

=============================================================================
