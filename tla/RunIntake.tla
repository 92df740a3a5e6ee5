----------------------------- MODULE RunIntake ------------------------------
(***************************************************************************)
(* From a GitHub event to a submitted execution input: the webhook and     *)
(* dispatch handlers (ingress/), the admission of a run under its ingress  *)
(* identity (review-run-admission-store.ts) and the attempts that prepare  *)
(* its input (triggers/, reviews/*/prepare-*.ts).                          *)
(*                                                                         *)
(* A delivery may arrive more than once: a call is one arrival, and the    *)
(* run it would admit carries the call's name.  An attempt is one holder   *)
(* of the run's preparation claim; a holder whose lease is gone keeps      *)
(* working until a fenced write refuses it.  What the claim does to the    *)
(* other axes of the run is SubmissionProtocol's subject.                  *)
(***************************************************************************)
EXTENDS GitWorkspace, SetupDeclaration

CONSTANTS
    Keys, Copies,     \* deliveries, and the arrivals of one
    Scenarios,        \* what is delivered, as functions of the keys
    Unsent,
    Days, Today,      \* the days of the target branch's commits, and now
    Trunk,            \* the pushes of the target branch, oldest first
    MaxPushes,        \* bound on pushes to the pull request and its base branch
    MaxAttempts,      \* the preparation budget
    MaxCrashes        \* bound on restarts of the integration

Calls == Keys \X Copies

VARIABLES
    event,            \* what each key delivers, Null for a key not used
    payload,          \* the pull request in the payload, Unsent before
    tip, pushes,      \* the pull request's head, and the pushes so far
    trunk,            \* commits on the target branch, the pull request's base
    calls,            \* the handlers
    runs,             \* review_runs with their preparation
    attempts,         \* the preparation attempts of each run
    crashes

intakeVars == <<event, payload, tip, pushes, trunk, calls, runs, attempts, crashes>>

KeyOf(c) == c[1]
Event(c) == event[KeyOf(c)]

PullRequestEvents ==
    {"pull_request.opened", "pull_request.synchronize", "pull_request.ready_for_review"}

\* The events a handler is registered for.
EventKinds ==
    PullRequestEvents \cup {"issues.opened", "issue_comment.created", "dispatch"}

ASSUME ScenariosAreEvents ==
    \A s \in Scenarios, k \in Keys : s[k] = Null \/ s[k].kind \in EventKinds

\* The account of the app is a bot, and its own events are never dispatches.
ASSUME AppIsABot ==
    \A s \in Scenarios, k \in Keys : s[k] # Null /\ s[k].sender.login = AppBotLogin =>
        AppBotLogin # Null /\ s[k].sender.type = "Bot" /\ s[k].kind # "dispatch"

\* In the Core schema a float has a point or an exponent.
ASSUME FloatsAreMarked ==
    \A s \in Scenarios, k \in Keys : s[k] # Null =>
        \A i \in DOMAIN s[k].setup.steps :
            s[k].setup.steps[i].timeout.syntax = "float" => s[k].setup.steps[i].timeout.marked

ASSUME TrunkIsAHistory ==
    Trunk \in Seq(Nat) /\ Len(Days) \in 1 .. Len(Trunk)

IsPull(c) ==
    /\ Event(c).kind # "dispatch"
    /\ Event(c).kind \in PullRequestEvents \/ Event(c).target = "pull"

\* How the run of the call is prepared.
Workflow(c) ==
    CASE Event(c).kind = "dispatch" -> "repository-review"
      [] IsPull(c)                  -> "pull-request-review"
      [] OTHER                      -> "issue-review"

-----------------------------------------------------------------------------
(***************************************************************************)
(* GitHub                                                                  *)
(***************************************************************************)
CommitAt(n) == SubSeq(Trunk, 1, n)

\* A pull request as GitHub reports it: its base is the tip of the base
\* branch, wherever the pull request was branched off.
Snapshot(head, previous) == [base |-> CommitAt(trunk), head |-> head, previous |-> previous]
Snapshots == [base: Seq(Nat), head: Seq(Nat), previous: Seq(Nat) \cup {Null}]

ASSUME NoSnapshotIsNull == Null \notin Snapshots

\* The pull request and the branch move only where the scenario looks at
\* them.  The push is the one that the synchronize deliveries
\* report; a forced push puts the work on top of the base branch.
Push(next) ==
    /\ pushes < MaxPushes
    /\ \E c \in Calls : Event(c) # Null /\ IsPull(c)
    /\ pushes' = pushes + 1
    /\ tip' = next
    /\ payload' = [k \in Keys |->
                     IF /\ event[k] # Null /\ event[k].kind = "pull_request.synchronize"
                        /\ payload[k] = Unsent
                     THEN Snapshot(next, tip) ELSE payload[k]]
    /\ UNCHANGED <<event, trunk, calls, runs, attempts, crashes>>

PushCommit == Push(Append(tip, pushes + 2))
ForcePush == Push(Append(CommitAt(trunk), pushes + 2))

\* A comment and a dispatch carry no pull request.
Send(k) ==
    /\ event[k] # Null /\ payload[k] = Unsent
    /\ event[k].kind # "pull_request.synchronize"
    /\ payload' = [payload EXCEPT ![k] =
                     IF event[k].kind \in PullRequestEvents THEN Snapshot(tip, Null) ELSE Null]
    /\ UNCHANGED <<event, tip, pushes, trunk, calls, runs, attempts, crashes>>

MergeToTrunk ==
    /\ trunk < Len(Days) /\ pushes < MaxPushes
    /\ \E c \in Calls : Event(c) # Null /\ Workflow(c) # "issue-review"
    /\ trunk' = trunk + 1
    /\ pushes' = pushes + 1
    /\ UNCHANGED <<event, payload, tip, calls, runs, attempts, crashes>>

-----------------------------------------------------------------------------
(***************************************************************************)
(* The handlers up to admission                                            *)
(***************************************************************************)
Finish(c, answer) == calls' = [calls EXCEPT ![c].stage = "done", ![c].answer = answer]
Goto(c, stage) == calls' = [calls EXCEPT ![c].stage = stage]
HandlerLeaves == <<event, payload, tip, pushes, trunk, attempts, crashes>>

\* What each handler asks before its first await: "skip", "throw" for a
\* payload without what a review needs, or where it waits.
handleIssueOpened(e) ==
    IF isSelfOriginatedWebhookEvent(e.sender) THEN "skip"
    ELSE IF extractIssueContext(e.raw) = Null THEN "throw"
    ELSE IF e.target = "pull" THEN "skip" ELSE "config"

\* Mutant: a pull request from a fork is reviewed like any other.
handlePullRequestOpened_Forks(e) ==
    IF isSelfOriginatedWebhookEvent(e.sender) THEN "skip"
    ELSE IF buildPullRequestContextFromRaw(e.raw) = Null THEN "throw" ELSE "config"

handlePullRequestOpened(e) ==
    IF isSelfOriginatedWebhookEvent(e.sender) THEN "skip"
    ELSE IF buildPullRequestContextFromRaw(e.raw) = Null THEN "throw"
    ELSE IF isForkPullRequest(e.pr) THEN "skip" ELSE "config"

handlePullRequestSynchronize(e) ==
    IF isSelfOriginatedWebhookEvent(e.sender) THEN "skip"
    ELSE IF buildPullRequestContextFromRaw(e.raw) = Null THEN "throw"
    ELSE IF isForkPullRequest(e.pr) THEN "skip" ELSE "config"

handlePullRequestReadyForReview(e) ==
    IF isSelfOriginatedWebhookEvent(e.sender) THEN "skip"
    ELSE IF buildPullRequestContextFromRaw(e.raw) = Null THEN "throw"
    ELSE IF isForkPullRequest(e.pr) THEN "skip" ELSE "config"

handleIssueCommentCreated(e) ==
    IF isSelfOriginatedWebhookEvent(e.sender) \/ extractCommentCommand(e.body) = Null
    THEN "skip"
    ELSE IF extractIssueContext(e.raw) = Null THEN "throw" ELSE "authorise"

\* A handler runs up to its first await when the delivery arrives.
Arrive(c) ==
    LET e == Event(c)
        next == CASE e.kind = "issues.opened"                 -> handleIssueOpened(e)
                  [] e.kind = "pull_request.opened"           -> handlePullRequestOpened(e)
                  [] e.kind = "pull_request.synchronize"      -> handlePullRequestSynchronize(e)
                  [] e.kind = "pull_request.ready_for_review" -> handlePullRequestReadyForReview(e)
                  [] e.kind = "issue_comment.created"         -> handleIssueCommentCreated(e)
                  [] e.kind = "dispatch"                      -> "body"
    IN /\ calls[c].stage = "idle" /\ payload[KeyOf(c)] # Unsent
       /\ c[2] <= e.copies
       /\ CASE next = "skip"  -> Finish(c, 200)
            [] next = "throw" -> Finish(c, 500)
            [] OTHER          -> Goto(c, next)
       /\ UNCHANGED <<HandlerLeaves, runs>>

\* A draft is reviewed when it is marked ready, not while it is worked on.
fetchTrustedRepositoryTriggerConfig(c) ==
    LET config == fetchRepositoryTriggerConfig(Event(c).config)
        draft == Event(c).pr.draft /\ Event(c).kind # "pull_request.ready_for_review"
    IN /\ calls[c].stage = "config"
       /\ CASE config.fault # Null                              -> Finish(c, 500)
            [] config.fault = Null
               /\ (~isAutomaticTriggerModeEnabled(config) \/ draft) -> Finish(c, 200)
            [] OTHER                                            -> Goto(c, "admit")
       /\ UNCHANGED <<HandlerLeaves, runs>>

\* Errors of a comment are logged and not reported to GitHub.
AuthoriseCommand(c) ==
    /\ calls[c].stage = "authorise"
    /\ IF authorizeManualCommentCommand(Event(c).sender.login, Event(c).permission)
       THEN Goto(c, "admit") ELSE Finish(c, 200)
    /\ UNCHANGED <<HandlerLeaves, runs>>

\* resolveTrustedDefaultBranch or the configuration read failed at GitHub.
LookupFails(c) ==
    /\ calls[c].stage \in {"config", "authorise"}
    /\ Finish(c, IF calls[c].stage = "config" THEN 500 ELSE 200)
    /\ UNCHANGED <<HandlerLeaves, runs>>

\* The body of a dispatch, bounded in size and time; "broken" is any other
\* error of the request, answered by the outermost handler.
ReadBody(c, outcome) ==
    /\ calls[c].stage = "body"
    /\ CASE outcome = "complete" -> Goto(c, "dispatch")
         [] outcome = "large"    -> Finish(c, 413)
         [] outcome = "slow"     -> Finish(c, 408)
         [] outcome = "broken"   -> Finish(c, 500)
    /\ UNCHANGED <<HandlerLeaves, runs>>

DispatchIsAddressed(p) == Null \notin {p.repo, p.branch, p.correlation}
                          /\ p.correlation <= MaxCorrelation

handleRepositoryReviewDispatch(c) ==
    LET p == Event(c).payload
        authorised == authorizeRepositoryReviewDispatchOidc(Event(c).token, p)
    IN /\ calls[c].stage = "dispatch"
       /\ IF ~DispatchIsAddressed(p) THEN Finish(c, 400)
          ELSE IF authorised # 200 THEN Finish(c, authorised)
          ELSE IF validateRepositoryReviewDispatchContract(p) = Null THEN Finish(c, 400)
          ELSE Goto(c, "admit")
       /\ UNCHANGED <<HandlerLeaves, runs>>

-----------------------------------------------------------------------------
(***************************************************************************)
(* Admission                                                               *)
(***************************************************************************)
\* The run of a call that has none.
NoRun == [committed |-> FALSE, status |-> "none", owner |-> 0, input |-> Null, submitted |-> Null]
IsRow(c) == runs[c].status # "none"

Rows(k) == {c \in Calls : KeyOf(c) = k /\ IsRow(c)}
Committed(k) == {c \in Rows(k) : runs[c].committed}

\* startIssueReviewCommand, startPullRequestReviewCommand and
\* dispatchRepositoryReview: what the run keeps to be prepared again.
startIssueReviewCommand(c) == [issue |-> Stored(extractIssueContext(Event(c).raw))]
startPullRequestReviewCommand(c) ==
    IF payload[KeyOf(c)] = Null THEN PullReference
    ELSE [pr |-> Stored(buildPullRequestContextFromRaw(Event(c).raw))]
dispatchRepositoryReview(c) == [dispatch |-> {"payload", "verified_repository"}]

PreparationInputOf(c) ==
    CASE Workflow(c) = "issue-review"        -> startIssueReviewCommand(c)
      [] Workflow(c) = "pull-request-review" -> startPullRequestReviewCommand(c)
      [] Workflow(c) = "repository-review"   -> dispatchRepositoryReview(c)

NewRun(c) ==
    [committed |-> FALSE, status |-> "preparing", owner |-> 1,
     input |-> payload[KeyOf(c)], submitted |-> Null]

Accepted(c) == IF Event(c).kind = "dispatch" THEN 202 ELSE 200

AnswerReplay(c, run) ==
    calls' = [calls EXCEPT ![c] = [stage |-> "done", run |-> run, created |-> FALSE,
                                   answer |-> Accepted(c)]]

\* SELECT ... FOR UPDATE sees only what is committed.
AdmitSelect(c) ==
    /\ calls[c].stage = "admit"
    /\ IF Committed(KeyOf(c)) = {} THEN Goto(c, "insert")
       ELSE AnswerReplay(c, CHOOSE r \in Committed(KeyOf(c)) : TRUE)
    /\ UNCHANGED <<HandlerLeaves, runs>>

\* Mutant: the ingress identity is not unique.
InsertRow_NotUnique(c) ==
    /\ calls[c].stage = "insert"
    /\ runs' = [runs EXCEPT ![c] = NewRun(c)]
    /\ Goto(c, "commit")
    /\ UNCHANGED HandlerLeaves

\* The unique index makes an insert wait for an uncommitted row of its key.
InsertRow(c) ==
    /\ calls[c].stage = "insert"
    /\ Rows(KeyOf(c)) = {}
    /\ runs' = [runs EXCEPT ![c] = NewRun(c)]
    /\ Goto(c, "commit")
    /\ UNCHANGED HandlerLeaves

InsertConflicts(c) ==
    /\ calls[c].stage = "insert"
    /\ Committed(KeyOf(c)) # {}
    /\ Goto(c, "conflict")
    /\ UNCHANGED <<HandlerLeaves, runs>>

\* The transaction is over; the winner is read outside it.
ReadWinner(c) ==
    /\ calls[c].stage = "conflict"
    /\ AnswerReplay(c, CHOOSE r \in Committed(KeyOf(c)) : TRUE)
    /\ UNCHANGED <<HandlerLeaves, runs>>

Fresh(stage) == [stage |-> stage, pr |-> Null, window |-> Null, commits |-> Null,
                  workspace |-> Null, exported |-> FALSE, linked |-> Null]

\* The caller that created the run holds its first preparation claim, unless
\* it never learns of it.
Commit(c, told) ==
    /\ calls[c].stage = "commit"
    /\ runs' = [runs EXCEPT ![c].committed = TRUE]
    /\ attempts' = [attempts EXCEPT ![c] =
                      <<Fresh(IF told THEN "start" ELSE "dead")>>]
    /\ IF told
       THEN calls' = [calls EXCEPT ![c] = [stage |-> "done", run |-> c, created |-> TRUE,
                                           answer |-> Accepted(c)]]
       ELSE Finish(c, IF Event(c).kind = "dispatch" THEN 500 ELSE 200)
    /\ UNCHANGED <<event, payload, tip, pushes, trunk, crashes>>

AdmissionFails(c) ==
    /\ calls[c].stage = "commit"
    /\ runs' = [runs EXCEPT ![c] = NoRun]
    /\ Finish(c, IF Event(c).kind = "dispatch" THEN 500 ELSE 200)
    /\ UNCHANGED HandlerLeaves

-----------------------------------------------------------------------------
(***************************************************************************)
(* Preparing the input                                                     *)
(***************************************************************************)
AttemptIds == Calls \X (1 .. MaxAttempts)
Running == {"start", "resolve", "checkpoint", "window", "commits", "fetch", "setup",
            "export", "submit"}

Started(a) == a[2] <= Len(attempts[a[1]])
Attempt(a) == attempts[a[1]][a[2]]
InStage(a, stage) == Started(a) /\ Attempt(a).stage = stage
Owns(a) == runs[a[1]].status = "preparing" /\ runs[a[1]].owner = a[2]

AttemptLeaves == <<event, payload, tip, pushes, trunk, calls, crashes>>

Step(a, changes) ==
    /\ attempts' = [attempts EXCEPT ![a[1]][a[2]] = changes]
    /\ UNCHANGED AttemptLeaves

Advance(a, stage) == Step(a, [Attempt(a) EXCEPT !.stage = stage]) /\ UNCHANGED runs

\* retryable: no HTTP status, a server error, a conflict or a rate limit.
classifyPreparationFailure(status, deterministic) ==
    ~deterministic /\ (status = Null \/ status >= 500 \/ status \in {408, 409, 429})

AfterFailure(c, retry) ==
    IF retry /\ Len(attempts[c]) < MaxAttempts THEN "pending" ELSE "failed"

\* The failure is recorded by the holder of the claim, and by nobody else.
Fail(a, retry) ==
    /\ Step(a, Fresh("failed"))
    /\ runs' = IF Owns(a)
               THEN [runs EXCEPT ![a[1]].status = AfterFailure(a[1], retry), ![a[1]].owner = 0]
               ELSE runs

\* The creator of the run still has its input in memory; every later attempt
\* reads it back, and one that cannot be read fails the run for good.
executeClaimedPreparation(a) ==
    /\ InStage(a, "start")
    /\ IF a[2] > 1 /\ ~parsePreparationInput(Workflow(a[1]), PreparationInputOf(a[1]))
       THEN Fail(a, FALSE)
       ELSE Advance(a, IF Workflow(a[1]) = "issue-review" THEN "fetch" ELSE "resolve")

\* The recovered snapshot is used as it is; only a reference is looked up.
getPullRequestContext(a) ==
    /\ InStage(a, "resolve") /\ Workflow(a[1]) = "pull-request-review"
    /\ UNCHANGED runs
    /\ IF runs[a[1]].input # Null
       THEN Step(a, [Attempt(a) EXCEPT !.stage = "window", !.pr = runs[a[1]].input])
       ELSE Step(a, [Attempt(a) EXCEPT !.stage = "checkpoint", !.pr = Snapshot(tip, Null)])

\* Mutant: the snapshot is written without asking whose claim it is.
checkpointPreparationInput_Unfenced(a) ==
    /\ InStage(a, "checkpoint")
    /\ Step(a, [Attempt(a) EXCEPT !.stage = "window"])
    /\ runs' = [runs EXCEPT ![a[1]].input = Attempt(a).pr]

\* Fenced: a holder that lost its claim stops here.
checkpointPreparationInput(a) ==
    /\ InStage(a, "checkpoint")
    /\ IF Owns(a)
       THEN /\ Step(a, [Attempt(a) EXCEPT !.stage = "window"])
            /\ runs' = [runs EXCEPT ![a[1]].input = Attempt(a).pr]
       ELSE Step(a, Fresh("failed")) /\ UNCHANGED runs

ReviewEvent(c) ==
    IF Event(c).kind = "pull_request.synchronize" THEN "synchronize" ELSE "other"

\* A previous head outside the history may be gone from GitHub altogether.
resolveEventWindow(a, gone) ==
    LET pr == Attempt(a).pr
        compared == IF pr.previous = Null THEN Null ELSE compareCommitsBetween(pr, gone)
    IN /\ InStage(a, "window")
       /\ gone => pr.previous # Null /\ ~IsAncestor(pr.previous, tip)
       /\ Step(a, [Attempt(a) EXCEPT !.stage = "commits",
                     !.window = resolveReviewWindowFiles(pr, ReviewEvent(a[1]), compared)])
       /\ UNCHANGED runs

ListCommits(a) ==
    LET commits == listCommitChainRefsForPullRequest(tip, CommitAt(trunk), Attempt(a).pr)
    IN /\ InStage(a, "commits")
       /\ IF Len(commits) > MaxCommits THEN Fail(a, TRUE)
          ELSE /\ Step(a, [Attempt(a) EXCEPT !.stage = "fetch", !.commits = commits])
               /\ UNCHANGED runs

isAncestorCommit(base, head) == base < head

\* A dispatch is resolved again by every attempt.
ResolveDispatch(a) ==
    LET p == Event(a[1]).payload
        d == resolveRepositoryReviewDispatch(validateRepositoryReviewDispatchContract(p),
                                             SubSeq(Days, 1, trunk), Today, p.schedule)
        head == resolveHeadSha(SubSeq(Days, 1, trunk), d.head)
    IN /\ InStage(a, "resolve") /\ Workflow(a[1]) = "repository-review"
       /\ IF ~DispatchIsResolved(d) THEN Fail(a, d.base # d.head)
          ELSE IF d.mode = "incremental" /\ ~isAncestorCommit(d.base, head) THEN Fail(a, TRUE)
          ELSE /\ Step(a, [Attempt(a) EXCEPT !.stage = "fetch",
                             !.window = [kind |-> d.mode, head |-> CommitAt(head),
                                         base |-> IF d.base = Null THEN Null
                                                  ELSE CommitAt(d.base)]])
               /\ UNCHANGED runs

\* The refs each workflow asks for; the last one is checked out.
prepareIssueReviewInput(a) == <<CommitAt(trunk)>>
preparePullRequestReviewInput(a) ==
    <<Attempt(a).pr.base, Attempt(a).window.base>> \o Attempt(a).commits
prepareRepositoryReviewInput(a) ==
    IF Attempt(a).window.base = Null THEN <<Attempt(a).window.head>>
    ELSE <<Attempt(a).window.base, Attempt(a).window.head>>

Refs(a) ==
    CASE Workflow(a[1]) = "issue-review"        -> prepareIssueReviewInput(a)
      [] Workflow(a[1]) = "pull-request-review" -> preparePullRequestReviewInput(a)
      [] Workflow(a[1]) = "repository-review"   -> prepareRepositoryReviewInput(a)

WindowBase(a) == IF Workflow(a[1]) = "issue-review" THEN Null ELSE Attempt(a).window.base

HasExport(a) ==
    \/ Workflow(a[1]) = "pull-request-review"
    \/ Workflow(a[1]) = "repository-review" /\ Attempt(a).window.kind = "incremental"

materializeWorkspace(a) ==
    /\ InStage(a, "fetch")
    /\ IF ~WindowBaseIsListed(Refs(a), WindowBase(a)) THEN Fail(a, TRUE)
       ELSE /\ Step(a, [Attempt(a) EXCEPT
                          !.workspace = materializeWorkspaceWithCommitHistory(Refs(a), WindowBase(a)),
                          !.stage = IF Workflow(a[1]) = "repository-review" /\ HasExport(a)
                                    THEN "export" ELSE "setup"])
            /\ UNCHANGED runs

LinkedIssues == fetchTimelineLinkedIssues(Timeline, Repository, PullRequests)

\* The export is exportWorkspaceWindow of the window, if git can tell and its
\* answers fit together; a pull request's history also names the issues that
\* mention it.
ExportWindow(a) ==
    LET at == Attempt(a)
    IN /\ InStage(a, "export")
       /\ IF \/ ~WindowIsComparable(at.workspace, at.window.base, at.window.head)
             \/ \E diff \in {DiffOf(at.window.base, at.window.head)} : ~SectionsPair(diff)
          THEN Fail(a, TRUE)
          ELSE Step(a, [at EXCEPT !.exported = TRUE,
                                  !.linked = IF Workflow(a[1]) = "repository-review" THEN Null
                                             ELSE LinkedIssues,
                                  !.stage = IF Workflow(a[1]) = "repository-review"
                                            THEN "setup" ELSE "submit"])
               /\ UNCHANGED runs

\* A declaration that breaks its rules fails the run for good.
ReadSetup(a) ==
    LET read == readSetupDeclaration(Event(a[1]).setup)
    IN /\ InStage(a, "setup")
       /\ IF read = "invalid" THEN Fail(a, FALSE)
          ELSE IF read = "unreadable" THEN Fail(a, TRUE)
          ELSE Advance(a, IF Workflow(a[1]) = "pull-request-review" THEN "export"
                          ELSE "submit")

\* assertOwned and the fenced submission.
SubmitPrepared(a) ==
    /\ InStage(a, "submit")
    /\ IF Owns(a)
       THEN /\ Step(a, Fresh("submitted"))
            /\ runs' = [runs EXCEPT ![a[1]].status = "submitted", ![a[1]].owner = 0,
                                    ![a[1]].submitted = Attempt(a)]
       ELSE Step(a, Fresh("failed")) /\ UNCHANGED runs

\* GitHub, git, the disk or the archive fails a step that talks to it.
PreparationFails(a, status) ==
    /\ Started(a) /\ Attempt(a).stage \in Running \ {"start"}
    /\ Fail(a, classifyPreparationFailure(status, FALSE))

\* Mutant: an attempt that spent the budget is not reaped.
ExpireLease_BudgetLeft(c) ==
    /\ runs[c].committed /\ runs[c].status = "preparing"
    /\ Len(attempts[c]) < MaxAttempts
    /\ runs' = [runs EXCEPT ![c].status = AfterFailure(c, TRUE), ![c].owner = 0]
    /\ UNCHANGED <<HandlerLeaves, calls>>

\* The lease of the holder is over; the reaper gives the run to the next.
ExpireLease(c) ==
    /\ runs[c].committed /\ runs[c].status = "preparing"
    /\ runs' = [runs EXCEPT ![c].status = AfterFailure(c, TRUE), ![c].owner = 0]
    /\ UNCHANGED <<HandlerLeaves, calls>>

\* claimNextPreparation: the coordinator prepares from the durable input.
ClaimNextPreparation(c) ==
    /\ runs[c].status = "pending"
    /\ attempts' = [attempts EXCEPT ![c] = Append(@, Fresh("start"))]
    /\ runs' = [runs EXCEPT ![c].status = "preparing", ![c].owner = Len(attempts[c]) + 1]
    /\ UNCHANGED AttemptLeaves

\* A restart of the integration: its handlers and attempts are gone, and the
\* database rolls back what was not committed.
Crash ==
    /\ crashes < MaxCrashes
    /\ crashes' = crashes + 1
    /\ calls' = [c \in Calls |-> IF calls[c].stage \in {"idle", "done"} THEN calls[c]
                                 ELSE [calls[c] EXCEPT !.stage = "dropped"]]
    /\ runs' = [c \in Calls |-> IF runs[c].committed THEN runs[c] ELSE NoRun]
    /\ attempts' = [c \in Calls |-> [n \in DOMAIN attempts[c] |->
                      IF attempts[c][n].stage \in Running
                      THEN Fresh("dead") ELSE attempts[c][n]]]
    /\ UNCHANGED <<event, payload, tip, pushes, trunk>>

-----------------------------------------------------------------------------
IntakeInit ==
    /\ event \in Scenarios
    /\ payload = [k \in Keys |-> Unsent]
    /\ tip = <<1>> /\ pushes = 0
    /\ trunk = Len(Days) - 1
    /\ calls = [c \in Calls |-> [stage |-> "idle", run |-> Null, created |-> FALSE,
                                 answer |-> Null]]
    /\ runs = [c \in Calls |-> NoRun]
    /\ attempts = [c \in Calls |-> << >>]
    /\ crashes = 0

CallStep(c) ==
    \/ fetchTrustedRepositoryTriggerConfig(c) \/ AuthoriseCommand(c)
    \/ \E outcome \in {"complete", "large", "slow", "broken"} : ReadBody(c, outcome)
    \/ handleRepositoryReviewDispatch(c)
    \/ AdmitSelect(c) \/ InsertRow(c) \/ InsertConflicts(c) \/ ReadWinner(c)
    \/ \E told \in BOOLEAN : Commit(c, told)

AttemptStep(a) ==
    \/ executeClaimedPreparation(a) \/ getPullRequestContext(a) \/ checkpointPreparationInput(a)
    \/ \E gone \in BOOLEAN : resolveEventWindow(a, gone)
    \/ ListCommits(a) \/ ResolveDispatch(a) \/ materializeWorkspace(a)
    \/ ExportWindow(a) \/ ReadSetup(a) \/ SubmitPrepared(a)

IntakeNext ==
    \/ PushCommit \/ ForcePush \/ MergeToTrunk \/ Crash
    \/ \E k \in Keys : Send(k)
    \/ \E c \in Calls : Arrive(c) \/ CallStep(c) \/ LookupFails(c) \/ AdmissionFails(c)
                        \/ ExpireLease(c) \/ ClaimNextPreparation(c)
    \/ \E a \in AttemptIds : AttemptStep(a)
                             \/ \E status \in {Null, 403} : PreparationFails(a, status)

\* Whoever held the claim is not working on the run any more.
Abandoned(c) ==
    /\ runs[c].committed /\ runs[c].owner > 0
    /\ attempts[c][runs[c].owner].stage \notin Running

\* What the processes do by themselves: handlers and attempts in a live process
\* go on, the reaper finds a lease nobody renews, and the coordinator drains
\* what is due.
Progress ==
    \/ \E c \in Calls : CallStep(c) \/ (Abandoned(c) /\ ExpireLease(c)) \/ ClaimNextPreparation(c)
    \/ \E a \in AttemptIds : Started(a) /\ Attempt(a).stage \in Running /\ AttemptStep(a)

IntakeSpec == IntakeInit /\ [][IntakeNext]_intakeVars /\ WF_intakeVars(Progress)

-----------------------------------------------------------------------------
(***************************************************************************)
(* Properties                                                              *)
(***************************************************************************)

\* However often a delivery arrives and however its admissions interleave,
\* one run is committed for it; whoever is answered with a run is answered
\* with that one, and one caller only is told to prepare it
\* (review-run-admission-store.ts: the unique ingress identity, the conflict
\* re-read after the rollback).
OneRunPerDelivery ==
    \A k \in Keys :
        /\ Cardinality(Committed(k)) <= 1
        /\ \A c \in Calls : KeyOf(c) = k /\ calls[c].run # Null =>
               calls[c].run \in Committed(k)
        /\ Cardinality({c \in Calls : KeyOf(c) = k /\ calls[c].created}) <= 1

\* Whatever a delivery leaves out, the input its run keeps can be read back:
\* no run is failed for good because the database lost an undefined field
\* (preparation-input.ts, against what the extractors and JSON leave).
InputSurvivesRecovery ==
    \A c \in Calls : IsRow(c) =>
        parsePreparationInput(Workflow(c), PreparationInputOf(c))

PastCheckpoint == {"window", "commits", "fetch", "setup", "export", "submit"}

\* A pull request run is pinned to one snapshot: every attempt that gets past
\* the checkpoint, a holder overtaken by lease expiry included, works on the
\* snapshot the run's durable input holds, base branch tip included, however
\* far branch and pull request have moved since.  Its window ends at that
\* snapshot's head; it starts at the snapshot's base, or, for a push, at an
\* earlier commit of the same history, never at a head that a forced push
\* replaced (pull-request-review.ts, preparation-coordinator.ts,
\* review-window.ts).
SnapshotIsPinned ==
    \A a \in AttemptIds :
        /\ Started(a) /\ Workflow(a[1]) = "pull-request-review"
        /\ Attempt(a).stage \in PastCheckpoint
        => /\ Attempt(a).pr = runs[a[1]].input
           /\ Attempt(a).window # Null =>
                 /\ Attempt(a).window.head = runs[a[1]].input.head
                 /\ \/ /\ Attempt(a).window.kind = "full"
                       /\ Attempt(a).window.base = runs[a[1]].input.base
                    \/ /\ Attempt(a).window.kind = "push"
                       /\ Attempt(a).window.base = runs[a[1]].input.previous
                       /\ IsAncestor(Attempt(a).window.base, Attempt(a).window.head)
                       /\ Attempt(a).window.base # Attempt(a).window.head

\* The code of a fork is prepared for review only on the command of someone
\* who may write to the repository, never because GitHub reported a push, and
\* the app never answers itself (the handlers under ingress/github/webhooks).
ForksAreReviewedOnCommand ==
    \A c \in Calls : IsRow(c) =>
        LET e == Event(c)
        IN /\ e.sender.login # AppBotLogin
           /\ Workflow(c) = "pull-request-review" /\ e.pr.head_repo # e.pr.base_repo =>
                 /\ e.kind = "issue_comment.created"
                 /\ e.permission \in {"write", "maintain", "admin"}

\* The issues of this repository that mention the pull request, wherever a page
\* of its timeline ends, each once and no pull request among them.
IssuesThatMention ==
    {e.issue.number : e \in {f \in Range(Timeline) :
        /\ f.event = "cross-referenced" /\ f.issue # Null /\ f.issue.repo = Repository
        /\ f.issue.number \notin PullRequests \cup {0}}}

LinkedIssuesAreOurs(linked) ==
    /\ Range(linked.issues) = IssuesThatMention
    /\ Len(linked.issues) = Cardinality(IssuesThatMention)

\* The pushes of the commits in a set.
PushesOf(commits) == {Last(c) : c \in commits}

\* What an export tells the agent and the publisher is the diff it was made
\* from: one file per change with its own status, counts and earlier path, a
\* patch for every file but the binary ones and those whose own patch speaks
\* of "Binary files", and the commits whose changes these are, none of them on
\* the base branch however that has moved (git-workspace.ts: separate git
\* outputs, of two and of three dots, joined by path and position).  A change
\* of type is never exported: its two sections fail the attempt.  Beside the
\* export go the issues that mention the pull request, all and no others.
ExportDescribesDiff ==
    \A a \in AttemptIds : Started(a) /\ Attempt(a).exported =>
        LET x == exportWorkspaceWindow(Attempt(a).window.base, Attempt(a).window.head)
            diff == DiffOf(Attempt(a).window.base, Attempt(a).window.head)
        IN /\ x # Null
           /\ \A i \in DOMAIN diff : diff[i].code # "T"
           /\ Len(x.files) = Len(diff)
           /\ \A i \in DOMAIN diff :
                 x.files[i] = [filename |-> diff[i].path,
                               status |-> GIT_STATUS_NAMES[diff[i].code],
                               previous |-> diff[i].previous,
                               additions |-> Lines(diff[i].added),
                               deletions |-> Lines(diff[i].removed),
                               patch |-> IF diff[i].added = Null \/ diff[i].says THEN Null
                                         ELSE diff[i].path]
           /\ Attempt(a).window.head \in x.commits
           /\ Range(diff) = UNION {Range(Change[p]) : p \in PushesOf(x.commits)}
           /\ Workflow(a[1]) = "pull-request-review" =>
                 PushesOf(x.commits) \cap Range(Trunk) = {}
           /\ Workflow(a[1]) = "pull-request-review" => LinkedIssuesAreOurs(Attempt(a).linked)

\* The differences between the two enforcers.
OnlyTheWorkerTakes(file) ==
    \/ file.duplicate
    \/ \E i \in DOMAIN file.steps :
          file.steps[i].timeout.syntax = "int" /\ file.steps[i].timeout.marked

\* What the integration accepts into a run's input the worker accepts too: no
\* run is submitted to fail on its setup.  What it refuses the worker would
\* refuse, but for a repeated key, which one library reports and the other
\* resolves, and a hexadecimal timeout with the digit e, which looks like a
\* float to the integration: no other run is failed over a declaration the
\* worker could run (setup-declaration.ts and setup_declaration.py).
EnforcersAgree ==
    \A k \in Keys : event[k] # Null =>
        LET file == event[k].setup
            read == readSetupDeclaration(file)
        IN /\ read = "valid" => parse_setup_declaration(file)
           /\ read = "invalid" /\ parse_setup_declaration(file) => OnlyTheWorkerTakes(file)

\* A delivery that was received is answered, or its connection is cut by a
\* restart; and a run that was admitted is submitted or failed for good,
\* whatever restarts, lost answers and failing steps it meets on the way.
DeliveriesConclude ==
    \A c \in Calls :
        /\ calls[c].stage # "idle" ~> calls[c].stage \in {"done", "dropped"}
        /\ Committed(KeyOf(c)) # {} ~>
              \E r \in Committed(KeyOf(c)) : runs[r].status \in {"submitted", "failed"}

\* The commit a pull request run checks out is the head of its window
\* (git-workspace.ts: "the commit under review (`head`, always the last ref
\* and the one the workspace checks out)"; pull-request-review.ts:
\* "subsequent attempts never silently move to a newer HEAD").
WorkspaceIsTheReviewedHead ==
    \A c \in Calls :
        runs[c].submitted # Null /\ Workflow(c) = "pull-request-review" =>
            runs[c].submitted.workspace.checkout = runs[c].submitted.window.head

=============================================================================
