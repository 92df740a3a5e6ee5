--------------------------- MODULE IssuePublishing ---------------------------
(***************************************************************************)
(* Publishing an issue review (reviews/issues/publish.ts with              *)
(* shared/publication-step.ts and github/comment-service.ts): perhaps a    *)
(* draft pull request, then one summary comment, each as a recorded step   *)
(* of the publication.  Any publisher may claim the publication at any     *)
(* time, and the one it overtakes goes on until a check stops it.          *)
(*                                                                         *)
(*   openPr    whether the run was asked to open a pull request            *)
(*   steps     the recorded status of each step                            *)
(*   writers   what each publisher does about the comment, and the draft   *)
(*             pull request it will link                                   *)
(*   comments  the comments with the run's marker: what each links and     *)
(*             whether its author held the claim                           *)
(*   replies   what is left of the comment step's attempts                 *)
(***************************************************************************)
EXTENDS DraftPullRequest

\* A link to a pull request is not the absence of one.
ASSUME NullIsNoLink == Null # "pull"

VARIABLES openPr, steps, writers, comments, replies

issueVars == <<openPr, steps, writers, comments, replies>>

IdleWriter == [pc |-> "idle", draft |-> Null]
Plan == buildSuggestedDraftPrPlanFromReviewRecord(record)

\* A ready patch is not enough: the run must have been asked to open it.
should_open_pr == Plan.patch_ready /\ openPr

-----------------------------------------------------------------------------
IssueInit ==
    /\ openPr \in BOOLEAN
    /\ steps = [k \in {"draft-pr", "summary-comment"} |-> "open"]
    /\ writers = [p \in Publishers |-> IdleWriter]
    /\ comments = << >>
    /\ replies = MaxDraftAttempts

\* A publisher that does nothing claims the publication.
Free(p) == drafts[p].pc = "idle" /\ writers[p].pc = "idle"

\* The draft pull request comes first, unless its step is recorded.
PublishDraft(p) ==
    /\ should_open_pr /\ steps["draft-pr"] = "open"
    /\ Free(p) /\ TakeUp(p)
    /\ UNCHANGED issueVars

\* A failure no other attempt repairs; a publisher that lost its claim leaves
\* the step to its owner.
FailDraft(p) ==
    /\ drafts[p].pc \in {"mismatch", "refused"}
    /\ drafts' = [drafts EXCEPT ![p] = IdleDraft]
    /\ steps' = IF claim = p THEN [steps EXCEPT !["draft-pr"] = "terminal_failed"] ELSE steps
    /\ UNCHANGED <<record, claim, branch, pull, commits, budgets, openPr, writers, comments, replies>>

\* completePublicationStep of the draft; a publisher that goes on links what
\* it recorded.
CompleteDraft(p) ==
    /\ drafts[p].pc = "published"
    /\ drafts' = [drafts EXCEPT ![p] = IdleDraft]
    /\ IF claim = p
       THEN /\ steps' = [steps EXCEPT !["draft-pr"] = "succeeded"]
            /\ writers' = [writers EXCEPT ![p] = [pc |-> "finding", draft |-> "pull"]]
            /\ replies' = replies - 1
       ELSE UNCHANGED <<steps, writers, replies>>
    /\ UNCHANGED <<record, claim, branch, pull, commits, budgets, openPr, comments>>

\* The attempts of a step are used up: its effect is looked for before the
\* step is given up.
settleExhaustedStep(p, k) ==
    /\ Free(p) /\ steps[k] = "open"
    /\ IF k = "draft-pr" THEN should_open_pr /\ budgets.attempts = 0 ELSE replies = 0
    /\ claim' = p
    /\ steps' = [steps EXCEPT ![k] =
         IF (IF k = "draft-pr" THEN pull # Null ELSE comments # << >>)
         THEN "succeeded" ELSE "terminal_failed"]
    /\ UNCHANGED <<record, drafts, branch, pull, commits, budgets, openPr, writers, comments, replies>>

\* Mutant: a run whose patch is ready links a pull request, opened or not.
PublishComment_LinksPlan(p) ==
    /\ should_open_pr => steps["draft-pr"] = "succeeded"
    /\ Free(p) /\ replies > 0 /\ steps["summary-comment"] = "open"
    /\ replies' = replies - 1
    /\ claim' = p
    /\ writers' = [writers EXCEPT ![p] =
         [pc |-> "finding", draft |-> IF Plan.patch_ready THEN "pull" ELSE Null]]
    /\ UNCHANGED <<record, drafts, branch, pull, commits, budgets, openPr, steps, comments>>

\* A publisher that has no draft to open, or finds its step recorded, takes
\* up the comment.
PublishComment(p) ==
    /\ should_open_pr => steps["draft-pr"] = "succeeded"
    /\ Free(p) /\ replies > 0 /\ steps["summary-comment"] = "open"
    /\ replies' = replies - 1
    /\ claim' = p
    /\ writers' = [writers EXCEPT ![p] =
         [pc |-> "finding", draft |-> IF should_open_pr THEN "pull" ELSE Null]]
    /\ UNCHANGED <<record, drafts, branch, pull, commits, budgets, openPr, steps, comments>>

Write(p, pc) ==
    /\ writers' = [writers EXCEPT ![p] = IF pc = "idle" THEN IdleWriter ELSE [@ EXCEPT !.pc = pc]]
    /\ UNCHANGED <<draftVars, openPr, replies>>

\* An existing comment of the run is an audit record and is left as it is.
\* The claim is asserted before the look too, which writes nothing.
findIssueCommentByMarker(p) ==
    /\ writers[p].pc = "finding"
    /\ Write(p, IF comments # << >> THEN "posted" ELSE "assert")
    /\ UNCHANGED <<steps, comments>>

\* The claim is asserted once more, right before the comment is created.
assert_publication_claim(p) ==
    /\ writers[p].pc = "assert"
    /\ Write(p, IF claim = p THEN "posting" ELSE "idle")
    /\ UNCHANGED <<steps, comments>>

createIssueComment(p) ==
    /\ writers[p].pc = "posting"
    /\ comments' = Append(comments, [link |-> writers[p].draft, owner |-> claim = p])
    /\ Write(p, "posted")
    /\ UNCHANGED steps

completePublicationStep(p) ==
    /\ writers[p].pc = "posted"
    /\ steps' = IF claim = p THEN [steps EXCEPT !["summary-comment"] = "succeeded"] ELSE steps
    /\ Write(p, "idle")
    /\ UNCHANGED comments

\* A crash, or an answer that never came.
PublisherDies(p) ==
    \/ DraftAttemptDies(p) /\ UNCHANGED issueVars
    \/ writers[p].pc # "idle" /\ Write(p, "idle") /\ UNCHANGED <<steps, comments>>

IssueNext ==
    \/ \E p \in Publishers :
         \/ PublishDraft(p) \/ FailDraft(p) \/ CompleteDraft(p)
         \/ \E k \in DOMAIN steps : settleExhaustedStep(p, k)
         \/ DraftStep(p) /\ UNCHANGED issueVars
         \/ PublishComment(p) \/ findIssueCommentByMarker(p) \/ assert_publication_claim(p)
         \/ createIssueComment(p) \/ completePublicationStep(p)
         \/ PublisherDies(p)
    \/ PeopleStep /\ UNCHANGED issueVars

IssueSpec == DraftInit /\ IssueInit /\ [][IssueNext]_<<draftVars, issueVars>>

-----------------------------------------------------------------------------
\* What an issue review says reaches its readers: a comment that leaves the
\* details to a draft pull request belongs to a run that opened one, whose body
\* holds the rest; a comment without a link holds everything itself, and is
\* never written by a run that was to open one; and publishers that hold the
\* claim leave one comment between them.
IssueReviewIsTold ==
    LET comment(link) == renderIssueReviewCommentFromReviewRecord(record, Plan, link)
        body == buildDraftPullRequestBodyFromReviewRecord(record)
        whole == {"verdict", "analysis", "mitigation", "coverage", "regression", "level",
                  "next step", "claim"}
                 \cup (IF record.residual THEN {"findings", "evidence", "residual risks"} ELSE {})
    IN /\ \A i \in DOMAIN comments :
            IF comments[i].link # Null
            THEN /\ steps["draft-pr"] = "succeeded"
                 /\ whole \subseteq comment("pull").sections \cup body.sections
                 /\ body.narratives = comment(Null).narratives
                 /\ comment("pull").status.mitigation = body.status.mitigation
            ELSE /\ ~should_open_pr
                 /\ whole \subseteq comment(Null).sections
                 /\ fileChangePaths(record.files) \subseteq comment(Null).files
       /\ \A i, j \in DOMAIN comments : comments[i].owner /\ comments[j].owner => i = j
       /\ steps["summary-comment"] = "succeeded" => comments # << >>

=============================================================================
