-------------------------- MODULE DraftPullRequest --------------------------
(***************************************************************************)
(* Opening the draft pull request of a validated result                    *)
(* (reviews/shared/draft-pull-request.ts, issues/draft-pr.ts and           *)
(* repositories/delivery-draft-pr.ts): list the open pull requests of the  *)
(* run's branch, build a tree and a commit, create the branch or verify    *)
(* the one that is there, open the pull request.  The claim is asserted    *)
(* before every write, and may be lost right after.                        *)
(*                                                                         *)
(*   claim     the publisher that holds the publication, or Null           *)
(*   drafts    where each publisher is, the commit it built, and whether a *)
(*             person moved the branch since it created or verified it     *)
(*   branch    the commit the run's branch points at, or Null              *)
(*   pull      the open pull request of the branch, or Null                *)
(*   commits   how many commits were made, for their identities            *)
(*   budgets   what is left of attempts and of steps people take           *)
(***************************************************************************)
EXTENDS ReviewSurfaces

CONSTANTS
    Publishers,
    Records,         \* the review records to publish
    MaxDraftAttempts,   \* the attempts of a publication step
    MaxPeople           \* bound: what people do to the branch and its pull request

ASSUME DraftBounds == MaxDraftAttempts \in Nat /\ MaxPeople \in Nat

\* A record lists file changes, and every one of them has a name.
ASSUME RecordsListFiles ==
    \A r \in Records :
        /\ Len(r.files) \in Nat /\ DOMAIN r.files = 1..Len(r.files)
        /\ \A i \in DOMAIN r.files : r.files[i].name # Null

VARIABLES record, claim, drafts, branch, pull, commits, budgets

draftVars == <<record, claim, drafts, branch, pull, commits, budgets>>

BaseCommit == "head"      \* workspace_ref, the commit the result was produced from

-----------------------------------------------------------------------------
(***************************************************************************)
(* The files of a result                                                   *)
(***************************************************************************)
\* The first change of a path counts; an empty path is passed over.
PublishablePositions(changes) ==
    {i \in DOMAIN changes : changes[i].kind # "empty" /\
        \A j \in 1..(i - 1) : changes[j].kind = "empty" \/ changes[j].name # changes[i].name}

\* A path that may not be published, or a mode on a deletion, is an error.
normalizePublishableFileChanges(changes) ==
    IF \E i \in PublishablePositions(changes) :
          \/ normalizePromotionFilePath(changes[i]) = "refused"
          \/ changes[i].status = "deleted" /\ changes[i].mode
    THEN {"refused"}
    ELSE {changes[i].name : i \in PublishablePositions(changes)}

\* The tree over the base: one blob for each file that stays.
buildTreeElementsFromFileChanges(changes) ==
    LET firsts == PublishablePositions(changes)
    IN {[path |-> changes[i].name, gone |-> changes[i].status = "deleted"] : i \in firsts}

\* The whole run id is in the name: no two runs share a branch.
buildDraftBranchName(issue, run) == <<"issue", issue, run>>
buildRepositoryDeliveryBranchName(run, delivery) == <<"repo-scan", run, delivery>>

ResultTree == buildTreeElementsFromFileChanges(record.files)

Carries(commit) ==
    commit # Null /\ commit.tree = ResultTree /\ commit.parents = <<BaseCommit>>

-----------------------------------------------------------------------------
(***************************************************************************)
(* A publisher                                                             *)
(***************************************************************************)
IdleDraft == [pc |-> "idle", commit |-> Null, moved |-> FALSE]

DraftInit ==
    /\ record \in Records
    /\ claim = Null
    /\ drafts = [p \in Publishers |-> IdleDraft]
    /\ branch = Null /\ pull = Null
    /\ commits = 0
    /\ budgets = [attempts |-> MaxDraftAttempts, people |-> MaxPeople]

\* A publisher that claimed the publication takes the step up.  A file that
\* may not be published ends the attempt before GitHub is asked anything.
TakeUp(p) ==
    /\ hasReviewRecordPatchReadyForPromotion(record)
    /\ drafts[p].pc = "idle"
    /\ drafts' = [drafts EXCEPT ![p].pc =
         IF normalizePublishableFileChanges(record.files) = {"refused"} THEN "idle" ELSE "listing"]
    /\ budgets.attempts > 0
    /\ budgets' = [budgets EXCEPT !.attempts = @ - 1]
    /\ claim' = p
    /\ UNCHANGED <<record, branch, pull, commits>>

\* An open pull request of the branch is reused, before any git object is made.
ListPulls(p) ==
    /\ drafts[p].pc = "listing"
    /\ drafts' = [drafts EXCEPT ![p].pc = IF pull # Null THEN "published" ELSE "building"]
    /\ UNCHANGED <<record, claim, branch, pull, commits, budgets>>

\* Blobs, the tree and the commit, each write after the claim was asserted:
\* nothing of them is visible before a branch points at the commit.  A tree
\* without a file is an error.
BuildCommit(p) ==
    /\ drafts[p].pc = "building"
    /\ IF ResultTree = {} \/ claim # p
       THEN /\ drafts' = [drafts EXCEPT ![p] = IdleDraft]
            /\ UNCHANGED commits
       ELSE /\ commits' = commits + 1
            /\ drafts' = [drafts EXCEPT
                 ![p].commit = [sha |-> commits + 1, tree |-> ResultTree,
                                parents |-> <<BaseCommit>>],
                 ![p].pc = "assert branch"]
    /\ UNCHANGED <<record, claim, branch, pull, budgets>>

\* assert_claim: a publisher that lost its claim stops.
AssertClaim(p, before, then) ==
    /\ drafts[p].pc = before
    /\ drafts' = [drafts EXCEPT ![p] = IF claim = p THEN [@ EXCEPT !.pc = then] ELSE IdleDraft]
    /\ UNCHANGED <<record, claim, branch, pull, commits, budgets>>

AssertBeforeBranch(p) == AssertClaim(p, "assert branch", "creating branch")
AssertBeforeVerify(p) == AssertClaim(p, "assert verify", "verifying")
AssertBeforeOpen(p) == AssertClaim(p, "assert open", "opening")

\* createRef; isBranchAlreadyExists sends the publisher to look at the branch.
CreateBranch(p) ==
    /\ drafts[p].pc = "creating branch"
    /\ IF branch = Null
       THEN /\ branch' = drafts[p].commit
            /\ drafts' = [drafts EXCEPT ![p].pc = "assert open", ![p].moved = FALSE]
       ELSE /\ drafts' = [drafts EXCEPT ![p].pc = "assert verify"]
            /\ UNCHANGED branch
    /\ UNCHANGED <<record, claim, pull, commits, budgets>>

\* Mutant: any branch of that name will do.
VerifyBranch_Trusts(p) ==
    /\ drafts[p].pc = "verifying"
    /\ drafts' = [drafts EXCEPT
         ![p].pc = IF branch = Null THEN "idle" ELSE "assert open", ![p].moved = FALSE]
    /\ UNCHANGED <<record, claim, branch, pull, commits, budgets>>

\* The same tree, one parent, the same base; anything else is a mismatch
\* that no other attempt repairs.  A branch that is gone again is an error.
VerifyBranch(p) ==
    /\ drafts[p].pc = "verifying"
    /\ drafts' = [drafts EXCEPT
         ![p].pc = IF branch = Null THEN "idle"
                   ELSE IF /\ branch.tree = drafts[p].commit.tree
                           /\ Len(branch.parents) = 1
                           /\ branch.parents[1] = BaseCommit
                        THEN "assert open" ELSE "mismatch",
         ![p].moved = FALSE]
    /\ UNCHANGED <<record, claim, branch, pull, commits, budgets>>

\* GitHub refuses a second open pull request of a branch, and one without a
\* branch.
OpenPull(p) ==
    /\ drafts[p].pc = "opening"
    /\ IF pull = Null /\ branch # Null
       THEN /\ pull' = [by |-> p, carries |-> Carries(branch), moved |-> drafts[p].moved,
                        body |-> buildDraftPullRequestBodyFromReviewRecord(record)]
            /\ drafts' = [drafts EXCEPT ![p].pc = "published"]
       ELSE /\ drafts' = [drafts EXCEPT ![p].pc = "refused"]
            /\ UNCHANGED pull
    /\ UNCHANGED <<record, claim, branch, commits, budgets>>

\* A crash, or an answer that never came: the write may have been applied.
DraftAttemptDies(p) ==
    /\ drafts[p].pc \notin {"idle", "mismatch", "refused"}
    /\ drafts' = [drafts EXCEPT ![p] = IdleDraft]
    /\ UNCHANGED <<record, claim, branch, pull, commits, budgets>>

-----------------------------------------------------------------------------
(***************************************************************************)
(* People                                                                  *)
(***************************************************************************)
PersonActs == budgets.people > 0 /\ budgets' = [budgets EXCEPT !.people = @ - 1]

\* A push to the branch: another tree, another base, or a merge.
PersonPushes ==
    /\ PersonActs
    /\ commits' = commits + 1
    /\ \E tree \in {ResultTree, {}}, parents \in {<<BaseCommit>>, <<"other">>, <<BaseCommit, "other">>} :
         /\ <<tree, parents>> # <<ResultTree, <<BaseCommit>>>>
         /\ branch' = [sha |-> commits + 1, tree |-> tree, parents |-> parents]
    /\ drafts' = [p \in Publishers |-> [drafts[p] EXCEPT !.moved = TRUE]]
    /\ UNCHANGED <<record, claim, pull>>

PersonDeletesBranch ==
    /\ PersonActs /\ branch # Null
    /\ branch' = Null /\ pull' = Null
    /\ UNCHANGED <<record, claim, drafts, commits>>

PersonClosesPull ==
    /\ PersonActs /\ pull # Null
    /\ pull' = Null
    /\ UNCHANGED <<record, claim, drafts, branch, commits>>

DraftStep(p) ==
    \/ ListPulls(p) \/ BuildCommit(p)
    \/ AssertBeforeBranch(p) \/ CreateBranch(p)
    \/ AssertBeforeVerify(p) \/ VerifyBranch(p)
    \/ AssertBeforeOpen(p) \/ OpenPull(p)

PeopleStep == PersonPushes \/ PersonDeletesBranch \/ PersonClosesPull

-----------------------------------------------------------------------------
\* A pull request the bot opened carries exactly the validated result, unless
\* a person moved the branch between the publisher's check and its opening;
\* and a publisher only concludes a mismatch about a commit a person made,
\* never about one that an earlier attempt of the same run left behind.  The
\* files its body lists are the files of the tree.
DraftCarriesResult ==
    /\ pull # Null => (pull.carries \/ pull.moved)
    /\ pull # Null => pull.body.files = {e.path : e \in ResultTree}
    /\ \A p \in Publishers : drafts[p].pc = "mismatch" => budgets.people < MaxPeople

=============================================================================
