-------------------------- MODULE PreparationInput --------------------------
(***************************************************************************)
(* The durable input of a preparation: what a handler extracts from the    *)
(* payload (github/issue-service.ts, github/pull-request-service.ts), what *)
(* JSON keeps of it in the database, and what a recovered attempt reads    *)
(* back (review-runs/preparation-input.ts).                                *)
(*                                                                         *)
(* A payload is the set of its fields that hold something; any other field *)
(* is missing, null or blank.  A context is a function of its fields.      *)
(***************************************************************************)
EXTENDS Naturals, Functions

CONSTANTS Null, Undefined

Texts == {"text", ""}
\* What a field of a context holds.
Values == Texts \cup {"number", "zero", "true", "false", Null}

asString(payload, f) == IF f \in payload THEN "text" ELSE ""
trimmedOrNull(payload, f) == IF f \in payload THEN "text" ELSE Null
trimmedOrUndefined(payload, f) == IF f \in payload THEN "text" ELSE Undefined
asNumber(payload, f) == IF f \in payload THEN "number" ELSE "zero"
asBoolean(payload, f) == IF f \in payload THEN "true" ELSE "false"

\* JSON has no undefined: such a field is not written.
Stored(context) == Restrict(context, {f \in DOMAIN context : context[f] # Undefined})

ReadField(record, f) == IF f \in DOMAIN record THEN record[f] ELSE Undefined

-----------------------------------------------------------------------------
(***************************************************************************)
(* Issues                                                                  *)
(***************************************************************************)
IssueRequired == {"repo_name", "repo_full_name", "owner_login", "default_branch",
                  "issue_title", "issue_state"}
IssueStrings == {"action", "html_url", "api_url", "comments_url"}
IssueLogins == {"sender_login", "issue_author"}
IssueFields == IssueRequired \cup IssueStrings \cup IssueLogins
               \cup {"issue_number", "issue_body", "is_pull_request"}

\* Undefined is none of the values a field can have, and no record is null.
ASSUME UndefinedIsNoValue == Undefined \notin Values
ASSUME NoRecordIsNull == \A fields \in SUBSET IssueFields : Null \notin [fields -> Values]

requireIssueContext(payload) == IssueRequired \cup {"issue_number"} \subseteq payload

\* Null for a payload that has not got what a review needs.
extractIssueContext(payload) ==
    IF requireIssueContext(payload)
    THEN [f \in IssueFields |->
            CASE f \in IssueRequired \cup IssueStrings -> asString(payload, f)
              [] f \in IssueLogins                     -> trimmedOrUndefined(payload, f)
              [] f = "issue_body"                      -> trimmedOrNull(payload, f)
              [] f = "issue_number"                    -> asNumber(payload, f)
              [] f = "is_pull_request"                 -> asBoolean(payload, f)]
    ELSE Null

\* Mutant: a login is read like every other string.
optionalLogin_Required(value) == value = "text"

optionalLogin(value) == value \in {Undefined, "text"}

RecoveredIssueIsReadable(record) ==
    /\ \A f \in IssueRequired : ReadField(record, f) = "text"
    /\ \A f \in IssueStrings : ReadField(record, f) \in Texts
    /\ \A f \in IssueLogins : optionalLogin(ReadField(record, f))
    /\ ReadField(record, "issue_body") \in Texts \cup {Null}
    /\ ReadField(record, "issue_number") # Undefined
    /\ ReadField(record, "is_pull_request") # Undefined

-----------------------------------------------------------------------------
(***************************************************************************)
(* Pull requests                                                           *)
(***************************************************************************)
PullRequired == {"repo_name", "repo_full_name", "owner_login", "pr_title",
                 "base_ref", "base_sha", "head_ref", "head_sha"}
PullStrings == {"action", "html_url", "api_url", "commits_url", "review_comments_url",
                "comments_url", "issue_url"}
PullOptional == {"previous_head_sha", "sender_login", "pr_body", "pr_author",
                 "head_repo_full_name", "base_repo_full_name"}
PullNumbers == {"pr_number", "commits", "changed_files", "additions", "deletions"}
PullBooleans == {"is_draft", "from_fork"}
PullFields == PullRequired \cup PullStrings \cup PullOptional \cup PullNumbers \cup PullBooleans

requirePullRequestContext(payload) == PullRequired \cup {"pr_number"} \subseteq payload

buildPullRequestContextFromRaw(payload) ==
    IF requirePullRequestContext(payload)
    THEN [f \in PullFields |->
            CASE f \in PullRequired \cup PullStrings -> asString(payload, f)
              [] f \in PullOptional                  -> trimmedOrNull(payload, f)
              [] f \in PullNumbers                   -> asNumber(payload, f)
              [] f \in PullBooleans                  -> asBoolean(payload, f)]
    ELSE Null

optionalStringOrNull(value) == value \in Texts \cup {Null}

requirePersistedPullRequest(record) ==
    /\ \A f \in PullRequired : ReadField(record, f) = "text"
    /\ \A f \in PullStrings : ReadField(record, f) \in Texts
    /\ \A f \in PullOptional : optionalStringOrNull(ReadField(record, f))
    /\ \A f \in PullNumbers \cup PullBooleans : ReadField(record, f) # Undefined

-----------------------------------------------------------------------------
(***************************************************************************)
(* What is admitted, and what is read back                                 *)
(***************************************************************************)

\* A command on a pull request names it and no more.
PullReference == [pr_reference |-> {"owner_login", "repo_name", "pr_number"}]

parseIssuePreparationInput(input) ==
    input.issue # Null /\ RecoveredIssueIsReadable(input.issue)

\* The snapshot of a checkpoint counts before the reference it was made from.
parsePullRequestPreparationInput(input) ==
    IF "pr" \in DOMAIN input THEN requirePersistedPullRequest(input.pr)
    ELSE {"owner_login", "repo_name", "pr_number"} \subseteq input.pr_reference

parseRepositoryPreparationInput(input) ==
    {"payload", "verified_repository"} \subseteq input.dispatch

\* Null for a workflow that the stored kind does not belong to.
parsePreparationInput(workflow, input) ==
    CASE workflow = "issue-review" -> "issue" \in DOMAIN input /\ parseIssuePreparationInput(input)
      [] workflow = "pull-request-review" ->
             DOMAIN input \cap {"pr", "pr_reference"} # {}
             /\ parsePullRequestPreparationInput(input)
      [] workflow = "repository-review" ->
             "dispatch" \in DOMAIN input /\ parseRepositoryPreparationInput(input)

=============================================================================
