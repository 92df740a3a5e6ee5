---------------------------- MODULE ServiceCalls ----------------------------
(***************************************************************************)
(* One call at a time from the GitHub Integration, the console or an       *)
(* operator to Review Runs: how the HTTP surface checks and answers it     *)
(* (http/server-surface.ts and the route handlers), what may happen to the *)
(* answer, what the client makes of it (review-runs/client.ts) and what    *)
(* the publication concludes from a failure; and the publish context that  *)
(* crosses the boundary twice (review-runs/publish-context.ts).            *)
(*                                                                         *)
(* A JSON value is [t, v]: its type and a text for its value.              *)
(***************************************************************************)
EXTENDS Naturals, Sequences, FiniteSets

CONSTANTS
    NoCode,
    MaxBody,                \* the server's body limit
    Contexts,               \* publish contexts that may be submitted or stored
    splitRepoFullName,      \* full names GitHub accepts, to <<owner, name>>
    lowerCase

\* A context has the fields of every workflow.
ASSUME ContextsHaveFields ==
    \A c \in Contexts :
        DOMAIN c = {"owner", "name", "full", "branch", "number", "title", "author", "head", "files",
                    "target", "mode", "base", "workspace_ref", "open_pr", "event"}

Workflows == {"issue-review", "pull-request-review", "repository-review"}

VARIABLES
    call,                   \* the call under way
    stored                  \* the run it is about; `claim`: the token of a
                            \* preparing caller is still the row's

callVars == <<call, stored>>

-----------------------------------------------------------------------------
(***************************************************************************)
(* Publish contexts                                                        *)
(***************************************************************************)

Json(t, v) == [t |-> t, v |-> v]
Missing == Json("undefined", "")
Str(v) == Json("string", v)

text(value) == value.t = "string" /\ value.v # ""
positiveInteger(value) == value.t = "number" /\ value.v \notin {"0", "1.5"}
nullableText(value) == value.t \in {"string", "null"}
oneOf(value, allowed) == value.t = "string" /\ value.v \in allowed

\* All three stored forms name one repository.
repositoryIdentity(c) ==
    /\ text(c.owner) /\ text(c.name) /\ text(c.full)
    /\ c.full.v \in DOMAIN splitRepoFullName
    /\ lowerCase[splitRepoFullName[c.full.v][1]] = lowerCase[c.owner.v]
    /\ lowerCase[splitRepoFullName[c.full.v][2]] = lowerCase[c.name.v]

\* The target of each workflow: an issue, a pull request with its files, or
\* a branch to scan.
issue(c) == text(c.branch) /\ positiveInteger(c.number) /\ text(c.title)
pullRequest(c) == positiveInteger(c.number) /\ nullableText(c.author) /\ text(c.head)
pullRequestFile(f) == text(f.filename) /\ f.patch.t \in {"undefined", "null", "string"}
scanTarget(c) ==
    /\ text(c.branch) /\ text(c.target) /\ oneOf(c.mode, {"full", "incremental"})
    /\ nullableText(c.base) /\ text(c.head)

parseIssueReviewPublishContext(c) ==
    /\ c.open_pr.t \in {"undefined", "boolean"}
    /\ repositoryIdentity(c) /\ issue(c) /\ text(c.workspace_ref)
    /\ oneOf(c.event, {"opened", "manual_review"})

parsePullRequestReviewPublishContext(c) ==
    /\ c.files.t = "array" /\ \A i \in DOMAIN c.files.v : pullRequestFile(c.files.v[i])
    /\ repositoryIdentity(c) /\ pullRequest(c)
    /\ oneOf(c.event, {"opened", "ready_for_review", "synchronize", "manual_review"})

parseRepositoryReviewPublishContext(c) ==
    /\ repositoryIdentity(c) /\ scanTarget(c) /\ text(c.workspace_ref)
    /\ oneOf(c.event, {"manual", "scheduled"})

Parses(workflow, c) ==
    CASE workflow = "issue-review" -> parseIssueReviewPublishContext(c)
      [] workflow = "pull-request-review" -> parsePullRequestReviewPublishContext(c)
      [] OTHER -> parseRepositoryReviewPublishContext(c)

\* What a parse keeps: an absent open_pr has become false.
Parsed(workflow, c) ==
    IF workflow = "issue-review" /\ c.open_pr = Missing
    THEN [c EXCEPT !.open_pr = Json("boolean", "false")] ELSE c

-----------------------------------------------------------------------------
(***************************************************************************)
(* The HTTP surface of Review Runs                                         *)
(***************************************************************************)

StepCodes == {"PUBLICATION_STEP_SET_DUPLICATE", "PUBLICATION_STEP_SET_CHANGED",
              "PUBLICATION_STEP_RETRY_EXHAUSTED", "PUBLICATION_STEP_NOT_CLAIMABLE"}
errorCodeEnum == StepCodes \cup {"INVALID_BODY", "INVALID_PATH_PARAMETER", "INVALID_QUERY"}

\* The absence of a code or a value is not one of them.
ASSUME NoCodeIsNoText ==
    NoCode \notin errorCodeEnum \cup {"PUBLISH_CONTEXT_INVALID", "22007", "empty", "null", "work",
                                     "record", "true", "false", "retry", "no retry"}

PreparationOps == {"admitRun", "submitPreparedRun", "checkpointPreparationInput", "failPreparation"}
StepOps == {"initializePublicationSteps", "requirePublicationStepClaim", "completePublicationStep",
            "settleExhaustedPublicationStep"}
PublicationOps == {"claimNextPublication", "failPublication"}
ReadOps == {"getInternalRun", "listRuns"}
AdminOps == {"abandonBlockedPreparation"}
ConnectorOps == PreparationOps \cup StepOps \cup PublicationOps \cup {"getInternalRun"}
Operations == PreparationOps \cup StepOps \cup PublicationOps \cup ReadOps \cup AdminOps

Durable(op) == op \notin ReadOps

Token(op) == CASE op \in AdminOps -> "admin" [] op = "listRuns" -> "read" [] OTHER -> "service"

Thrown(kind, status, code) == [kind |-> kind, status |-> status, code |-> code]

\* A query value becomes what the contract declares, or stays a string that
\* the schema refuses.
coerceQueryStrings(value) ==
    IF value.t = "string" /\ value.v \in {"10"} THEN Json("number", value.v) ELSE value

\* An id travels as text; nothing in a body is coerced.
ValidBody(op, id) ==
    op \in {"completePublicationStep", "settleExhaustedPublicationStep"} =>
        id.t \in {"undefined", "null", "string"}

bearerTokenMatches(asked) == asked.token = Token(asked.op)

\* Everything the surface may refuse a request for before its handler runs;
\* which of several is reported first is the framework's choice.
Refusals(asked) ==
    (IF asked.op \in AdminOps /\ ~asked.admin THEN {Thrown("status", 404, NoCode)} ELSE {})
    \cup (IF ~bearerTokenMatches(asked) THEN {Thrown("unauthorized", 401, NoCode)} ELSE {})
    \cup (IF asked.size > MaxBody THEN {Thrown("too_large", 413, NoCode)} ELSE {})
    \cup (IF ~asked.json THEN {Thrown("invalid_json", 400, NoCode)} ELSE {})
    \cup (IF ~asked.params THEN {Thrown("params", 400, NoCode)} ELSE {})
    \cup (IF asked.json /\ ~ValidBody(asked.op, asked.id) THEN {Thrown("body", 400, NoCode)} ELSE {})
    \cup (IF coerceQueryStrings(asked.query).t \notin {"undefined", "number"}
          THEN {Thrown("query", 400, NoCode)} ELSE {})

\* The envelope of a failed request: only codes of the contract's closed set.
errorHandler(thrown) ==
    CASE thrown.kind = "deterministic" -> [status |-> 409, code |-> thrown.code]
      [] thrown.kind = "unauthorized" -> [status |-> 401, code |-> NoCode]
      [] thrown.kind = "too_large" -> [status |-> 413, code |-> NoCode]
      [] thrown.kind \in {"invalid_json", "body"} -> [status |-> 400, code |-> "INVALID_BODY"]
      [] thrown.kind = "params" -> [status |-> 400, code |-> "INVALID_PATH_PARAMETER"]
      [] thrown.kind = "query" \/ thrown.code = "22007" -> [status |-> 400, code |-> "INVALID_QUERY"]
      [] OTHER -> [status |-> thrown.status,
                   code |-> IF thrown.code \in errorCodeEnum THEN thrown.code ELSE NoCode]

\* What a handler may throw, what was asked for not done: the store's
\* deterministic refusals, an invalid cursor or date, an operator's decision
\* about a run that is not parked, and internal faults.  A refused claim of a
\* step has handed an exhausted step over to reconciliation (RefuseStepClaim).
HandlerThrows(op) ==
    {Thrown("internal", 500, NoCode), Thrown("internal", 500, "40001")}
    \cup (IF op = "initializePublicationSteps"
          THEN {Thrown("deterministic", 409, c) :
                   c \in {"PUBLICATION_STEP_SET_DUPLICATE", "PUBLICATION_STEP_SET_CHANGED"}}
          ELSE IF op = "requirePublicationStepClaim"
          THEN {Thrown("deterministic", 409, c) :
                   c \in {"PUBLICATION_STEP_RETRY_EXHAUSTED", "PUBLICATION_STEP_NOT_CLAIMABLE"}}
          ELSE IF op = "listRuns"
          THEN {Thrown("status", 400, "INVALID_QUERY"), Thrown("internal", 500, "22007")}
          ELSE IF op \in AdminOps
          THEN {Thrown("status", 400, NoCode), Thrown("status", 409, NoCode)} ELSE {})

\* Operations that declare a success without content answer an empty body.
EmptyBody(op) == op \in {"checkpointPreparationInput", "initializePublicationSteps", "requirePublicationStepClaim"}

\* failPreparation answers retry_scheduled, and false also when the claim was
\* lost to an expiry or to another owner and nothing was written.
Value(op) ==
    CASE EmptyBody(op) -> {"empty"}
      [] op = "claimNextPublication" -> {"null", "work"}
      [] op = "failPreparation" -> {"retry", "no retry"}
      [] op \in {"admitRun", "submitPreparedRun"} \cup ReadOps \cup AdminOps -> {"record"}
      [] OTHER -> {"true", "false"}

\* When a handler may answer this value.
Answerable(op, value) ==
    /\ op = "claimNextPublication" /\ value = "work" => stored.publication = "pending"
    /\ op = "failPublication" /\ value = "true" => stored.publication = "publishing"
    /\ op \in {"checkpointPreparationInput", "submitPreparedRun"} \/ value = "retry" => stored.claim
    /\ op \in AdminOps => ~stored.claim

\* What the call asks for is in the rows, by this call or an earlier one.
CarriedOut(op, value) == IF op = "failPreparation" THEN stored.claim ELSE value \notin {"false", "null"}

\* Claiming a publication takes it, failing it without a retry ends it, and a
\* preparation that was submitted or failed has no owner any more.
Effect(op, value) ==
    IF op = "claimNextPublication" /\ value = "work" THEN [stored EXCEPT !.publication = "publishing"]
    ELSE IF op = "failPublication" /\ value = "true" THEN [stored EXCEPT !.publication = "failed"]
    ELSE IF op \in {"failPreparation", "submitPreparedRun"} THEN [stored EXCEPT !.claim = FALSE]
    ELSE stored

-----------------------------------------------------------------------------
(***************************************************************************)
(* The client                                                              *)
(***************************************************************************)

Failed(status, code) == [kind |-> "error", value |-> NoCode, status |-> status, code |-> code]
Returned(value) == [kind |-> "value", value |-> value, status |-> 0, code |-> NoCode]

\* Mutant: the status of a refusal is not kept.
request_DropsStatus(op, answer) ==
    CASE answer.got = "timeout" -> Failed(0, "REVIEW_RUNS_REQUEST_TIMEOUT")
      [] answer.got = "dropped" -> Failed(0, NoCode)
      [] answer.got # "timeout" /\ answer.status >= 400 -> Failed(0, answer.code)
      [] OTHER -> Returned(answer.value)

\* request: a 404 is null where absence is an answer, an oversized error keeps
\* its status, an oversized success and an empty one are what they are.
request(op, answer) ==
    CASE answer.got = "timeout" -> Failed(0, "REVIEW_RUNS_REQUEST_TIMEOUT")
      [] answer.got = "dropped" -> Failed(0, NoCode)
      [] answer.got \in {"whole", "oversized"} /\ op = "getInternalRun" /\ answer.status = 404 -> Returned("null")
      [] answer.got = "oversized" /\ answer.status >= 400 -> Failed(answer.status, NoCode)
      [] answer.got = "oversized" /\ answer.status < 400 -> Failed(0, "REVIEW_RUNS_RESPONSE_TOO_LARGE")
      [] answer.got = "whole" /\ answer.status >= 400 -> Failed(answer.status, answer.code)
      [] OTHER -> Returned(IF answer.value = "empty" THEN "undefined" ELSE answer.value)

\* The remote object's id is normalized to text; settling always sends one.
remoteObject(op, id) ==
    CASE op = "settleExhaustedPublicationStep" /\ id.t = "undefined" -> Json("null", "")
      [] id.t = "number" -> Str(id.v)
      [] OTHER -> id

\* A failure is final when Review Runs refused; with no answer, or one that
\* may come from a proxy, it is retried.
classifyPublicationFailure(error) ==
    IF error.code = "PUBLICATION_STEP_RETRY_EXHAUSTED" THEN error.status = 0 \/ error.status >= 500
    ELSE /\ error.code \notin StepCodes \cup {"PUBLISH_CONTEXT_INVALID"}
         /\ error.status = 0 \/ error.status >= 500 \/ error.status \in {408, 409, 429}

-----------------------------------------------------------------------------
NoAnswer == [got |-> "nothing", status |-> 0, code |-> NoCode, value |-> NoCode]

Idle == [at |-> "idle", op |-> NoCode, request |-> NoCode, refused |-> FALSE, committed |-> FALSE,
         answer |-> NoAnswer, result |-> Returned("undefined"), retry |-> FALSE, after |-> NoCode]

RequestOf(op, token, size, json, params, id, query, admin) ==
    [op |-> op, token |-> token, size |-> size, json |-> json, params |-> params, id |-> id,
     query |-> query, admin |-> admin]

\* The connector's own request: its token, its types, a body of any size.
Call(op) ==
    /\ call.at = "idle" /\ op \in ConnectorOps
    /\ \E size \in {1, MaxBody + 1}, id \in {Missing, Json("null", ""), Json("number", "7")} :
          /\ op \notin {"completePublicationStep", "settleExhaustedPublicationStep"} => id = Missing
          /\ call' = [Idle EXCEPT !.at = "sent", !.op = op, !.request =
                         RequestOf(op, Token(op), size, TRUE, TRUE, remoteObject(op, id), Missing, TRUE)]
    /\ UNCHANGED stored

\* An operator's or the console's request may be wrong in any way.
CallFromOutside(op) ==
    /\ call.at = "idle" /\ op \in AdminOps \cup {"listRuns"}
    /\ \E token \in {"service", "read", "admin"}, json, params, admin \in BOOLEAN,
          query \in {Missing, Str("10"), Str("ten")} :
          call' = [Idle EXCEPT !.at = "sent", !.op = op, !.request =
                      RequestOf(op, token, 1, json, params, Missing, query, admin)]
    /\ UNCHANGED stored

\* Submission validates the context against the stored run's workflow first.
submitPreparedRun ==
    /\ call.at = "idle" /\ stored.publication = "none" /\ stored.claim
    /\ \E c \in Contexts :
          /\ Parses(stored.workflow, c)
          /\ stored' = [stored EXCEPT !.publication = "pending", !.context = Parsed(stored.workflow, c),
                                      !.ours = TRUE, !.claim = FALSE]
    /\ UNCHANGED call

\* The lease of the caller's preparation expires, or another owner takes it.
ClaimIsLost ==
    /\ stored.claim
    /\ stored' = [stored EXCEPT !.claim = FALSE]
    /\ UNCHANGED call

Respond(answer, committed, refused) ==
    call' = [call EXCEPT !.at = "answered", !.answer = answer, !.committed = committed, !.refused = refused]

AnswerOf(envelope) == [got |-> "whole", status |-> envelope.status, code |-> envelope.code, value |-> NoCode]

RefuseRequest ==
    /\ call.at = "sent"
    /\ \E thrown \in Refusals(call.request) : Respond(AnswerOf(errorHandler(thrown)), FALSE, TRUE)
    /\ UNCHANGED stored

HandlerFails ==
    /\ call.at = "sent" /\ Refusals(call.request) = {}
    /\ \/ /\ \E thrown \in HandlerThrows(call.op) :
                Respond(AnswerOf(errorHandler(thrown)), FALSE, errorHandler(thrown).status < 500)
          /\ UNCHANGED stored
       \/ /\ call.op \in ReadOps /\ call.op # "listRuns"
          /\ Respond([NoAnswer EXCEPT !.got = "whole", !.status = 404], FALSE, TRUE)
          /\ UNCHANGED stored
       \/ \* the connection broke while the transaction committed
          \E value \in Value(call.op) :
             /\ Durable(call.op) /\ Answerable(call.op, value) /\ CarriedOut(call.op, value)
             /\ Respond(AnswerOf(errorHandler(Thrown("internal", 500, NoCode))), TRUE, FALSE)
             /\ stored' = Effect(call.op, value)

HandlerAnswers ==
    /\ call.at = "sent" /\ Refusals(call.request) = {}
    /\ \E value \in Value(call.op) :
          /\ Answerable(call.op, value)
          /\ Respond([NoAnswer EXCEPT !.got = "whole", !.status = 200, !.value = value],
                     CarriedOut(call.op, value), FALSE)
          /\ stored' = Effect(call.op, value)

\* The request or its answer is lost, a proxy answers instead, or the answer
\* is too large to read.
AnswerFaulty ==
    /\ call.at \in {"sent", "answered"} /\ call.answer.got \in {"nothing", "whole"}
    /\ \/ \E got \in {"timeout", "dropped"} : call' = [call EXCEPT !.at = "answered", !.answer.got = got]
       \/ call' = [call EXCEPT !.at = "answered", !.refused = FALSE,
                               !.answer = [NoAnswer EXCEPT !.got = "whole", !.status = 502]]
       \/ call.at = "answered" /\ call' = [call EXCEPT !.answer.got = "oversized"]
    /\ UNCHANGED stored

Conclude ==
    /\ call.at = "answered"
    /\ LET result == request(call.op, call.answer)
       IN call' = [call EXCEPT !.at = "concluded", !.result = result,
                               !.retry = result.kind = "error" /\ classifyPublicationFailure(result)]
    /\ UNCHANGED stored

\* A claimed publication whose context does not parse is failed at once,
\* without a retry.
claimNextPublication ==
    /\ call.at = "concluded" /\ call.op = "claimNextPublication"
    /\ call.result.kind = "value" /\ call.result.value = "work"
    /\ ~Parses(stored.workflow, stored.context)
    /\ call' = [Idle EXCEPT !.at = "sent", !.op = "failPublication", !.after = "PUBLISH_CONTEXT_INVALID",
                   !.request = RequestOf("failPublication", "service", 1, TRUE, TRUE, Missing, Missing, TRUE)]
    /\ UNCHANGED stored

CallsInit ==
    /\ call = Idle
    /\ \E w \in Workflows, c \in Contexts, publication \in {"none", "pending"} :
          stored = [workflow |-> w, context |-> c, publication |-> publication, ours |-> FALSE,
                    claim |-> publication = "none"]

CallsNext ==
    \/ \E op \in Operations : Call(op) \/ CallFromOutside(op)
    \/ submitPreparedRun
    \/ ClaimIsLost
    \/ RefuseRequest
    \/ HandlerFails
    \/ HandlerAnswers
    \/ AnswerFaulty
    \/ Conclude
    \/ claimNextPublication

CallsSpec == CallsInit /\ [][CallsNext]_callVars

-----------------------------------------------------------------------------
\* What a caller concludes is what happened: a value that claims an effect
\* means that what the call asked for is done, a false that it is not, and
\* after any answer about a failed preparation, a scheduled retry or none, the
\* caller's claim is gone, whoever ended it; a failure is final exactly when
\* Review Runs itself refused the call for a reason that stands, and then what
\* was asked for is not done; the connector's own requests are never refused
\* as malformed, codes stay within the contract's set, and a claimed
\* publication is failed for its context only if that context is unusable,
\* which no context this code submitted is
\* (client.ts request, server-surface.ts registerReviewRunsRoutes,
\* preparation-store.ts fail, publication-failure.ts, publish-context.ts).
CallsAreUnderstood ==
    /\ call.answer.got = "whole" => call.answer.code \in errorCodeEnum \cup {NoCode}
    /\ call.at = "concluded" =>
          /\ (call.result.kind = "value" /\ call.result.value \notin {"null", "false", "no retry"}
                /\ Durable(call.op)) => call.committed
          /\ (call.result.kind = "value" /\ call.result.value = "false") => ~call.committed
          /\ (call.result.kind = "value" /\ call.op = "failPreparation") => ~stored.claim
          /\ call.result.kind = "error" =>
                /\ ~call.retry => (call.refused /\ ~call.committed)
                /\ (call.op \in ConnectorOps /\ call.refused /\ call.answer.got = "whole") => ~call.retry
          /\ (call.op \in ConnectorOps /\ call.refused) => call.answer.status # 400
    /\ (call.op = "failPublication" /\ call.after # NoCode) =>
          /\ ~Parses(stored.workflow, stored.context) /\ ~stored.ours
          /\ (call.at = "concluded" /\ call.result.value = "true") => stored.publication = "failed"
    /\ stored.ours =>
          /\ Parses(stored.workflow, stored.context)
          /\ Parsed(stored.workflow, stored.context) = stored.context
          /\ LET named == splitRepoFullName[stored.context.full.v]
             IN <<lowerCase[named[1]], lowerCase[named[2]]>> =
                   <<lowerCase[stored.context.owner.v], lowerCase[stored.context.name.v]>>
=============================================================================
