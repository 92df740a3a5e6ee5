--------------------------- MODULE ExecutionCalls ---------------------------
(***************************************************************************)
(* How Review Runs and the execution gateway talk: submissions and polls   *)
(* (execution-client.ts) with their retries, what the gateway answers      *)
(* (execution-gateway server.ts, temporal-execution-client.ts), what may   *)
(* happen to a request or its answer, and what Review Runs concludes       *)
(* (submission handler and recovery, server-runtime.ts,                    *)
(* terminal-coordination.ts).                                              *)
(*                                                                         *)
(* An input is the sequence of its JSON members.  A 4xx is the gateway's   *)
(* own; a 503 without a body, or the answer to another run's request, is   *)
(* the doing of something between the two.                                 *)
(***************************************************************************)
EXTENDS Naturals, Sequences, FiniteSets

CONSTANTS
    Runs,               \* run ids, in the order a pass lists them
    Prepared,           \* run -> [workflow, input]
    Responses,          \* what a completed execution may return
    None,
    MaxRetries,         \* EXECUTION_API_REQUEST_RETRIES
    StatusQueryLimit,   \* EXECUTION_STATUS_QUERY_LIMIT
    MaxSubmissions      \* bound on the submissions of one run

VARIABLES
    executions,         \* what Temporal holds under each run id
    late,               \* submissions still on their way after their sender gave up
    rows,               \* what Review Runs recorded of each run
    exchange            \* the request under way, and the polling pass around it

executionVars == <<executions, late, rows, exchange>>

RunIds == {Runs[i] : i \in DOMAIN Runs}

-----------------------------------------------------------------------------
(***************************************************************************)
(* The gateway                                                             *)
(***************************************************************************)

\* Errors as both sides write them.
ErrorOf(code) == [code |-> code, retryable |-> FALSE]

\* Mutant: members are hashed in the order they arrive in.
canonicalValue_AsSent(input) == {<<i, input[i]>> : i \in DOMAIN input}

\* The order of an object's members does not matter.
canonicalValue(input) == {input[i] : i \in DOMAIN input}

fingerprint(submission) == [workflow |-> submission.workflow, input |-> canonicalValue(submission.input)]

ExecutionTypes ==
    [status : {"RUNNING", "COMPLETED", "TIMED_OUT"}, response : Responses \cup {None},
     memo : [workflow : {Prepared[run].workflow : run \in RunIds},
             request_fingerprint : {fingerprint(Prepared[run]) : run \in RunIds}]]

ExecutionRecord(run, workflow, status) ==
    [run_id |-> run, workflow |-> workflow, status |-> status, result |-> FALSE, error |-> None, storage |-> None]

Storage(status) == [status |-> status, wellFormed |-> TRUE, protocol |-> "", run |-> None, plain |-> TRUE]

\* A bundle of this run in object storage, and nothing else in its address.
parseDiagnosticArtifactUri(storage, run) ==
    storage.protocol = "s3" /\ storage.run = run /\ storage.plain

parseRunDiagnosticArtifact(storage, run) ==
    storage.status = "available" /\ storage.wellFormed /\ parseDiagnosticArtifactUri(storage, run)

FailedRecord(run, workflow, error, storage) ==
    [ExecutionRecord(run, workflow, "failed") EXCEPT !.error = error, !.storage = storage]

\* A result is of the workflow whose schema accepts it, an error is one of the
\* declared shape or none.
validateExecutionResult(workflow, result) == result = workflow

isExecutionError(error) == error # None

\* A completed execution is reported as succeeded only with a workflow, a
\* result of that workflow and a bundle of this run.
CompletedRecord(run, workflow, response) ==
    LET unusable == FailedRecord(run, workflow, ErrorOf("EXECUTION_RESPONSE_INVALID"), Storage("unavailable"))
    IN IF response.ok
       THEN IF workflow = None \/ ~validateExecutionResult(workflow, response.result) THEN unusable
            ELSE IF ~parseRunDiagnosticArtifact(response.storage, run)
            THEN [unusable EXCEPT !.storage = Storage("failed")]
            ELSE [ExecutionRecord(run, workflow, "succeeded") EXCEPT
                     !.result = TRUE, !.storage = response.storage]
       ELSE IF isExecutionError(response.error) THEN [unusable EXCEPT !.error = response.error]
       ELSE unusable

get(run) ==
    LET execution == executions[run]
    IN CASE execution.status = "RUNNING" -> ExecutionRecord(run, execution.memo.workflow, "running")
         [] execution.status = "COMPLETED" -> CompletedRecord(run, execution.memo.workflow, execution.response)
         [] OTHER -> FailedRecord(run, execution.memo.workflow, ErrorOf("EXECUTION_FAILED"), Storage("unavailable"))

-----------------------------------------------------------------------------
(***************************************************************************)
(* Answers                                                                 *)
(***************************************************************************)
Reply(status, text, body) == [status |-> status, text |-> text, body |-> body]

Json200(record) == Reply(200, "json", record)
Refusal(status, run, error) == Reply(status, "json", [ExecutionRecord(run, None, "") EXCEPT !.error = error])

\* The gateway's own error envelope: every error it reports is marked as not
\* retryable, an internal one too.
InternalFault == Refusal(500, None, ErrorOf("EXECUTION_FAILED"))
Unreachable == Reply(503, "empty", ExecutionRecord(None, None, ""))
NoReply == Reply(0, "none", ExecutionRecord(None, None, ""))

\* A result beyond the client's budget arrives as a body it refuses to read.
Answering(run) ==
    LET execution == executions[run]
    IN IF execution.status = "COMPLETED" /\ execution.response.large /\ get(run).status = "succeeded"
       THEN Reply(200, "oversized", get(run)) ELSE Json200(get(run))

NotFound(run) == Refusal(404, run, ErrorOf("EXECUTION_RUN_NOT_FOUND"))

getRun(run) == IF executions[run] = None THEN NotFound(run) ELSE Answering(run)

getRunStatuses(asked) ==
    LET known == {run \in asked : executions[run] # None}
    IN Reply(200, "json", [runs |-> [run \in known |-> get(run).status], missing |-> asked \ known])

\* start: the first request of a run id is started under it, the same one
\* again is answered with what is there, another one is a conflict.
Started(submission) ==
    [status |-> "RUNNING", response |-> None,
     memo |-> [workflow |-> submission.workflow, request_fingerprint |-> fingerprint(submission)]]

start(submission) ==
    executions' = IF executions[submission.run] = None
                  THEN [executions EXCEPT ![submission.run] = Started(submission)] ELSE executions

Conflicts(submission) ==
    /\ executions[submission.run] # None
    /\ executions[submission.run].memo.request_fingerprint # fingerprint(submission)

createRunReply(submission) ==
    IF ~submission.valid THEN Refusal(400, submission.run, ErrorOf("EXECUTION_REQUEST_INVALID"))
    ELSE IF Conflicts(submission) THEN Refusal(409, submission.run, ErrorOf("EXECUTION_RUN_CONFLICT"))
    ELSE IF executions[submission.run] = None
    THEN Reply(202, "json", ExecutionRecord(submission.run, submission.workflow, "running"))
    ELSE [Answering(submission.run) EXCEPT !.status = 202]

Handle(submission) == IF submission.valid THEN start(submission) ELSE UNCHANGED executions

-----------------------------------------------------------------------------
(***************************************************************************)
(* The client                                                              *)
(***************************************************************************)
isRetryableStatus(status) == status = 429 \/ status >= 500

ProtocolCodes == {"EXECUTION_INVALID_STATUS", "EXECUTION_IDENTITY_MISMATCH", "EXECUTION_WORKFLOW_MISMATCH",
                  "EXECUTION_RESPONSE_TOO_LARGE", "EXECUTION_INVALID_JSON", "EXECUTION_INVALID_ARTIFACT_STORAGE"}

ErrorTypes ==
    [name : {"service", "protocol", "transport"}, retryable : BOOLEAN,
     code : ProtocolCodes \cup {"EXECUTION_FAILED", "EXECUTION_API_ERROR", "EXECUTION_RUN_NOT_FOUND"}]

ServiceError(code, retryable) == [name |-> "service", code |-> code, retryable |-> retryable]
ProtocolError(code) == [name |-> "protocol", code |-> code, retryable |-> FALSE]
TransportError == [name |-> "transport", code |-> "EXECUTION_FAILED", retryable |-> TRUE]

\* The peer's own word on whether a retry may help comes before the status.
executionError(reply) ==
    IF reply.text = "json" /\ reply.body.error # None
    THEN ServiceError(reply.body.error.code, reply.body.error.retryable)
    ELSE ServiceError("EXECUTION_API_ERROR", isRetryableStatus(reply.status))

isTerminalExecutionPollingError(error) ==
    \/ error.name = "protocol"
    \/ error.name = "service" /\ (~error.retryable \/ error.code = "EXECUTION_RUN_NOT_FOUND")

bodyParseError(reply) ==
    IF reply.text = "oversized" THEN ProtocolError("EXECUTION_RESPONSE_TOO_LARGE")
    ELSE ProtocolError("EXECUTION_INVALID_JSON")

parseResponse(body, run, workflow) ==
    IF body.status \notin {"queued", "running", "succeeded", "failed"} THEN "EXECUTION_INVALID_STATUS"
    ELSE IF body.run_id # run THEN "EXECUTION_IDENTITY_MISMATCH"
    ELSE IF body.workflow # workflow THEN "EXECUTION_WORKFLOW_MISMATCH" ELSE "ok"

\* An address is accepted only with a bundle that is there and is this run's.
parseArtifactStorage(storage, run) ==
    /\ storage.status \in {"available", "unavailable", "failed"} /\ storage.wellFormed
    /\ IF storage.status = "available" THEN parseDiagnosticArtifactUri(storage, run) ELSE storage.protocol = ""

\* Silence, a status that may be anybody's and an acceptance that cannot be
\* read leave the outcome open; every other status is the gateway's refusal.
submitExecutionRun(reply, run, workflow) ==
    CASE reply.text = "none" \/ isRetryableStatus(reply.status) -> "uncertain"
      [] reply.text # "none" /\ reply.status \in 400 .. 499 \ {429} -> "refused"
      [] OTHER -> IF reply.text = "json" /\ parseResponse(reply.body, run, workflow) = "ok"
                  THEN "accepted" ELSE "uncertain"

Read(error, record) == [error |-> error, record |-> record]

getExecutionRunStatus(reply, run, workflow) ==
    CASE reply.text = "none" -> Read(TransportError, None)
      [] reply.text # "none" /\ reply.status >= 400 -> Read(executionError(reply), None)
      [] reply.text = "oversized" /\ reply.status < 400 -> Read(bodyParseError(reply), None)
      [] OTHER ->
           LET parsed == parseResponse(reply.body, run, workflow)
           IN IF parsed # "ok" THEN Read(ProtocolError(parsed), None)
              ELSE IF reply.body.storage # None /\ ~parseArtifactStorage(reply.body.storage, run)
              THEN Read(ProtocolError("EXECUTION_INVALID_ARTIFACT_STORAGE"), None)
              ELSE Read(None, reply.body)

\* The members of an input are listed; no execution is none and no error is
\* none.
ASSUME InputsAreLists ==
    \A run \in RunIds :
        LET input == Prepared[run].input IN input \in Seq({input[i] : i \in DOMAIN input})

ASSUME NoneIsNothing == None \notin ExecutionTypes /\ None \notin ErrorTypes

-----------------------------------------------------------------------------
(***************************************************************************)
(* One request with its retries                                            *)
(***************************************************************************)
Row(status, valid) == [status |-> status, valid |-> valid, code |-> None, submissions |-> 0, bundle |-> None]
Resting == [at |-> "idle", op |-> None, run |-> None, submission |-> None, asked |-> {}, tries |-> 0,
            reply |-> NoReply, todo |-> << >>, seen |-> << >>, missing |-> {}]

Sending(op) == exchange.at = "sending" /\ exchange.op = op
Answered(reply) == exchange' = [exchange EXCEPT !.at = "answered", !.reply = reply]
Active(run) == rows[run].status \in {"queued", "running"}
ActiveRuns == SelectSeq(Runs, Active)

\* The first submission sends the members as prepared, a replay as the
\* database orders them.
Submit(run) ==
    /\ exchange.at = "idle"
    /\ rows[run].status \in {"preparing", "uncertain"} /\ rows[run].submissions < MaxSubmissions
    /\ LET prepared == Prepared[run]
           stored == [i \in DOMAIN prepared.input |-> prepared.input[Len(prepared.input) + 1 - i]]
       IN exchange' = [Resting EXCEPT !.at = "sending", !.op = "submit", !.run = run, !.submission =
              [run |-> run, workflow |-> prepared.workflow, valid |-> rows[run].valid,
               input |-> IF rows[run].status = "preparing" THEN prepared.input ELSE stored]]
    /\ rows' = [rows EXCEPT ![run].submissions = @ + 1]
    /\ UNCHANGED <<executions, late>>

GatewayCreates ==
    /\ Sending("submit")
    /\ Handle(exchange.submission)
    /\ \E reply \in {createRunReply(exchange.submission), InternalFault, NoReply} : Answered(reply)
    /\ UNCHANGED <<late, rows>>

\* The request was lost, met a gateway that cannot reach Temporal, or is
\* still on its way when its sender stops waiting.
SubmissionFaulty ==
    /\ Sending("submit")
    /\ \/ (\E reply \in {NoReply, Unreachable, InternalFault} : Answered(reply)) /\ UNCHANGED late
       \/ Answered(NoReply) /\ late' = late \cup {exchange.submission}
    /\ UNCHANGED <<executions, rows>>

LateSubmission ==
    /\ \E submission \in late : Handle(submission) /\ late' = late \ {submission}
    /\ UNCHANGED <<rows, exchange>>

GatewayReports ==
    /\ exchange.at = "sending" /\ exchange.op \in {"status", "statuses"}
    /\ Answered(IF exchange.op = "status" THEN getRun(exchange.run) ELSE getRunStatuses(exchange.asked))
    /\ UNCHANGED <<executions, late, rows>>

\* The answer to another run's request, out of a cache between the two.
AnswerMisdelivered ==
    /\ Sending("status")
    /\ \E run \in RunIds \ {exchange.run} : executions[run] # None /\ Answered(Answering(run))
    /\ UNCHANGED <<executions, late, rows>>

PollFaulty ==
    /\ exchange.at = "sending" /\ exchange.op \in {"status", "statuses"}
    /\ \E reply \in {NoReply, Unreachable, InternalFault} : Answered(reply)
    /\ UNCHANGED <<executions, late, rows>>

Retries == (exchange.reply.text = "none" \/ isRetryableStatus(exchange.reply.status)) /\ exchange.tries < MaxRetries

Retry ==
    /\ exchange.at = "answered" /\ Retries
    /\ exchange' = [exchange EXCEPT !.at = "sending", !.tries = @ + 1]
    /\ UNCHANGED <<executions, late, rows>>

Concludes(op) == exchange.at = "answered" /\ exchange.op = op /\ ~Retries

ConcludeSubmission ==
    /\ Concludes("submit")
    /\ LET outcome == submitExecutionRun(exchange.reply, exchange.run, exchange.submission.workflow)
       IN rows' = [rows EXCEPT ![exchange.run].status =
             IF outcome = "accepted" THEN "queued" ELSE outcome]
    /\ exchange' = Resting
    /\ UNCHANGED <<executions, late>>

-----------------------------------------------------------------------------
(***************************************************************************)
(* A polling pass                                                          *)
(***************************************************************************)

\* getExecutionRunStatuses: the active runs in requests of a limited size,
\* then each run in turn.
NextBatch(pass) ==
    LET n == IF Len(pass.todo) < StatusQueryLimit THEN Len(pass.todo) ELSE StatusQueryLimit
    IN IF pass.todo = << >> THEN [pass EXCEPT !.at = "observing", !.todo = ActiveRuns]
       ELSE [pass EXCEPT !.at = "sending", !.op = "statuses", !.tries = 0, !.reply = NoReply,
                         !.asked = {pass.todo[i] : i \in 1 .. n},
                         !.todo = SubSeq(pass.todo, n + 1, Len(pass.todo))]

StartPass ==
    /\ exchange.at = "idle" /\ ActiveRuns # << >>
    /\ exchange' = NextBatch([Resting EXCEPT !.todo = ActiveRuns])
    /\ UNCHANGED <<executions, late, rows>>

\* readExecutionRunStatuses: any failure ends the pass, nothing concluded.
ConcludeStatuses ==
    /\ Concludes("statuses")
    /\ LET reply == exchange.reply
           body == reply.body
       IN exchange' = IF reply.text # "json" \/ reply.status >= 400 THEN Resting
                      ELSE NextBatch([exchange EXCEPT
                              !.seen = [run \in DOMAIN exchange.seen \cup DOMAIN body.runs |->
                                           IF run \in DOMAIN body.runs THEN body.runs[run] ELSE exchange.seen[run]],
                              !.missing = @ \cup body.missing])
    /\ UNCHANGED <<executions, late, rows>>

Observed == Head(exchange.todo)
Proceed == exchange' = IF Len(exchange.todo) = 1 THEN Resting
                       ELSE [exchange EXCEPT !.at = "observing", !.todo = Tail(@)]

\* executionStatusFromBatch: an unfinished run needs no record of its own.
STATUSES_NEEDING_RUN_RECORD == {"succeeded", "failed"}

ObserveUnfinished ==
    /\ exchange.at = "observing"
    /\ Observed \in DOMAIN exchange.seen /\ exchange.seen[Observed] \notin STATUSES_NEEDING_RUN_RECORD
    /\ rows' = [rows EXCEPT ![Observed].status = exchange.seen[Observed]]
    /\ Proceed
    /\ UNCHANGED <<executions, late>>

ReadRunRecord ==
    /\ exchange.at = "observing"
    /\ Observed \in DOMAIN exchange.seen => exchange.seen[Observed] \in STATUSES_NEEDING_RUN_RECORD
    /\ exchange' = [exchange EXCEPT !.at = "sending", !.op = "status", !.run = Observed, !.tries = 0]
    /\ UNCHANGED <<executions, late, rows>>

Record(run, status, code, bundle) ==
    rows' = [rows EXCEPT ![run].status = status, ![run].code = code, ![run].bundle = bundle]

\* observeExecutionRun
ConcludeStatus ==
    /\ Concludes("status")
    /\ LET run == exchange.run
           read == getExecutionRunStatus(exchange.reply, run, Prepared[run].workflow)
           record == read.record
       IN CASE read.error # None ->
                 IF isTerminalExecutionPollingError(read.error)
                 THEN Record(run, "failed", read.error.code, None) ELSE UNCHANGED rows
            [] read.error = None /\ record.status = "running" -> Record(run, "running", None, None)
            [] read.error = None /\ record.status = "failed" ->
                 Record(run, "failed", IF record.error = None THEN "EXECUTION_FAILED" ELSE record.error.code, None)
            [] read.error = None /\ record.status = "succeeded" ->
                 IF record.result THEN Record(run, "succeeded", None, record.storage)
                 ELSE Record(run, "failed", "EXECUTION_RESULT_MISSING", None)
            [] OTHER -> UNCHANGED rows
    /\ Proceed
    /\ UNCHANGED <<executions, late>>

-----------------------------------------------------------------------------
\* The execution ends: its workflow returns, or Temporal ends it.
ExecutionEnds(run) ==
    /\ executions[run] # None /\ executions[run].status = "RUNNING"
    /\ \/ \E response \in Responses : executions' = [executions EXCEPT ![run].status = "COMPLETED",
                                                                      ![run].response = response]
       \/ executions' = [executions EXCEPT ![run].status = "TIMED_OUT"]
    /\ UNCHANGED <<late, rows, exchange>>

\* Some runs were accepted before; the gateway's schema accepts the input of
\* the others or not.
ExecutionInit(accepted) ==
    /\ executions = [run \in RunIds |-> IF run \in accepted THEN Started(Prepared[run]) ELSE None]
    /\ \E valid \in [RunIds \ accepted -> BOOLEAN] :
          rows = [run \in RunIds |-> IF run \in accepted THEN Row("queued", TRUE)
                                     ELSE Row("preparing", valid[run])]
    /\ late = {} /\ exchange = Resting

ExecutionNext ==
    \/ \E run \in RunIds : Submit(run) \/ ExecutionEnds(run)
    \/ GatewayCreates \/ SubmissionFaulty \/ LateSubmission
    \/ GatewayReports \/ AnswerMisdelivered \/ PollFaulty
    \/ Retry \/ ConcludeSubmission
    \/ StartPass \/ ConcludeStatuses \/ ObserveUnfinished \/ ReadRunRecord \/ ConcludeStatus

ExecutionSpec(accepted) == ExecutionInit(accepted) /\ [][ExecutionNext]_executionVars

-----------------------------------------------------------------------------
Ended(run) == executions[run] # None /\ executions[run].status # "RUNNING"
Succeeded(run) == Ended(run) /\ get(run).status = "succeeded"

\* What Review Runs records of an execution is what happened to it, whatever
\* was lost, repeated, late or misdelivered: a refused submission started
\* nothing and never will, an accepted run is under way with the request
\* that was prepared, a run counts as running only once it was started, and
\* as succeeded only with a result and a bundle of its own.
RecordedIsTrue ==
    \A run \in RunIds :
        /\ rows[run].status = "refused" =>
              executions[run] = None /\ \A submission \in late : submission.run = run => ~submission.valid
        /\ rows[run].status \in {"queued", "running", "succeeded"} =>
              /\ executions[run] # None
              /\ executions[run].memo.request_fingerprint = fingerprint(Prepared[run])
        /\ rows[run].status = "succeeded" => Succeeded(run) /\ rows[run].bundle.run = run

\* Executions are recorded as they are, and a pass that reads statuses learns
\* of every active run whether it is known
\* (execution-client.ts submitExecutionRun, getExecutionRunStatuses,
\* getExecutionRunStatus; temporal-execution-client.ts start, get).
ExecutionsAreUnderstood ==
    /\ RecordedIsTrue
    /\ exchange.at = "observing" =>
          \A i \in DOMAIN exchange.todo :
             (exchange.todo[i] \in DOMAIN exchange.seen) # (exchange.todo[i] \in exchange.missing)

\* "A transient network error (a timeout, a 5xx, a dropped connection) is not
\* a definite failure": an execution is recorded as failed only if it ended
\* without a usable result, is not there, or an answer broke the protocol.
OnlyDefiniteFailuresFail ==
    \A run \in RunIds :
        (rows[run].status = "failed" /\ rows[run].code \notin ProtocolCodes) =>
            executions[run] = None \/ (Ended(run) /\ ~Succeeded(run))

=============================================================================
