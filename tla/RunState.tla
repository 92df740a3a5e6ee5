------------------------------ MODULE RunState ------------------------------
(***************************************************************************)
(* The rows that Review Runs keeps for ONE review run.  Every store of     *)
(* services/review-runs/src/persistence reads and writes these rows, and   *)
(* every store method is one database transaction, so every action of the  *)
(* modules that extend this one is one transaction.                        *)
(*                                                                         *)
(*   preparation  row of `preparations`: building the execution input      *)
(*   execution    row of `executions`: the submission and its outcome      *)
(*   publication  row of `publications`: delivering the result             *)
(*   steps        rows of `publication_steps`, one per side effect         *)
(*   candidates   rows of `input_bundle_candidates`, one per bundle digest *)
(*   notices      the newest row of `run_notices` for each axis and kind   *)
(*   log          what the audit trail `review_run_events` says of each    *)
(*                axis: where its newest event ends, and whether every     *)
(*                event started where the one before it ended              *)
(*                                                                         *)
(* Time is abstracted to what the SQL compares: a lease is "live" until    *)
(* the claim timeout has passed since claimed_at and "expired" afterwards, *)
(* and a delayed preparation is due "later" until available_at is reached. *)
(***************************************************************************)
EXTENDS Naturals

CONSTANTS
    Tokens,           \* claim tokens (random UUIDs in the code)
    NoToken,          \* claim_token IS NULL
    Bundles,          \* publication intents, identified by bundle digest
    NoBundle,         \* a NULL input column
    Steps,            \* publication_steps keys derived from the stored result
    MaxPreparation,   \* MAX_PREPARATION_ATTEMPTS
    MaxRecovery,      \* MAX_SUBMISSION_RECOVERY_ATTEMPTS
    MaxStep,          \* MAX_PUBLICATION_STEP_ATTEMPTS
    MaxStepRecovery   \* MAX_PUBLICATION_STEP_RECOVERY_ATTEMPTS

ASSUME NullsAreNotValues == NoToken \notin Tokens /\ NoBundle \notin Bundles

ASSUME BudgetsArePositive ==
    /\ MaxPreparation \in Nat \ {0}
    /\ MaxRecovery \in Nat \ {0}
    /\ MaxStep \in Nat \ {0}
    /\ MaxStepRecovery \in Nat \ {0}

VARIABLES preparation, execution, publication, steps, candidates, notices, log

runVars == <<preparation, execution, publication, steps, candidates, notices, log>>

Lease == {"live", "expired"}

PreparationStatus ==
    {"pending", "preparing", "uncertain", "submitted", "failed", "disconnected"}

ExecutionStatus ==
    {"pending", "uncertain", "disconnected", "queued", "running",
     "succeeded", "failed", "skipped"}

PublicationStatus ==
    {"pending", "publishing", "uncertain", "disconnected",
     "published", "failed", "skipped"}

\* "absent": initializePublicationSteps has not inserted the row yet.
StepStatus ==
    {"absent", "pending", "running", "uncertain", "disconnected",
     "succeeded", "failed", "terminal_failed"}

CandidateStatus == {"absent", "reserved", "present", "selected", "abandoned"}

Axis == {"preparation", "execution", "publication"}

NoticeKind == {"failure", "attention"}

NoticeStatus ==
    {"absent", "pending", "delivering", "delivered", "failed", "superseded"}

Edges == {"joined", "broken"}

PreparationRow ==
    [status: PreparationStatus, token: Tokens \cup {NoToken}, lease: Lease,
     attempts: Nat, due: {"now", "later"}, input: {"admitted", "checkpointed"}]

ExecutionRow ==
    [status: ExecutionStatus, token: Tokens \cup {NoToken}, lease: Lease,
     attempts: Nat, input: Bundles \cup {NoBundle}]

PublicationRow ==
    [status: PublicationStatus, token: Tokens \cup {NoToken}, lease: Lease,
     input: Bundles \cup {NoBundle}]

StepRow ==
    [status: StepStatus, by: Tokens \cup {NoToken}, attempts: Nat, recoveries: Nat]

NoticeRows == [Axis -> [NoticeKind -> NoticeStatus]]

Trail(status) == [to: status, edges: Edges]

AuditTrail ==
    [preparation: Trail(PreparationStatus), execution: Trail(ExecutionStatus),
     publication: Trail(PublicationStatus)]

(* Every row is one its table admits.                                      *)
TypeOK ==
    /\ preparation \in PreparationRow
    /\ execution \in ExecutionRow
    /\ publication \in PublicationRow
    /\ steps \in [Steps -> StepRow]
    /\ candidates \in [Bundles -> CandidateStatus]
    /\ notices \in NoticeRows
    /\ log \in AuditTrail

(* appendEvent: the event is stored as given, the trail does not check it. *)
Logged(trail, from, to) ==
    [to |-> to, edges |-> IF trail.to = from THEN trail.edges ELSE "broken"]

----------------------------------------------------------------------------
(* The state a newly admitted run is created in: admission claims the      *)
(* first preparation attempt for the caller (ReviewRunAdmissionStore).     *)
InsertedRun(token) ==
    /\ preparation = [status |-> "preparing", token |-> token, lease |-> "live",
                      attempts |-> 1, due |-> "now", input |-> "admitted"]
    /\ execution = [status |-> "pending", token |-> NoToken, lease |-> "expired",
                    attempts |-> 0, input |-> NoBundle]
    /\ publication = [status |-> "pending", token |-> NoToken, lease |-> "expired",
                      input |-> NoBundle]
    /\ steps = [s \in Steps |-> [status |-> "absent", by |-> NoToken,
                                 attempts |-> 0, recoveries |-> 0]]
    /\ candidates = [b \in Bundles |-> "absent"]
    /\ notices = [axis \in Axis |-> [kind \in NoticeKind |-> "absent"]]
    /\ log = [preparation |-> [to |-> "preparing", edges |-> "joined"],
              execution |-> [to |-> "pending", edges |-> "joined"],
              publication |-> [to |-> "pending", edges |-> "joined"]]

----------------------------------------------------------------------------
(* Notices: queueRunNotice inserts one row per source event; a resume      *)
(* supersedes the attention rows of its axis that are not yet delivered.   *)
QueueRunNotice(kind, axis) == [notices EXCEPT ![axis][kind] = "pending"]

LiveNotice == {"pending", "delivering"}

SupersedeRunAttentionNotices(axis) ==
    [notices EXCEPT ![axis]["attention"] = IF @ \in LiveNotice THEN "superseded" ELSE @]

----------------------------------------------------------------------------
(* Abandoning the publication of a run that will not deliver a result:     *)
(* open candidates are abandoned, and a publication that is pending or     *)
(* publishing becomes skipped and loses its own and its steps' claims.     *)
InFlightPublication == publication.status \in {"pending", "publishing"}

AbandonInFlightPublication ==
    /\ candidates' = [b \in Bundles |->
                        IF candidates[b] \in {"reserved", "present"}
                        THEN "abandoned" ELSE candidates[b]]
    /\ publication' = IF InFlightPublication
                      THEN [publication EXCEPT !.status = "skipped", !.token = NoToken,
                                               !.lease = "expired"]
                      ELSE publication
    /\ steps' = IF InFlightPublication
                THEN [s \in Steps |-> [steps[s] EXCEPT !.by = NoToken]]
                ELSE steps

AbandonmentLogged ==
    IF InFlightPublication
    THEN Logged(log.publication, publication.status, "skipped")
    ELSE log.publication

=============================================================================
