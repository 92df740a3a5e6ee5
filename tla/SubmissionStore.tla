-------------------------- MODULE SubmissionStore ---------------------------
(***************************************************************************)
(* submission-transition-store.ts, execution-store.ts and failExecution of *)
(* review-run-store.ts: choosing the one input, recording that the         *)
(* Execution provider accepted it, replaying a submission whose outcome is *)
(* unknown, and recording what the provider later reports.                 *)
(*                                                                         *)
(* touchObservation and recordArtifactStorage write columns no transition  *)
(* reads (observed_at, artifact_storage); they are not steps here.         *)
(***************************************************************************)
EXTENDS PreparationStore

(* A mutant of SavePreparedSubmission: a second input may be selected.     *)
SavePreparedSubmission_Reselects(t, b) ==
    /\ PreparationClaim(t)
    /\ candidates[b] \in {"present", "selected"}
    /\ execution.status = "pending"
    /\ publication.status = "pending"
    /\ candidates' = [o \in Bundles |->
                        IF o = b THEN "selected"
                        ELSE IF candidates[o] \in {"reserved", "present"}
                             THEN "abandoned" ELSE candidates[o]]
    /\ execution' = [execution EXCEPT !.input = b]
    /\ publication' = [publication EXCEPT !.input = b]
    /\ UNCHANGED <<preparation, steps, notices, log>>

(* The complete intent (reference, input and context) identifies bundle b, *)
(* so one row matches or none.                                             *)
SavePreparedSubmission(t, b) ==
    /\ PreparationClaim(t)
    /\ candidates[b] \in {"present", "selected"}
    /\ \A o \in Bundles \ {b} : candidates[o] # "selected"
    /\ execution.status = "pending"
    /\ execution.input \in {NoBundle, b}
    /\ publication.status = "pending"
    /\ candidates' = [o \in Bundles |->
                        IF o = b THEN "selected"
                        ELSE IF candidates[o] \in {"reserved", "present"}
                             THEN "abandoned" ELSE candidates[o]]
    /\ execution' = [execution EXCEPT !.input = b]
    /\ publication' = [publication EXCEPT !.input = b]
    /\ UNCHANGED <<preparation, steps, notices, log>>

(* A mutant of MarkQueued: the preparation stays claimed.                  *)
MarkQueued_KeepsClaim(t, context) ==
    /\ OwnsPreparation(t)
    /\ execution.status = "pending"
    /\ publication.status = "pending"
    /\ execution' = [execution EXCEPT !.status = "queued"]
    /\ publication' = [publication EXCEPT !.input = context]
    /\ log' = [log EXCEPT !.execution = Logged(@, "pending", "queued")]
    /\ UNCHANGED <<preparation, steps, candidates, notices>>

(* The provider accepted the input.  The lease is deliberately not         *)
(* compared: a late acknowledgement counts until somebody takes over.      *)
MarkQueued(t, context) ==
    /\ OwnsPreparation(t)
    /\ execution.status = "pending"
    /\ publication.status = "pending"
    /\ preparation' = Released(preparation, "submitted")
    /\ execution' = [execution EXCEPT !.status = "queued"]
    /\ publication' = [publication EXCEPT !.input = context]
    /\ log' = [log EXCEPT !.preparation = Logged(@, "preparing", "submitted"),
                          !.execution = Logged(@, "pending", "queued")]
    /\ UNCHANGED <<steps, candidates, notices>>

----------------------------------------------------------------------------
(* Submission recovery: an `uncertain` execution is replayed by whoever    *)
(* holds the recovery claim.                                               *)
OwnsRecovery(t) == execution.status = "uncertain" /\ execution.token = t

FreeRecovery ==
    /\ execution.status = "uncertain"
    /\ execution.token = NoToken \/ execution.lease = "expired"

(* The claim is logged as an event from `uncertain` to itself.             *)
ClaimSubmissionRecovery(n) ==
    /\ FreeRecovery
    /\ execution' = [execution EXCEPT !.token = n, !.lease = "live"]
    /\ log' = [log EXCEPT !.execution = Logged(@, "uncertain", "uncertain")]
    /\ UNCHANGED <<preparation, publication, steps, candidates, notices>>

CompleteSubmissionRecovery(t) ==
    /\ OwnsRecovery(t)
    /\ publication.status = "pending"
    /\ execution' = Released(execution, "queued")
    /\ log' = [log EXCEPT !.execution = Logged(@, "uncertain", "queued")]
    /\ UNCHANGED <<preparation, publication, steps, candidates, notices>>

(* The claim is kept: its lease paces the next replay.                     *)
RecordUnknownRecoveryOutcome(t) ==
    /\ OwnsRecovery(t)
    /\ execution' = [execution EXCEPT !.attempts = @ + 1]
    /\ UNCHANGED <<preparation, publication, steps, candidates, notices, log>>

(* Every way execution ends without a result.                              *)
EndExecution ==
    /\ execution' = Released(execution, "failed")
    /\ AbandonInFlightPublication
    /\ notices' = QueueRunNotice("failure", "execution")
    /\ log' = [log EXCEPT !.execution = Logged(@, execution.status, "failed"),
                          !.publication = AbandonmentLogged]
    /\ UNCHANGED preparation

FailSubmissionRecovery(t) == OwnsRecovery(t) /\ EndExecution

DisconnectExhausted ==
    /\ FreeRecovery
    /\ execution.attempts >= MaxRecovery
    /\ execution' = Released(execution, "disconnected")
    /\ notices' = QueueRunNotice("attention", "execution")
    /\ log' = [log EXCEPT !.execution = Logged(@, "uncertain", "disconnected")]
    /\ UNCHANGED <<preparation, publication, steps, candidates>>

----------------------------------------------------------------------------
(* What the provider reports about an accepted run.                        *)
ActiveExecution == execution.status \in {"queued", "running"}

MarkRunning ==
    /\ execution.status = "queued"
    /\ execution' = [execution EXCEPT !.status = "running"]
    /\ log' = [log EXCEPT !.execution = Logged(@, "queued", "running")]
    /\ UNCHANGED <<preparation, publication, steps, candidates, notices>>

(* A mutant of RecordExecutionSuccess: the origin is assumed, not read.    *)
RecordExecutionSuccess_AssumesRunning ==
    /\ ActiveExecution
    /\ execution' = [execution EXCEPT !.status = "succeeded"]
    /\ log' = [log EXCEPT !.execution = Logged(@, "running", "succeeded")]
    /\ UNCHANGED <<preparation, publication, steps, candidates, notices>>

RecordExecutionSuccess ==
    /\ ActiveExecution
    /\ execution' = [execution EXCEPT !.status = "succeeded"]
    /\ log' = [log EXCEPT !.execution = Logged(@, execution.status, "succeeded")]
    /\ UNCHANGED <<preparation, publication, steps, candidates, notices>>

FailExecution == ActiveExecution /\ EndExecution

=============================================================================
