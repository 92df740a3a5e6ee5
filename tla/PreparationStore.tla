-------------------------- MODULE PreparationStore --------------------------
(***************************************************************************)
(* preparation-store.ts and input-bundle-candidate-store.ts: the claim on  *)
(* the work of building the execution input, and the bundles that work     *)
(* reserves and uploads.                                                   *)
(*                                                                         *)
(* A method that matches no row changes nothing (it answers false or       *)
(* throws, and the transaction rolls back); it is not a step.  Renewing a  *)
(* preparation claim needs a lease that is still live and leaves it live,  *)
(* so at this level of time renewal is a stutter as well: the module that  *)
(* composes the stores lets a lease expire at any moment.                  *)
(***************************************************************************)
EXTENDS RunState

(* The row is `preparing` under this token, whatever the age of the lease. *)
OwnsPreparation(t) == preparation.status = "preparing" /\ preparation.token = t

(* requirePreparationClaim: the lease is compared as well.                 *)
PreparationClaim(t) == OwnsPreparation(t) /\ preparation.lease = "live"

Released(row, status) ==
    [row EXCEPT !.status = status, !.token = NoToken, !.lease = "expired"]

----------------------------------------------------------------------------
ClaimPreparation(n) ==
    /\ preparation.status \in {"pending", "uncertain"}
    /\ preparation.due = "now"
    /\ execution.status = "pending"
    /\ preparation' = [preparation EXCEPT !.status = "preparing", !.token = n,
                                          !.lease = "live", !.attempts = @ + 1]
    /\ log' = [log EXCEPT !.preparation =
                 Logged(@, preparation.status, "preparing")]
    /\ UNCHANGED <<execution, publication, steps, candidates, notices>>

CheckpointInput(t) ==
    /\ OwnsPreparation(t)
    /\ preparation' = [preparation EXCEPT !.input = "checkpointed"]
    /\ UNCHANGED <<execution, publication, steps, candidates, notices, log>>

----------------------------------------------------------------------------
(* A mutant of SkipExecution: publication is left to be claimed later.     *)
SkipExecution_KeepsPublication ==
    /\ execution.status = "pending"
    /\ execution' = [execution EXCEPT !.status = "skipped"]
    /\ notices' = QueueRunNotice("failure", "preparation")
    /\ log' = [log EXCEPT !.preparation = Logged(@, "preparing", "failed"),
                          !.execution = Logged(@, "pending", "skipped")]
    /\ UNCHANGED <<publication, steps, candidates>>

(* Execution never ran: execution and publication are skipped with the     *)
(* preparation that failed, and the requester is told.                     *)
SkipExecution ==
    /\ execution.status = "pending"
    /\ execution' = [execution EXCEPT !.status = "skipped"]
    /\ AbandonInFlightPublication
    /\ notices' = QueueRunNotice("failure", "preparation")
    /\ log' = [preparation |-> Logged(log.preparation, "preparing", "failed"),
               execution |-> Logged(log.execution, "pending", "skipped"),
               publication |-> AbandonmentLogged]

(* expireStale and concludeExpiry: the lease of the preparer is over.      *)
StalePreparation == preparation.status = "preparing" /\ preparation.lease = "expired"

ExhaustedPreparation == preparation.attempts >= MaxPreparation

LapsePreparation ==
    /\ StalePreparation /\ ~ExhaustedPreparation
    /\ preparation' = [Released(preparation, "uncertain") EXCEPT !.due = "now"]
    /\ log' = [log EXCEPT !.preparation = Logged(@, "preparing", "uncertain")]
    /\ UNCHANGED <<execution, publication, steps, candidates, notices>>

ExhaustPreparation ==
    /\ StalePreparation /\ ExhaustedPreparation
    /\ preparation' = [Released(preparation, "failed") EXCEPT !.due = "now"]
    /\ SkipExecution

(* ExpiryUnreconcilableError: the savepoint is rolled back and the row     *)
(* parked, because execution is no longer pending.                         *)
DisconnectPreparation ==
    /\ StalePreparation /\ ExhaustedPreparation
    /\ execution.status # "pending"
    /\ preparation' = Released(preparation, "disconnected")
    /\ notices' = QueueRunNotice("attention", "preparation")
    /\ log' = [log EXCEPT !.preparation = Logged(@, "preparing", "disconnected")]
    /\ UNCHANGED <<execution, publication, steps, candidates>>

ExpireStale == LapsePreparation \/ ExhaustPreparation \/ DisconnectPreparation

----------------------------------------------------------------------------
(* fail(token, error, {retry}): a retry that the budget allows, or the     *)
(* terminal branch.  SUBMISSION_STATE_UNCERTAIN means the provider may     *)
(* hold the input, so execution is handed to submission recovery.          *)
RetryPreparation(t, due) ==
    /\ OwnsPreparation(t)
    /\ preparation.attempts < MaxPreparation
    /\ preparation' = [Released(preparation, "pending") EXCEPT !.due = due]
    /\ log' = [log EXCEPT !.preparation = Logged(@, "preparing", "pending")]
    /\ UNCHANGED <<execution, publication, steps, candidates, notices>>

FailPreparation(t) ==
    /\ OwnsPreparation(t)
    /\ preparation' = Released(preparation, "failed")
    /\ SkipExecution

FailPreparationUncertain(t) ==
    /\ OwnsPreparation(t)
    /\ execution.status = "pending"
    /\ preparation' = Released(preparation, "failed")
    /\ execution' = [execution EXCEPT !.status = "uncertain"]
    /\ log' = [log EXCEPT !.preparation = Logged(@, "preparing", "failed"),
                          !.execution = Logged(@, "pending", "uncertain")]
    /\ UNCHANGED <<publication, steps, candidates, notices>>

(* The whole method: when the claim is lost, or when execution is not      *)
(* pending and the transaction rolls back, nothing changes.                *)
FailPreparationCall(t, retry, uncertain, due) ==
    IF retry /\ OwnsPreparation(t) /\ ~ExhaustedPreparation THEN RetryPreparation(t, due)
    ELSE IF ~OwnsPreparation(t) \/ execution.status # "pending" THEN UNCHANGED runVars
    ELSE IF uncertain THEN FailPreparationUncertain(t)
    ELSE FailPreparation(t)

----------------------------------------------------------------------------
ReserveBundle(t, b) ==
    /\ PreparationClaim(t)
    /\ candidates' = [candidates EXCEPT ![b] =
                        IF @ \in {"absent", "abandoned"} THEN "reserved" ELSE @]
    /\ UNCHANGED <<preparation, execution, publication, steps, notices, log>>

(* A mutant of SettleBundle: any candidate may be settled, so a selected   *)
(* bundle can be abandoned again.                                          *)
SettleBundle_AnyStatus(t, b, status) ==
    /\ PreparationClaim(t)
    /\ candidates[b] # "absent"
    /\ candidates' = [candidates EXCEPT ![b] = status]
    /\ UNCHANGED <<preparation, execution, publication, steps, notices, log>>

SettleBundle(t, b, status) ==
    /\ PreparationClaim(t)
    /\ candidates[b] \in {"reserved", "present", status}
    /\ candidates' = [candidates EXCEPT ![b] = status]
    /\ UNCHANGED <<preparation, execution, publication, steps, notices, log>>

=============================================================================
