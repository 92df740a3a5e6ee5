------------------------- MODULE SubmissionProtocol -------------------------
(***************************************************************************)
(* Handing a run's input to the Execution provider: the connector prepares *)
(* and uploads a bundle, Review Runs saves it, submits it and records the  *)
(* acceptance, and the recovery loop replays a submission whose outcome is *)
(* unknown.  The parties keep their claim tokens in memory, crash, time    *)
(* out on each other, and go on after their claims were taken over; only   *)
(* the rows (ReviewRunStore) fence them.                                   *)
(*                                                                         *)
(*   connectors    preparation workers of the GitHub Integration           *)
(*   handlers      submitPreparedRun requests running in Review Runs; one  *)
(*                 outlives the connector that stopped waiting for it      *)
(*   coordinators  submission recovery loops of Review Runs                *)
(*   objects       bundles present in the object store                     *)
(*   wire          submissions sent whose sender has given up waiting      *)
(*   provider      the input the Execution provider accepted for this run  *)
(*   outcome       what became of the accepted run there                   *)
(***************************************************************************)
EXTENDS ReviewRunStore

CONSTANTS
    Connectors,
    Handlers,
    Coordinators,
    Invalid        \* bundles whose input the provider refuses (HTTP 400)

ASSUME InvalidAreBundles == Invalid \subseteq Bundles

VARIABLES connectors, handlers, coordinators, objects, wire, provider, outcome

clientVars == <<connectors, handlers, coordinators>>
worldVars == <<objects, wire, provider, outcome>>
vars == <<runVars, clientVars, worldVars>>

IdleConnector == [pc |-> "idle", token |-> NoToken, bundle |-> NoBundle, loop |-> FALSE]
IdleHandler == [pc |-> "idle", token |-> NoToken, bundle |-> NoBundle]
IdleCoordinator == [pc |-> "idle", token |-> NoToken, bundle |-> NoBundle]

HeldTokens ==
    {connectors[p].token : p \in Connectors} \cup {handlers[h].token : h \in Handlers}
      \cup {coordinators[r].token : r \in Coordinators}

NewToken == Fresh \ HeldTokens

----------------------------------------------------------------------------
(* The connector: prepareReviewRunsOnce (loop = TRUE), or the command that *)
(* admitted the run and prepares it in the same process (loop = FALSE).    *)
Claim(p) ==
    /\ connectors[p].pc = "idle"
    /\ \E n \in NewToken :
         /\ ClaimPreparation(n)
         /\ connectors' = [connectors EXCEPT ![p] =
              [pc |-> "recovering", token |-> n, bundle |-> NoBundle, loop |-> TRUE]]
    /\ UNCHANGED <<handlers, coordinators, worldVars>>

Goto(p, pc) == connectors' = [connectors EXCEPT ![p].pc = pc]

(* recoverInputBundlePublication, one candidate at a time, the selected    *)
(* one first.  A candidate whose object is missing is abandoned; a missing *)
(* selected object is an error.                                            *)
Selected == {b \in Bundles : candidates[b] = "selected"}
Open == {b \in Bundles : candidates[b] \in {"reserved", "present"}}

RecoverSelected(p) ==
    /\ connectors[p].pc = "recovering" /\ PreparationClaim(connectors[p].token)
    /\ \E b \in Selected \cap objects :
         connectors' = [connectors EXCEPT ![p].pc = "ready", ![p].bundle = b]
    /\ UNCHANGED <<runVars, handlers, coordinators, worldVars>>

(* A mutant of RecoverUploaded: the object store is not asked.             *)
RecoverUploaded_Unchecked(p) ==
    /\ connectors[p].pc = "recovering" /\ Selected = {}
    /\ \E b \in Open :
         /\ SettleBundle(connectors[p].token, b, "present")
         /\ connectors' = [connectors EXCEPT ![p].pc = "ready", ![p].bundle = b]
    /\ UNCHANGED <<handlers, coordinators, worldVars>>

RecoverUploaded(p) ==
    /\ connectors[p].pc = "recovering" /\ Selected = {}
    /\ \E b \in Open \cap objects :
         /\ SettleBundle(connectors[p].token, b, "present")
         /\ connectors' = [connectors EXCEPT ![p].pc = "ready", ![p].bundle = b]
    /\ UNCHANGED <<handlers, coordinators, worldVars>>

RecoverMissing(p) ==
    /\ connectors[p].pc = "recovering" /\ Selected = {}
    /\ \E b \in Open \ objects : SettleBundle(connectors[p].token, b, "abandoned")
    /\ UNCHANGED <<clientVars, worldVars>>

(* Nothing to recover: build an input from the current GitHub state, which *)
(* may differ from what an earlier attempt saw, and checkpoint it.         *)
Build(p) ==
    /\ connectors[p].pc = "recovering" /\ Selected \cup Open = {}
    /\ PreparationClaim(connectors[p].token)
    /\ CheckpointInput(connectors[p].token)
    /\ \E b \in Bundles :
         connectors' = [connectors EXCEPT ![p].pc = "building", ![p].bundle = b]
    /\ UNCHANGED <<handlers, coordinators, worldVars>>

(* publishAndSubmitInputBundle: reserve, upload, settle, submit.           *)
Reserve(p) ==
    /\ connectors[p].pc = "building"
    /\ ReserveBundle(connectors[p].token, connectors[p].bundle)
    /\ Goto(p, "uploading")
    /\ UNCHANGED <<handlers, coordinators, worldVars>>

Upload(p) ==
    /\ connectors[p].pc = "uploading"
    /\ objects' = objects \cup {connectors[p].bundle}
    /\ Goto(p, "publishing")
    /\ UNCHANGED <<runVars, handlers, coordinators, wire, provider, outcome>>

Settle(p) ==
    /\ connectors[p].pc = "publishing"
    /\ SettleBundle(connectors[p].token, connectors[p].bundle, "present")
    /\ Goto(p, "ready")
    /\ UNCHANGED <<handlers, coordinators, worldVars>>

Call(p) ==
    /\ connectors[p].pc = "ready"
    /\ \E h \in Handlers :
         /\ handlers[h].pc = "idle"
         /\ handlers' = [handlers EXCEPT ![h] =
              [pc |-> "saving", token |-> connectors[p].token, bundle |-> connectors[p].bundle]]
    /\ Goto(p, "calling")
    /\ UNCHANGED <<runVars, coordinators, worldVars>>

Returned(p) ==
    /\ connectors[p].pc = "calling"
    /\ preparation.status = "submitted"
    /\ connectors' = [connectors EXCEPT ![p] = IdleConnector]
    /\ UNCHANGED <<runVars, handlers, coordinators, worldVars>>

(* The call answered an error, or timed out with the handler still at      *)
(* work: the two look alike.  The command leaves the record to Review      *)
(* Runs; the loop reports the failure under its token as a retry.          *)
CallFailed(p) ==
    /\ connectors[p].pc = "calling"
    /\ IF connectors[p].loop
       THEN FailPreparationCall(connectors[p].token, TRUE, FALSE, "later")
       ELSE UNCHANGED runVars
    /\ connectors' = [connectors EXCEPT ![p] = IdleConnector]
    /\ UNCHANGED <<handlers, coordinators, worldVars>>

(* Any other error before the call: building failed, the object store is   *)
(* down, or a step was refused because the claim is gone.  The failure is  *)
(* recorded under the token, to be retried or not by its classification.   *)
PreparationError(p) ==
    /\ connectors[p].pc \in {"recovering", "building", "uploading", "publishing"}
    /\ \E retry \in BOOLEAN : FailPreparationCall(connectors[p].token, retry, FALSE, "later")
    /\ connectors' = [connectors EXCEPT ![p] = IdleConnector]
    /\ UNCHANGED <<handlers, coordinators, worldVars>>

ConnectorCrash(p) ==
    /\ connectors[p].pc # "idle"
    /\ connectors' = [connectors EXCEPT ![p] = IdleConnector]
    /\ UNCHANGED <<runVars, handlers, coordinators, worldVars>>

----------------------------------------------------------------------------
(* The Execution provider (gateway and Temporal): a run id is bound to the *)
(* first input that reaches it; the same input again is answered with the  *)
(* existing run, another input is a conflict (HTTP 409).                   *)
Acceptable(b) == b \notin Invalid /\ provider \in {NoBundle, b}

Accept(b) ==
    /\ Acceptable(b)
    /\ provider' = b
    /\ outcome' = IF outcome = "none" THEN "running" ELSE outcome

LateDelivery ==
    \E b \in wire :
      /\ wire' = wire \ {b}
      /\ IF Acceptable(b) THEN Accept(b) ELSE UNCHANGED <<provider, outcome>>
      /\ UNCHANGED <<runVars, clientVars, objects>>

ProviderFinishes ==
    /\ outcome = "running"
    /\ outcome' \in {"succeeded", "failed"}
    /\ UNCHANGED <<runVars, clientVars, objects, wire, provider>>

(* One submission and what its sender learns: an acceptance, a refusal, or *)
(* nothing (the request or its answer was lost, and the request may still  *)
(* be on its way).                                                         *)
Sent(b, reply) ==
    \/ reply = "accepted" /\ Accept(b) /\ UNCHANGED wire
    \/ reply = "refused" /\ ~Acceptable(b) /\ UNCHANGED <<provider, outcome, wire>>
    \/ reply = "unknown" /\ wire' = wire \cup {b} /\ UNCHANGED <<provider, outcome>>

----------------------------------------------------------------------------
(* submitPreparedRun in Review Runs.                                       *)
HandlerGoto(h, pc) == handlers' = [handlers EXCEPT ![h].pc = pc]

(* A mutant of HandlerSaves: a failure to save does not stop the handler.  *)
HandlerSaves_GoesOn(h) ==
    /\ handlers[h].pc = "saving"
    /\ HandlerGoto(h, "submitting")
    /\ SavePreparedSubmission(handlers[h].token, handlers[h].bundle) \/ UNCHANGED runVars
    /\ UNCHANGED <<connectors, coordinators, worldVars>>

HandlerSaves(h) ==
    /\ handlers[h].pc = "saving"
    /\ \/ /\ SavePreparedSubmission(handlers[h].token, handlers[h].bundle)
          /\ HandlerGoto(h, "submitting")
       \/ /\ HandlerGoto(h, "unsaved")
          /\ UNCHANGED runVars
    /\ UNCHANGED <<connectors, coordinators, worldVars>>

HandlerSubmits(h) ==
    /\ handlers[h].pc = "submitting"
    /\ \E reply \in {"accepted", "refused", "unknown"} :
         /\ Sent(handlers[h].bundle, reply)
         /\ HandlerGoto(h, CASE reply = "accepted" -> "marking"
                             [] reply = "refused" -> "refused"
                             [] OTHER -> "unknown")
    /\ UNCHANGED <<runVars, connectors, coordinators, objects>>

(* After the acceptance every error is SUBMISSION_STATE_UNCERTAIN.         *)
HandlerMarks(h) ==
    /\ handlers[h].pc = "marking"
    /\ \/ /\ MarkQueued(handlers[h].token, handlers[h].bundle)
          /\ handlers' = [handlers EXCEPT ![h] = IdleHandler]
       \/ /\ HandlerGoto(h, "unknown")
          /\ UNCHANGED runVars
    /\ UNCHANGED <<connectors, coordinators, worldVars>>

(* The catch block: only a failure to save is retried.  Recording is best  *)
(* effort; when it fails the handler ends like one that crashed.           *)
HandlerFails(h) ==
    /\ handlers[h].pc \in {"unsaved", "refused", "unknown"}
    /\ FailPreparationCall(handlers[h].token, handlers[h].pc = "unsaved",
                           handlers[h].pc = "unknown", "now")
    /\ handlers' = [handlers EXCEPT ![h] = IdleHandler]
    /\ UNCHANGED <<connectors, coordinators, worldVars>>

HandlerCrash(h) ==
    /\ handlers[h].pc # "idle"
    /\ handlers' = [handlers EXCEPT ![h] = IdleHandler]
    /\ UNCHANGED <<runVars, connectors, coordinators, worldVars>>

----------------------------------------------------------------------------
(* One coordination pass over this run.                                    *)
CoordinatorGoto(r, pc) == coordinators' = [coordinators EXCEPT ![r].pc = pc]

ExpirePass == ExpireStale /\ UNCHANGED <<clientVars, worldVars>>

ListRecovery(r) ==
    /\ coordinators[r].pc = "idle"
    /\ FreeRecovery
    /\ coordinators' = [coordinators EXCEPT ![r].pc = "counting",
                                            ![r].bundle = execution.input]
    /\ UNCHANGED <<runVars, connectors, handlers, worldVars>>

(* concludeExhaustedSubmissionRecovery reads the count, then disconnects.  *)
CountAttempts(r) ==
    /\ coordinators[r].pc = "counting"
    /\ CoordinatorGoto(r, IF execution.attempts >= MaxRecovery
                          THEN "disconnecting" ELSE "claiming")
    /\ UNCHANGED <<runVars, connectors, handlers, worldVars>>

Disconnect(r) ==
    /\ coordinators[r].pc = "disconnecting"
    /\ IF FreeRecovery /\ execution.attempts >= MaxRecovery
       THEN /\ DisconnectExhausted
            /\ coordinators' = [coordinators EXCEPT ![r] = IdleCoordinator]
       ELSE CoordinatorGoto(r, "claiming") /\ UNCHANGED runVars
    /\ UNCHANGED <<connectors, handlers, worldVars>>

ClaimRecovery(r) ==
    /\ coordinators[r].pc = "claiming"
    /\ IF FreeRecovery
       THEN \E n \in NewToken :
              /\ ClaimSubmissionRecovery(n)
              /\ coordinators' = [coordinators EXCEPT ![r].pc = "replaying", ![r].token = n]
       ELSE /\ coordinators' = [coordinators EXCEPT ![r] = IdleCoordinator]
            /\ UNCHANGED runVars
    /\ UNCHANGED <<connectors, handlers, worldVars>>

Replay(r) ==
    /\ coordinators[r].pc = "replaying"
    /\ \E reply \in {"accepted", "refused", "unknown"} :
         /\ Sent(coordinators[r].bundle, reply)
         /\ CoordinatorGoto(r, CASE reply = "accepted" -> "completing"
                                 [] reply = "refused" -> "refused"
                                 [] OTHER -> "recording")
    /\ UNCHANGED <<runVars, connectors, handlers, objects>>

RecordReplay(r) ==
    /\ coordinators[r].pc \in {"completing", "recording", "refused"}
    /\ IF ~OwnsRecovery(coordinators[r].token) THEN UNCHANGED runVars
       ELSE CASE coordinators[r].pc = "completing" ->
                   CompleteSubmissionRecovery(coordinators[r].token)
              [] coordinators[r].pc = "refused" ->
                   FailSubmissionRecovery(coordinators[r].token)
              [] OTHER -> RecordUnknownRecoveryOutcome(coordinators[r].token)
    /\ coordinators' = [coordinators EXCEPT ![r] = IdleCoordinator]
    /\ UNCHANGED <<connectors, handlers, worldVars>>

CoordinatorCrash(r) ==
    /\ coordinators[r].pc # "idle"
    /\ coordinators' = [coordinators EXCEPT ![r] = IdleCoordinator]
    /\ UNCHANGED <<runVars, connectors, handlers, worldVars>>

(* observeExecutionRun: the provider's answer about an active run.  A run  *)
(* that failed, that the provider does not know, or whose answer breaks    *)
(* the protocol is failed, so failing needs nothing of the real outcome.   *)
Observe ==
    /\ \/ outcome = "running" /\ MarkRunning
       \/ outcome = "succeeded" /\ RecordExecutionSuccess
       \/ FailExecution
    /\ UNCHANGED <<clientVars, worldVars>>

Operator ==
    /\ ResumeExecution \/ GiveUpExecution
    /\ UNCHANGED <<clientVars, worldVars>>

Time ==
    /\ PreparationLeaseExpires \/ BackoffElapses \/ RecoveryLeaseExpires
    /\ UNCHANGED <<clientVars, worldVars>>

----------------------------------------------------------------------------
ProtocolInit ==
    /\ \E t \in Tokens, p \in Connectors :
         /\ InsertedRun(t)
         /\ connectors = [q \in Connectors |->
              IF q = p THEN [pc |-> "recovering", token |-> t, bundle |-> NoBundle,
                             loop |-> FALSE]
                       ELSE IdleConnector]
    /\ handlers = [h \in Handlers |-> IdleHandler]
    /\ coordinators = [r \in Coordinators |-> IdleCoordinator]
    /\ objects = {} /\ wire = {} /\ provider = NoBundle /\ outcome = "none"

ConnectorStep(p) ==
    \/ Claim(p) \/ RecoverSelected(p) \/ RecoverUploaded(p) \/ RecoverMissing(p)
    \/ Build(p) \/ Reserve(p) \/ Upload(p) \/ Settle(p) \/ Call(p)
    \/ Returned(p) \/ CallFailed(p) \/ PreparationError(p)

HandlerStep(h) == HandlerSaves(h) \/ HandlerSubmits(h) \/ HandlerMarks(h) \/ HandlerFails(h)

CoordinatorStep(r) ==
    \/ ListRecovery(r) \/ CountAttempts(r) \/ Disconnect(r) \/ ClaimRecovery(r)
    \/ Replay(r) \/ RecordReplay(r)

Crash ==
    \/ \E p \in Connectors : ConnectorCrash(p)
    \/ \E h \in Handlers : HandlerCrash(h)
    \/ \E r \in Coordinators : CoordinatorCrash(r)

ProtocolNext ==
    \/ \E p \in Connectors : ConnectorStep(p)
    \/ \E h \in Handlers : HandlerStep(h)
    \/ \E r \in Coordinators : CoordinatorStep(r)
    \/ ExpirePass \/ Observe \/ Operator \/ Time
    \/ LateDelivery \/ ProviderFinishes \/ Crash

ProtocolSpec == ProtocolInit /\ [][ProtocolNext]_vars

----------------------------------------------------------------------------
(* One run is one input: whatever was sent, accepted or is still on its    *)
(* way is the bundle the execution row holds, so the provider never meets  *)
(* a conflict, however many preparers were taken over in mid-submission.   *)
OneInput ==
    /\ provider \in {NoBundle, execution.input}
    /\ wire \subseteq {execution.input}
    /\ \A h \in Handlers :
         handlers[h].pc \in {"submitting", "marking", "refused", "unknown"}
           => handlers[h].bundle = execution.input

(* What was handed over and what is recorded of it agree.  The provider is *)
(* never given a bundle whose upload has not finished; a run that          *)
(* execution reports as accepted was accepted, with the input and the      *)
(* publish context of the row, so that polling never finds it missing; and *)
(* a submission that is uncertain has the input to replay, so the          *)
(* SUBMISSION_RECOVERY_INPUT_MISSING branch is unreachable.                *)
SubmissionsAreSound ==
    /\ provider # NoBundle => provider \in objects
    /\ wire \subseteq objects
    /\ execution.status \in {"queued", "running", "succeeded"}
         => /\ provider = execution.input
            /\ publication.input = execution.input
            /\ outcome # "none"
    /\ execution.status \in {"uncertain", "disconnected"} => execution.input # NoBundle

=============================================================================
