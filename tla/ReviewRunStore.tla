--------------------------- MODULE ReviewRunStore ---------------------------
(***************************************************************************)
(* Review Runs seen from its database: every transaction of every store,   *)
(* called by anybody at any time with any token.  Nothing is assumed about *)
(* the callers (the connector's coordinators, the recovery loop, the       *)
(* operator): what holds here holds however they are scheduled, whenever   *)
(* they crash, and whatever they replay.                                   *)
(*                                                                         *)
(* A claim token is a random UUID: a new one is a token no row refers to.  *)
(***************************************************************************)
EXTENDS OperatorDecisions

CONSTANT RecoveryCap   \* bound of the model on replays recorded as unknown

ASSUME RecoveryCapIsNatural == RecoveryCap \in Nat

ReferencedTokens ==
    {preparation.token, execution.token, publication.token} \cup {steps[s].by : s \in Steps}

Fresh == Tokens \ ReferencedTokens

----------------------------------------------------------------------------
(* The clock: any lease may expire, and any backoff may elapse.            *)
PreparationLeaseExpires ==
    /\ preparation.lease = "live"
    /\ preparation' = [preparation EXCEPT !.lease = "expired"]
    /\ UNCHANGED <<execution, publication, steps, candidates, notices, log>>

BackoffElapses ==
    /\ preparation.due = "later"
    /\ preparation' = [preparation EXCEPT !.due = "now"]
    /\ UNCHANGED <<execution, publication, steps, candidates, notices, log>>

RecoveryLeaseExpires ==
    /\ execution.lease = "live"
    /\ execution' = [execution EXCEPT !.lease = "expired"]
    /\ UNCHANGED <<preparation, publication, steps, candidates, notices, log>>

PublicationLeaseExpires ==
    /\ publication.lease = "live"
    /\ publication' = [publication EXCEPT !.lease = "expired"]
    /\ UNCHANGED <<preparation, execution, steps, candidates, notices, log>>

Clock ==
    \/ PreparationLeaseExpires
    \/ BackoffElapses
    \/ RecoveryLeaseExpires
    \/ PublicationLeaseExpires

----------------------------------------------------------------------------
PreparationStep ==
    \/ \E n \in Fresh : ClaimPreparation(n)
    \/ ExpireStale
    \/ \E t \in Tokens :
         \/ CheckpointInput(t)
         \/ \E due \in {"now", "later"} : RetryPreparation(t, due)
         \/ FailPreparation(t)
         \/ FailPreparationUncertain(t)
         \/ \E b \in Bundles :
              \/ ReserveBundle(t, b)
              \/ \E status \in {"present", "abandoned"} : SettleBundle(t, b, status)

SubmissionStep ==
    \/ \E n \in Fresh : ClaimSubmissionRecovery(n)
    \/ DisconnectExhausted
    \/ \E t \in Tokens :
         \/ \E b \in Bundles : SavePreparedSubmission(t, b)
         \/ \E b \in Bundles : MarkQueued(t, b)
         \/ CompleteSubmissionRecovery(t)
         \/ execution.attempts < RecoveryCap /\ RecordUnknownRecoveryOutcome(t)
         \/ FailSubmissionRecovery(t)

ObservationStep == MarkRunning \/ RecordExecutionSuccess \/ FailExecution

PublicationStep ==
    \/ \E n \in Fresh : ClaimPublication(n)
    \/ \E t \in Tokens :
         \/ RenewPublication(t)
         \/ InitializePublicationSteps(t)
         \/ CompletePublication(t)
         \/ \E retry \in BOOLEAN : FailPublication(t, retry)
         \/ \E s \in Steps :
              \/ ClaimPublicationStep(t, s)
              \/ RefuseStepClaim(t, s)
              \/ \E outcome \in {"succeeded", "terminal_failed"} :
                   SettleExhaustedStep(t, s, outcome)
              \/ CompletePublicationStep(t, s)
              \/ \E retry \in {"yes", "unstated"} : FailPublicationStep(t, s, retry)
              \/ FailPublicationStepTerminally(t, s)

OperatorStep ==
    \/ ResumePreparation \/ ResumeExecution \/ ResumePublication
    \/ GiveUpPreparation \/ GiveUpExecution \/ GiveUpPublication
    \/ AbandonBlockedPreparation

Init == \E t \in Tokens : InsertedRun(t)

Next ==
    \/ PreparationStep
    \/ SubmissionStep
    \/ ObservationStep
    \/ PublicationStep
    \/ OperatorStep
    \/ Clock

Spec == Init /\ [][Next]_runVars

----------------------------------------------------------------------------
(* The three axes tell one story.  Preparation is open exactly while       *)
(* execution is pending; execution is skipped only when preparation        *)
(* failed; nothing is published, and nothing is being published, unless    *)
(* execution succeeded; and a run without a result has its publication     *)
(* skipped.  The stores enforce this one axis at a time, each method       *)
(* comparing only some of the rows it depends on.                          *)
AxesAgree ==
    /\ preparation.status \in {"pending", "preparing", "uncertain"}
         <=> execution.status = "pending"
    /\ preparation.status = "submitted" => execution.status # "skipped"
    /\ publication.status \notin {"pending", "skipped"} => execution.status = "succeeded"
    /\ publication.status = "skipped" <=> execution.status \in {"failed", "skipped"}

(* The premise on which expireStale parks a preparation never holds: no    *)
(* store transaction moves execution past `pending` under a live or        *)
(* expired preparation claim, so `disconnected` needs a foreign write.     *)
PreparationNeverContradicted == preparation.status # "disconnected"

(* The CHECK constraints of the schema, as the transactions leave them: a  *)
(* claim exists exactly where somebody may be working.                     *)
ClaimsMatchStatus ==
    /\ preparation.token # NoToken <=> preparation.status = "preparing"
    /\ execution.token # NoToken => execution.status = "uncertain"
    /\ publication.token # NoToken <=> publication.status \in OwnedStatus
    /\ \A s \in Steps : steps[s].by # NoToken => steps[s].status = "running"

(* One input: at most one bundle is ever selected, and it is the one the   *)
(* execution row holds, however many attempts and owners prepared bundles. *)
SelectedIsInput ==
    \A b \in Bundles : candidates[b] = "selected" <=> execution.input = b

(* What one step does to an input that is there.                           *)
InputKept == execution.input # NoBundle => execution'.input = execution.input

(* Once the execution row has its input no transaction changes it: a       *)
(* replay sends what was first saved.                                      *)
InputIsFrozen == [][InputKept]_runVars

(* Nobody stops waiting in silence: a failed axis has queued a failure     *)
(* notice, and a parked axis an attention notice that is not superseded.   *)
EndingsAreTold ==
    /\ preparation.status = "failed" /\ execution.status = "skipped"
         => notices["preparation"]["failure"] # "absent"
    /\ execution.status = "failed"
         => \E axis \in {"preparation", "execution"} : notices[axis]["failure"] # "absent"
    /\ publication.status = "failed" => notices["publication"]["failure"] # "absent"
    /\ preparation.status = "disconnected"
         => notices["preparation"]["attention"] \notin {"absent", "superseded"}
    /\ execution.status = "disconnected"
         => notices["execution"]["attention"] \notin {"absent", "superseded"}
    /\ publication.status = "disconnected"
         => notices["publication"]["attention"] \notin {"absent", "superseded"}

(* No budget is overrun.  claimNext does not compare the attempt count: it *)
(* relies on every path back to a claimable preparation having done so.    *)
(* A step is handed over for reconciliation only when its attempts are     *)
(* spent, and parked only when its reconciliations are.                    *)
BudgetsHold ==
    /\ preparation.attempts <= MaxPreparation
    /\ preparation.status \in {"pending", "uncertain"} => preparation.attempts < MaxPreparation
    /\ execution.status = "disconnected" => execution.attempts >= MaxRecovery
    /\ \A s \in Steps :
         /\ steps[s].attempts <= MaxStep
         /\ steps[s].recoveries <= MaxStepRecovery
         /\ steps[s].status \in {"uncertain", "disconnected"} => steps[s].attempts = MaxStep
         /\ steps[s].status = "disconnected" => steps[s].recoveries = MaxStepRecovery

(* The audit trail and the rows never diverge: the newest event of every   *)
(* axis ends where the row is, and the events of preparation and execution *)
(* follow on from each other.  Those of publication need not: complete and *)
(* fail log a transition from `publishing` whatever the row held.          *)
LogMatchesRows ==
    /\ log.preparation = [to |-> preparation.status, edges |-> "joined"]
    /\ log.execution = [to |-> execution.status, edges |-> "joined"]
    /\ log.publication.to = publication.status

(* What one step does to what is decided.                                  *)
DecisionsKept ==
    /\ preparation.status \in {"submitted", "failed"}
         => preparation'.status = preparation.status
    /\ execution.status \in {"succeeded", "failed", "skipped"}
         => execution'.status = execution.status
    /\ publication.status \in {"published", "failed", "skipped"}
         => publication'.status = publication.status
    /\ \A s \in Steps :
         steps[s].status \in {"succeeded", "terminal_failed"}
           => steps'[s].status = steps[s].status

(* A decided axis stays decided, and so does a step whose effect was       *)
(* recorded: no late report, replay or operator decision reopens it.       *)
DecidedIsFinal == [][DecisionsKept]_runVars

(* What one step does to a live claim.                                     *)
LiveClaimsKept ==
    /\ preparation.lease = "live" => preparation'.token \in {preparation.token, NoToken}
    /\ execution.lease = "live" => execution'.token \in {execution.token, NoToken}
    /\ publication.lease = "live" => publication'.token \in {publication.token, NoToken}

(* A live claim is never handed to somebody else: its owner keeps it or    *)
(* the row is released.                                                    *)
LiveClaimIsExclusive == [][LiveClaimsKept]_runVars

----------------------------------------------------------------------------
(* The stores, called by anybody in any order, implement the lifecycle of  *)
(* a run: the statuses of the three rows are the three axes.               *)
Lifecycle == INSTANCE RunLifecycle
               WITH preparing <- preparation.status,
                    executing <- execution.status,
                    publishing <- publication.status

(* Every transaction of every store is a move of the lifecycle or leaves   *)
(* the three statuses alone: no method takes an axis along an edge the     *)
(* machines do not have, and none moves one axis without the others that   *)
(* must move with it.                                                      *)
FollowsLifecycle == Lifecycle!LifecycleSpec

=============================================================================
