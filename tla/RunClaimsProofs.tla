-------------------------- MODULE RunClaimsProofs ---------------------------
(***************************************************************************)
(* Claims exist where somebody may be working, a live claim is never       *)
(* handed over, no budget of attempts is overrun; a run has one input, and *)
(* what was decided about it stays decided.                                *)
(***************************************************************************)
EXTENDS RunAxesProofs

(* Inductive: only a claimed row has a live lease, so a row that may be    *)
(* claimed without comparing its lease has none.                           *)
ClaimsInv ==
  /\ ClaimsMatchStatus
  /\ preparation.lease = "live" => preparation.token # NoToken
  /\ execution.lease = "live" => execution.token # NoToken
  /\ publication.lease = "live" => publication.token # NoToken

(* Abandoning releases the publication and its steps together.             *)
LEMMA AbandonedClaims ==
  ASSUME TypeOK, ClaimsInv, AbandonInFlightPublication
  PROVE  /\ publication'.token # NoToken <=> publication'.status \in OwnedStatus
         /\ publication'.lease = "live" => publication'.token # NoToken
         /\ \A s \in Steps : steps'[s].by # NoToken => steps'[s].status = "running"
<1>1. CASE InFlightPublication
  BY <1>1 DEF TypeOK, PublicationRow, StepRow, ClaimsInv, ClaimsMatchStatus,
       OwnedStatus,
     AbandonInFlightPublication
<1>2. CASE ~InFlightPublication
  BY <1>2 DEF ClaimsInv, ClaimsMatchStatus, AbandonInFlightPublication
<1> QED BY <1>1, <1>2

(* The claims of a run whose preparation failed.                           *)
LEMMA SkipExecutionClaims ==
  ASSUME TypeOK, ClaimsInv, SkipExecution, preparation'.token = NoToken,
         preparation'.lease = "expired", preparation'.status # "preparing"
  PROVE  ClaimsInv'
  BY AbandonedClaims DEF TypeOK, ExecutionRow, ClaimsInv, ClaimsMatchStatus,
       SkipExecution

(* The claims of a run whose execution failed.                             *)
LEMMA EndExecutionClaims ==
  ASSUME TypeOK, ClaimsInv, EndExecution
  PROVE  ClaimsInv'
  BY AbandonedClaims DEF TypeOK, ExecutionRow, ClaimsInv, ClaimsMatchStatus,
       EndExecution, Released

(* Deriving the status keeps the claim of the axis.                        *)
LEMMA DerivePublicationClaims ==
  ASSUME TypeOK, ClaimsInv, NEW newSteps, DerivePublication(newSteps),
         UNCHANGED <<preparation, execution>>,
         \A s \in Steps : newSteps[s].by # NoToken => newSteps[s].status = "running"
  PROVE  ClaimsInv'
  BY DerivedOwnership DEF ClaimsInv, ClaimsMatchStatus, DerivePublication

(* Claims match statuses after: the transactions of preparation and of its *)
(* bundles.                                                                *)
LEMMA PreparationStepClaims ==
  ASSUME TypeOK, ClaimsInv, PreparationStep
  PROVE  ClaimsInv'
<1>1. CASE ExhaustPreparation
  BY <1>1, SkipExecutionClaims DEF TypeOK, PreparationRow, ExhaustPreparation, Released
<1>2. ASSUME NEW t \in Tokens, FailPreparation(t) PROVE ClaimsInv'
  BY <1>2, SkipExecutionClaims DEF TypeOK, PreparationRow, FailPreparation, Released
<1> USE DEF TypeOK, PreparationRow, ExecutionRow, PublicationRow, StepRow, ClaimsInv,
            ClaimsMatchStatus, OwnedStatus
<1>3. ASSUME NEW n \in Fresh, ClaimPreparation(n) PROVE ClaimsInv'
  BY <1>3, NullsAreNotValues DEF ClaimPreparation, Fresh
<1>4. CASE LapsePreparation
  BY <1>4 DEF LapsePreparation, StalePreparation, Released
<1>5. CASE DisconnectPreparation
  BY <1>5 DEF DisconnectPreparation, StalePreparation, Released
<1>6. ASSUME NEW t \in Tokens, CheckpointInput(t) PROVE ClaimsInv'
  BY <1>6 DEF CheckpointInput
<1>7. ASSUME NEW t \in Tokens, NEW due \in {"now", "later"}, RetryPreparation(t, due)
      PROVE  ClaimsInv'
  BY <1>7 DEF RetryPreparation, OwnsPreparation, Released
<1>8. ASSUME NEW t \in Tokens, FailPreparationUncertain(t) PROVE ClaimsInv'
  BY <1>8 DEF FailPreparationUncertain, OwnsPreparation, Released
<1>9. ASSUME NEW t \in Tokens, NEW b \in Bundles, ReserveBundle(t, b)
      PROVE  ClaimsInv'
  BY <1>9 DEF ReserveBundle
<1>10. ASSUME NEW t \in Tokens, NEW b \in Bundles, NEW status \in {"present",
             "abandoned"}, SettleBundle(t, b, status)
      PROVE  ClaimsInv'
  BY <1>10 DEF SettleBundle
<1> QED BY <1>1, <1>2, <1>3, <1>4, <1>5, <1>6, <1>7, <1>8, <1>9, <1>10
        DEF PreparationStep, ExpireStale

(* Claims match statuses after: the transactions of submission and of its  *)
(* recovery.                                                               *)
LEMMA SubmissionStepClaims ==
  ASSUME TypeOK, ClaimsInv, SubmissionStep
  PROVE  ClaimsInv'
<1>1. ASSUME NEW t \in Tokens, FailSubmissionRecovery(t) PROVE ClaimsInv'
  BY <1>1, EndExecutionClaims DEF FailSubmissionRecovery
<1> USE DEF TypeOK, PreparationRow, ExecutionRow, PublicationRow, StepRow, ClaimsInv,
            ClaimsMatchStatus, OwnedStatus
<1>2. ASSUME NEW n \in Fresh, ClaimSubmissionRecovery(n) PROVE ClaimsInv'
  BY <1>2, NullsAreNotValues DEF ClaimSubmissionRecovery, Fresh, FreeRecovery
<1>3. CASE DisconnectExhausted
  BY <1>3 DEF DisconnectExhausted, FreeRecovery, Released
<1>4. ASSUME NEW t \in Tokens, NEW b \in Bundles, SavePreparedSubmission(t, b)
      PROVE  ClaimsInv'
  BY <1>4 DEF SavePreparedSubmission
<1>5. ASSUME NEW t \in Tokens, NEW b \in Bundles, MarkQueued(t, b)
      PROVE  ClaimsInv'
  BY <1>5 DEF MarkQueued, OwnsPreparation, Released
<1>6. ASSUME NEW t \in Tokens, CompleteSubmissionRecovery(t) PROVE ClaimsInv'
  BY <1>6 DEF CompleteSubmissionRecovery, OwnsRecovery, Released
<1>7. ASSUME NEW t \in Tokens, RecordUnknownRecoveryOutcome(t) PROVE ClaimsInv'
  BY <1>7 DEF RecordUnknownRecoveryOutcome, OwnsRecovery
<1> QED BY <1>1, <1>2, <1>3, <1>4, <1>5, <1>6, <1>7 DEF SubmissionStep

(* Claims match statuses after: what the provider reports.                 *)
LEMMA ObservationStepClaims ==
  ASSUME TypeOK, ClaimsInv, ObservationStep
  PROVE  ClaimsInv'
<1>1. CASE FailExecution
  BY <1>1, EndExecutionClaims DEF FailExecution
<1> USE DEF TypeOK, PreparationRow, ExecutionRow, PublicationRow, StepRow, ClaimsInv,
            ClaimsMatchStatus, OwnedStatus
<1>2. CASE MarkRunning
  BY <1>2 DEF MarkRunning
<1>3. CASE RecordExecutionSuccess
  BY <1>3 DEF RecordExecutionSuccess, ActiveExecution
<1> QED BY <1>1, <1>2, <1>3 DEF ObservationStep

(* Claims match statuses after: the transactions of publication and of its *)
(* steps.                                                                  *)
LEMMA PublicationStepClaims ==
  ASSUME TypeOK, ClaimsInv, PublicationStep
  PROVE  ClaimsInv'
<1>1. ASSUME NEW t \in Tokens, NEW s \in Steps, RefuseStepClaim(t, s)
      PROVE  ClaimsInv'
  BY <1>1, DerivePublicationClaims DEF TypeOK, StepRow, ClaimsInv, ClaimsMatchStatus,
       RefuseStepClaim
<1>2. ASSUME NEW t \in Tokens, NEW s \in Steps, NEW outcome \in {"succeeded",
             "terminal_failed"}, SettleExhaustedStep(t, s, outcome)
      PROVE  ClaimsInv'
  BY <1>2, DerivePublicationClaims DEF TypeOK, StepRow, ClaimsInv, ClaimsMatchStatus,
       SettleExhaustedStep
<1>3. ASSUME NEW t \in Tokens, NEW s \in Steps, NEW retry \in {"yes", "unstated"},
             FailPublicationStep(t, s, retry)
      PROVE  ClaimsInv'
  BY <1>3, DerivePublicationClaims DEF TypeOK, StepRow, ClaimsInv, ClaimsMatchStatus,
       FailPublicationStep, FailedStep
<1> USE DEF TypeOK, PreparationRow, ExecutionRow, PublicationRow, StepRow, ClaimsInv,
            ClaimsMatchStatus, OwnedStatus
<1>4. ASSUME NEW n \in Fresh, ClaimPublication(n) PROVE ClaimsInv'
  BY <1>4, NullsAreNotValues DEF ClaimPublication, Fresh
<1>5. ASSUME NEW t \in Tokens, RenewPublication(t) PROVE ClaimsInv'
  BY <1>5, NullsAreNotValues DEF RenewPublication, OwnsPublication
<1>6. ASSUME NEW t \in Tokens, InitializePublicationSteps(t) PROVE ClaimsInv'
  BY <1>6 DEF InitializePublicationSteps
<1>7. ASSUME NEW t \in Tokens, CompletePublication(t) PROVE ClaimsInv'
  BY <1>7 DEF CompletePublication, OwnsPublication, Released
<1>8. ASSUME NEW t \in Tokens, NEW retry \in BOOLEAN, FailPublication(t, retry)
      PROVE  ClaimsInv'
  BY <1>8 DEF FailPublication, OwnsPublication, Released
<1>9. ASSUME NEW t \in Tokens, NEW s \in Steps, ClaimPublicationStep(t, s)
      PROVE  ClaimsInv'
  BY <1>9, NullsAreNotValues DEF ClaimPublicationStep
<1>10. ASSUME NEW t \in Tokens, NEW s \in Steps, CompletePublicationStep(t, s)
      PROVE  ClaimsInv'
  BY <1>10 DEF CompletePublicationStep
<1>11. ASSUME NEW t \in Tokens, NEW s \in Steps, FailPublicationStepTerminally(t, s)
      PROVE  ClaimsInv'
  BY <1>11 DEF FailPublicationStepTerminally, FailedStep, Released
<1> QED BY <1>1, <1>2, <1>3, <1>4, <1>5, <1>6, <1>7, <1>8, <1>9, <1>10, <1>11
        DEF PublicationStep

(* Claims match statuses after: the decisions of an operator.              *)
LEMMA OperatorStepClaims ==
  ASSUME TypeOK, ClaimsInv, OperatorStep
  PROVE  ClaimsInv'
<1>1. CASE GiveUpExecution
  BY <1>1, EndExecutionClaims DEF GiveUpExecution
<1> USE DEF TypeOK, PreparationRow, ExecutionRow, PublicationRow, StepRow, ClaimsInv,
            ClaimsMatchStatus, OwnedStatus
<1>2. CASE ResumePreparation
  BY <1>2 DEF ResumePreparation
<1>3. CASE ResumeExecution
  BY <1>3 DEF ResumeExecution, Released
<1>4. CASE ResumePublication
  BY <1>4 DEF ResumePublication, Released
<1>5. CASE GiveUpPreparation
  BY <1>5, AbandonedClaims DEF GiveUpPreparation, Released
<1>6. CASE GiveUpPublication
  BY <1>6 DEF GiveUpPublication, Released
<1>7. CASE AbandonBlockedPreparation
  BY <1>7, AbandonedClaims DEF AbandonBlockedPreparation, Released
<1> QED BY <1>1, <1>2, <1>3, <1>4, <1>5, <1>6, <1>7 DEF OperatorStep

(* Claims match statuses after: the passing of time.                       *)
LEMMA ClockClaims ==
  ASSUME TypeOK, ClaimsInv, Clock
  PROVE  ClaimsInv'
<1> USE DEF TypeOK, PreparationRow, ExecutionRow, PublicationRow, StepRow, ClaimsInv,
            ClaimsMatchStatus, OwnedStatus
<1>1. CASE PreparationLeaseExpires
  BY <1>1 DEF PreparationLeaseExpires
<1>2. CASE BackoffElapses
  BY <1>2 DEF BackoffElapses
<1>3. CASE RecoveryLeaseExpires
  BY <1>3 DEF RecoveryLeaseExpires
<1>4. CASE PublicationLeaseExpires
  BY <1>4 DEF PublicationLeaseExpires
<1> QED BY <1>1, <1>2, <1>3, <1>4 DEF Clock
(* Admission claims the preparation for its caller.                        *)
LEMMA InitClaims == Init => ClaimsInv
  BY NullsAreNotValues DEF Init, InsertedRun, ClaimsInv, ClaimsMatchStatus, OwnedStatus

(* Every step of the stores, and stuttering.                               *)
LEMMA NextClaims == TypeOK /\ ClaimsInv /\ [Next]_runVars => ClaimsInv'
<1> SUFFICES ASSUME TypeOK, ClaimsInv, [Next]_runVars PROVE ClaimsInv'
  OBVIOUS
<1>1. CASE Next
  BY <1>1, PreparationStepClaims, SubmissionStepClaims, ObservationStepClaims,
       PublicationStepClaims, OperatorStepClaims, ClockClaims DEF Next
<1>2. CASE UNCHANGED runVars
  BY <1>2 DEF runVars, ClaimsInv, ClaimsMatchStatus
<1> QED BY <1>1, <1>2

(* A claim token is stored exactly in the statuses in which its owner may  *)
(* act: no transition forgets to release a claim or to take one.           *)
THEOREM ClaimsAlwaysMatch == Spec => []ClaimsMatchStatus
<1>1. ClaimsInv => ClaimsMatchStatus
  BY DEF ClaimsInv
<1> QED BY <1>1, InitClaims, NextClaims, RowsAreTyped, PTL DEF Spec

----------------------------------------------------------------------------
(* Abandoning never hands the publication to somebody else.                *)
LEMMA AbandonedExclusive ==
  ASSUME TypeOK, AbandonInFlightPublication
  PROVE  publication'.token \in {publication.token, NoToken}
  BY DEF TypeOK, PublicationRow, AbandonInFlightPublication

(* A live claim is kept or released by: the transactions of preparation    *)
(* and of its bundles.                                                     *)
LEMMA PreparationStepExclusive ==
  ASSUME TypeOK, ClaimsInv, PreparationStep
  PROVE  LiveClaimsKept
<1> USE DEF TypeOK, PreparationRow, ExecutionRow, PublicationRow, LiveClaimsKept
<1>1. ASSUME NEW n \in Fresh, ClaimPreparation(n) PROVE LiveClaimsKept
  BY <1>1 DEF ClaimsInv, ClaimsMatchStatus, OwnedStatus, ClaimPreparation
<1>2. CASE LapsePreparation
  BY <1>2 DEF LapsePreparation, Released
<1>3. CASE ExhaustPreparation
  BY <1>3, AbandonedExclusive DEF ExhaustPreparation, SkipExecution, Released
<1>4. CASE DisconnectPreparation
  BY <1>4 DEF DisconnectPreparation, Released
<1>5. ASSUME NEW t \in Tokens, CheckpointInput(t) PROVE LiveClaimsKept
  BY <1>5 DEF CheckpointInput
<1>6. ASSUME NEW t \in Tokens, NEW due \in {"now", "later"}, RetryPreparation(t, due)
      PROVE  LiveClaimsKept
  BY <1>6 DEF RetryPreparation, Released
<1>7. ASSUME NEW t \in Tokens, FailPreparation(t) PROVE LiveClaimsKept
  BY <1>7, AbandonedExclusive DEF FailPreparation, SkipExecution, Released
<1>8. ASSUME NEW t \in Tokens, FailPreparationUncertain(t) PROVE LiveClaimsKept
  BY <1>8 DEF FailPreparationUncertain, Released
<1>9. ASSUME NEW t \in Tokens, NEW b \in Bundles, ReserveBundle(t, b)
      PROVE  LiveClaimsKept
  BY <1>9 DEF ReserveBundle
<1>10. ASSUME NEW t \in Tokens, NEW b \in Bundles, NEW status \in {"present",
             "abandoned"}, SettleBundle(t, b, status)
      PROVE  LiveClaimsKept
  BY <1>10 DEF SettleBundle
<1> QED BY <1>1, <1>2, <1>3, <1>4, <1>5, <1>6, <1>7, <1>8, <1>9, <1>10
        DEF PreparationStep, ExpireStale

(* A live claim is kept or released by: the transactions of submission and *)
(* of its recovery.                                                        *)
LEMMA SubmissionStepExclusive ==
  ASSUME TypeOK, ClaimsInv, SubmissionStep
  PROVE  LiveClaimsKept
<1> USE DEF TypeOK, PreparationRow, ExecutionRow, PublicationRow, LiveClaimsKept
<1>1. ASSUME NEW n \in Fresh, ClaimSubmissionRecovery(n) PROVE LiveClaimsKept
  BY <1>1 DEF ClaimsInv, ClaimsMatchStatus, OwnedStatus, ClaimSubmissionRecovery,
       FreeRecovery
<1>2. CASE DisconnectExhausted
  BY <1>2 DEF DisconnectExhausted, Released
<1>3. ASSUME NEW t \in Tokens, NEW b \in Bundles, SavePreparedSubmission(t, b)
      PROVE  LiveClaimsKept
  BY <1>3 DEF SavePreparedSubmission
<1>4. ASSUME NEW t \in Tokens, NEW b \in Bundles, MarkQueued(t, b)
      PROVE  LiveClaimsKept
  BY <1>4 DEF MarkQueued, Released
<1>5. ASSUME NEW t \in Tokens, CompleteSubmissionRecovery(t) PROVE LiveClaimsKept
  BY <1>5 DEF CompleteSubmissionRecovery, Released
<1>6. ASSUME NEW t \in Tokens, RecordUnknownRecoveryOutcome(t)
      PROVE  LiveClaimsKept
  BY <1>6 DEF RecordUnknownRecoveryOutcome
<1>7. ASSUME NEW t \in Tokens, FailSubmissionRecovery(t) PROVE LiveClaimsKept
  BY <1>7, AbandonedExclusive DEF FailSubmissionRecovery, EndExecution, Released
<1> QED BY <1>1, <1>2, <1>3, <1>4, <1>5, <1>6, <1>7 DEF SubmissionStep

(* A live claim is kept or released by: what the provider reports.         *)
LEMMA ObservationStepExclusive ==
  ASSUME TypeOK, ClaimsInv, ObservationStep
  PROVE  LiveClaimsKept
<1> USE DEF TypeOK, PreparationRow, ExecutionRow, PublicationRow, LiveClaimsKept
<1>1. CASE MarkRunning
  BY <1>1 DEF MarkRunning
<1>2. CASE RecordExecutionSuccess
  BY <1>2 DEF RecordExecutionSuccess
<1>3. CASE FailExecution
  BY <1>3, AbandonedExclusive DEF FailExecution, EndExecution, Released
<1> QED BY <1>1, <1>2, <1>3 DEF ObservationStep

(* A live claim is kept or released by: the transactions of publication    *)
(* and of its steps.                                                       *)
LEMMA PublicationStepExclusive ==
  ASSUME TypeOK, ClaimsInv, PublicationStep
  PROVE  LiveClaimsKept
<1> USE DEF TypeOK, PreparationRow, ExecutionRow, PublicationRow, LiveClaimsKept
<1>1. ASSUME NEW n \in Fresh, ClaimPublication(n) PROVE LiveClaimsKept
  BY <1>1 DEF ClaimsInv, ClaimsMatchStatus, OwnedStatus, ClaimPublication,
       ClaimablePublication
<1>2. ASSUME NEW t \in Tokens, RenewPublication(t) PROVE LiveClaimsKept
  BY <1>2 DEF RenewPublication
<1>3. ASSUME NEW t \in Tokens, InitializePublicationSteps(t) PROVE LiveClaimsKept
  BY <1>3 DEF InitializePublicationSteps
<1>4. ASSUME NEW t \in Tokens, CompletePublication(t) PROVE LiveClaimsKept
  BY <1>4 DEF CompletePublication, Released
<1>5. ASSUME NEW t \in Tokens, NEW retry \in BOOLEAN, FailPublication(t, retry)
      PROVE  LiveClaimsKept
  BY <1>5 DEF FailPublication, Released
<1>6. ASSUME NEW t \in Tokens, NEW s \in Steps, ClaimPublicationStep(t, s)
      PROVE  LiveClaimsKept
  BY <1>6 DEF ClaimPublicationStep
<1>7. ASSUME NEW t \in Tokens, NEW s \in Steps, RefuseStepClaim(t, s)
      PROVE  LiveClaimsKept
  BY <1>7 DEF RefuseStepClaim, DerivePublication
<1>8. ASSUME NEW t \in Tokens, NEW s \in Steps, NEW outcome \in {"succeeded",
             "terminal_failed"}, SettleExhaustedStep(t, s, outcome)
      PROVE  LiveClaimsKept
  BY <1>8 DEF SettleExhaustedStep, DerivePublication
<1>9. ASSUME NEW t \in Tokens, NEW s \in Steps, CompletePublicationStep(t, s)
      PROVE  LiveClaimsKept
  BY <1>9 DEF CompletePublicationStep
<1>10. ASSUME NEW t \in Tokens, NEW s \in Steps, NEW retry \in {"yes", "unstated"},
             FailPublicationStep(t, s, retry)
      PROVE  LiveClaimsKept
  BY <1>10 DEF FailPublicationStep, DerivePublication
<1>11. ASSUME NEW t \in Tokens, NEW s \in Steps, FailPublicationStepTerminally(t, s)
      PROVE  LiveClaimsKept
  BY <1>11 DEF FailPublicationStepTerminally, Released
<1> QED BY <1>1, <1>2, <1>3, <1>4, <1>5, <1>6, <1>7, <1>8, <1>9, <1>10, <1>11
        DEF PublicationStep

(* A live claim is kept or released by: the decisions of an operator.      *)
LEMMA OperatorStepExclusive ==
  ASSUME TypeOK, ClaimsInv, OperatorStep
  PROVE  LiveClaimsKept
<1> USE DEF TypeOK, PreparationRow, ExecutionRow, PublicationRow, LiveClaimsKept
<1>1. CASE ResumePreparation
  BY <1>1 DEF ResumePreparation
<1>2. CASE ResumeExecution
  BY <1>2 DEF ResumeExecution, Released
<1>3. CASE ResumePublication
  BY <1>3 DEF ResumePublication, Released
<1>4. CASE GiveUpPreparation
  BY <1>4, AbandonedExclusive DEF GiveUpPreparation, Released
<1>5. CASE GiveUpExecution
  BY <1>5, AbandonedExclusive DEF GiveUpExecution, EndExecution, Released
<1>6. CASE GiveUpPublication
  BY <1>6 DEF GiveUpPublication, Released
<1>7. CASE AbandonBlockedPreparation
  BY <1>7, AbandonedExclusive DEF AbandonBlockedPreparation, Released
<1> QED BY <1>1, <1>2, <1>3, <1>4, <1>5, <1>6, <1>7 DEF OperatorStep

(* A live claim is kept or released by: the passing of time.               *)
LEMMA ClockExclusive ==
  ASSUME TypeOK, ClaimsInv, Clock
  PROVE  LiveClaimsKept
<1> USE DEF TypeOK, PreparationRow, ExecutionRow, PublicationRow, LiveClaimsKept
<1>1. CASE PreparationLeaseExpires
  BY <1>1 DEF PreparationLeaseExpires
<1>2. CASE BackoffElapses
  BY <1>2 DEF BackoffElapses
<1>3. CASE RecoveryLeaseExpires
  BY <1>3 DEF RecoveryLeaseExpires
<1>4. CASE PublicationLeaseExpires
  BY <1>4 DEF PublicationLeaseExpires
<1> QED BY <1>1, <1>2, <1>3, <1>4 DEF Clock
(* A lease protects its owner for as long as it is live, on every axis and *)
(* against every method, including the ones that do not compare leases.    *)
THEOREM LiveClaimsAreExclusive == Spec => LiveClaimIsExclusive
<1>1. TypeOK /\ ClaimsInv /\ [Next]_runVars => [LiveClaimsKept]_runVars
  BY PreparationStepExclusive, SubmissionStepExclusive, ObservationStepExclusive,
     PublicationStepExclusive, OperatorStepExclusive, ClockExclusive DEF Next
<1> QED BY <1>1, InitClaims, NextClaims, RowsAreTyped, PTL
        DEF Spec, LiveClaimIsExclusive

----------------------------------------------------------------------------
(* Inductive: a step that is not parked has a reconciliation left.         *)
StepBudget(step) ==
  /\ step.attempts <= MaxStep
  /\ step.status \in {"uncertain", "disconnected"} => step.attempts = MaxStep
  /\ step.status = "disconnected" => step.recoveries = MaxStepRecovery
  /\ step.status # "disconnected" => step.recoveries < MaxStepRecovery

(* BudgetsHold with the strengthened budget of a step.                     *)
BudgetsInv ==
  /\ preparation.attempts <= MaxPreparation
  /\ preparation.status \in {"pending", "uncertain"} => preparation.attempts < MaxPreparation
  /\ execution.status = "disconnected" => execution.attempts >= MaxRecovery
  /\ \A s \in Steps : StepBudget(steps[s])

(* Abandoning spends nothing.                                              *)
LEMMA AbandonedBudgets ==
  ASSUME TypeOK, BudgetsInv, AbandonInFlightPublication
  PROVE  \A s \in Steps : StepBudget(steps'[s])
  BY DEF TypeOK, StepRow, BudgetsInv, StepBudget, AbandonInFlightPublication

(* A failed reconciliation is counted, and the last one parks the step.    *)
LEMMA FailedStepBudget ==
  ASSUME NEW step \in StepRow, StepBudget(step), NEW retry,
         step.status \in {"running", "uncertain"}
  PROVE  StepBudget(FailedStep(step, retry))
<1>1. CASE step.status = "uncertain" /\ retry = "yes"
  <2> DEFINE spent == step.recoveries + 1
  <2>1. /\ FailedStep(step, retry).attempts = step.attempts
        /\ FailedStep(step, retry).recoveries = spent
        /\ FailedStep(step, retry).status
             = IF spent >= MaxStepRecovery THEN "disconnected" ELSE "uncertain"
    BY <1>1 DEF StepRow, FailedStep
  <2>2. spent \in Nat /\ spent <= MaxStepRecovery
    BY <1>1, BudgetsArePositive DEF StepRow, StepBudget
  <2> QED BY <1>1, <2>1, <2>2, BudgetsArePositive DEF StepBudget
<1>2. CASE ~(step.status = "uncertain" /\ retry = "yes") /\ retry = "no"
  BY <1>2, BudgetsArePositive DEF StepRow, StepBudget, FailedStep
<1>3. CASE ~(step.status = "uncertain" /\ retry = "yes") /\ retry # "no"
  BY <1>3, BudgetsArePositive DEF StepRow, StepBudget, FailedStep
<1> QED BY <1>1, <1>2, <1>3

(* Budgets hold after: the transactions of preparation and of its bundles. *)
LEMMA PreparationStepBudgets ==
  ASSUME TypeOK, BudgetsInv, PreparationStep
  PROVE  BudgetsInv'
<1>1. CASE ExhaustPreparation
  BY <1>1, AbandonedBudgets DEF TypeOK, PreparationRow, ExecutionRow, BudgetsInv,
       ExhaustPreparation, SkipExecution, Released
<1>2. ASSUME NEW t \in Tokens, FailPreparation(t) PROVE BudgetsInv'
  BY <1>2, AbandonedBudgets DEF TypeOK, PreparationRow, ExecutionRow, BudgetsInv,
       FailPreparation, SkipExecution, Released
<1> USE DEF TypeOK, PreparationRow, ExecutionRow, StepRow, BudgetsInv, StepBudget
<1>3. ASSUME NEW n \in Fresh, ClaimPreparation(n) PROVE BudgetsInv'
  BY <1>3, BudgetsArePositive DEF ClaimPreparation
<1>4. CASE LapsePreparation
  BY <1>4, BudgetsArePositive DEF LapsePreparation, ExhaustedPreparation, Released
<1>5. CASE DisconnectPreparation
  BY <1>5 DEF DisconnectPreparation, Released
<1>6. ASSUME NEW t \in Tokens, CheckpointInput(t) PROVE BudgetsInv'
  BY <1>6 DEF CheckpointInput
<1>7. ASSUME NEW t \in Tokens, NEW due \in {"now", "later"}, RetryPreparation(t, due)
      PROVE  BudgetsInv'
  BY <1>7 DEF RetryPreparation, Released
<1>8. ASSUME NEW t \in Tokens, FailPreparationUncertain(t) PROVE BudgetsInv'
  BY <1>8 DEF FailPreparationUncertain, Released
<1>9. ASSUME NEW t \in Tokens, NEW b \in Bundles, ReserveBundle(t, b)
      PROVE  BudgetsInv'
  BY <1>9 DEF ReserveBundle
<1>10. ASSUME NEW t \in Tokens, NEW b \in Bundles, NEW status \in {"present",
             "abandoned"}, SettleBundle(t, b, status)
      PROVE  BudgetsInv'
  BY <1>10 DEF SettleBundle
<1> QED BY <1>1, <1>2, <1>3, <1>4, <1>5, <1>6, <1>7, <1>8, <1>9, <1>10
        DEF PreparationStep, ExpireStale

(* Budgets hold after: the transactions of submission and of its recovery. *)
LEMMA SubmissionStepBudgets ==
  ASSUME TypeOK, BudgetsInv, SubmissionStep
  PROVE  BudgetsInv'
<1>1. ASSUME NEW t \in Tokens, FailSubmissionRecovery(t) PROVE BudgetsInv'
  BY <1>1, AbandonedBudgets DEF TypeOK, ExecutionRow, BudgetsInv,
       FailSubmissionRecovery, EndExecution, Released
<1> USE DEF TypeOK, PreparationRow, ExecutionRow, StepRow, BudgetsInv, StepBudget
<1>2. ASSUME NEW n \in Fresh, ClaimSubmissionRecovery(n) PROVE BudgetsInv'
  BY <1>2 DEF ClaimSubmissionRecovery
<1>3. CASE DisconnectExhausted
  BY <1>3, BudgetsArePositive DEF DisconnectExhausted, Released
<1>4. ASSUME NEW t \in Tokens, NEW b \in Bundles, SavePreparedSubmission(t, b)
      PROVE  BudgetsInv'
  BY <1>4 DEF SavePreparedSubmission
<1>5. ASSUME NEW t \in Tokens, NEW b \in Bundles, MarkQueued(t, b)
      PROVE  BudgetsInv'
  BY <1>5 DEF MarkQueued, Released
<1>6. ASSUME NEW t \in Tokens, CompleteSubmissionRecovery(t) PROVE BudgetsInv'
  BY <1>6 DEF CompleteSubmissionRecovery, Released
<1>7. ASSUME NEW t \in Tokens, RecordUnknownRecoveryOutcome(t) PROVE BudgetsInv'
  BY <1>7 DEF RecordUnknownRecoveryOutcome, OwnsRecovery
<1> QED BY <1>1, <1>2, <1>3, <1>4, <1>5, <1>6, <1>7 DEF SubmissionStep

(* Budgets hold after: what the provider reports.                          *)
LEMMA ObservationStepBudgets ==
  ASSUME TypeOK, BudgetsInv, ObservationStep
  PROVE  BudgetsInv'
<1>1. CASE FailExecution
  BY <1>1, AbandonedBudgets DEF TypeOK, ExecutionRow, BudgetsInv, FailExecution,
       EndExecution, Released
<1> USE DEF TypeOK, PreparationRow, ExecutionRow, StepRow, BudgetsInv, StepBudget
<1>2. CASE MarkRunning
  BY <1>2 DEF MarkRunning
<1>3. CASE RecordExecutionSuccess
  BY <1>3 DEF RecordExecutionSuccess
<1> QED BY <1>1, <1>2, <1>3 DEF ObservationStep

(* Budgets hold after: the transactions of publication and of its steps.   *)
LEMMA PublicationStepBudgets ==
  ASSUME TypeOK, BudgetsInv, PublicationStep
  PROVE  BudgetsInv'
<1>1. ASSUME NEW t \in Tokens, NEW s \in Steps, RefuseStepClaim(t, s)
      PROVE  BudgetsInv'
  BY <1>1, BudgetsArePositive DEF TypeOK, StepRow, BudgetsInv, StepBudget,
       RefuseStepClaim, NeedsReconciliation, IsStepExhausted, DerivePublication
<1>2. ASSUME NEW t \in Tokens, NEW s \in Steps, NEW outcome \in {"succeeded",
             "terminal_failed"}, SettleExhaustedStep(t, s, outcome)
      PROVE  BudgetsInv'
  BY <1>2 DEF TypeOK, StepRow, BudgetsInv, StepBudget, SettleExhaustedStep,
       DerivePublication
<1>3. ASSUME NEW t \in Tokens, NEW s \in Steps, NEW retry \in {"yes", "unstated"},
             FailPublicationStep(t, s, retry)
      PROVE  BudgetsInv'
  BY <1>3, FailedStepBudget DEF TypeOK, BudgetsInv, FailPublicationStep,
       DerivePublication
<1>4. ASSUME NEW t \in Tokens, NEW s \in Steps, FailPublicationStepTerminally(t, s)
      PROVE  BudgetsInv'
  BY <1>4, FailedStepBudget DEF TypeOK, BudgetsInv, FailPublicationStepTerminally
<1> USE DEF TypeOK, PreparationRow, ExecutionRow, StepRow, BudgetsInv, StepBudget
<1>5. ASSUME NEW n \in Fresh, ClaimPublication(n) PROVE BudgetsInv'
  BY <1>5 DEF ClaimPublication
<1>6. ASSUME NEW t \in Tokens, RenewPublication(t) PROVE BudgetsInv'
  BY <1>6 DEF RenewPublication
<1>7. ASSUME NEW t \in Tokens, InitializePublicationSteps(t) PROVE BudgetsInv'
  BY <1>7 DEF InitializePublicationSteps
<1>8. ASSUME NEW t \in Tokens, CompletePublication(t) PROVE BudgetsInv'
  BY <1>8 DEF CompletePublication
<1>9. ASSUME NEW t \in Tokens, NEW retry \in BOOLEAN, FailPublication(t, retry)
      PROVE  BudgetsInv'
  BY <1>9 DEF FailPublication
<1>10. ASSUME NEW t \in Tokens, NEW s \in Steps, ClaimPublicationStep(t, s)
      PROVE  BudgetsInv'
  BY <1>10, BudgetsArePositive DEF ClaimPublicationStep, ClaimableStep
<1>11. ASSUME NEW t \in Tokens, NEW s \in Steps, CompletePublicationStep(t, s)
      PROVE  BudgetsInv'
  BY <1>11 DEF CompletePublicationStep
<1> QED BY <1>1, <1>2, <1>3, <1>4, <1>5, <1>6, <1>7, <1>8, <1>9, <1>10, <1>11
        DEF PublicationStep

(* Budgets hold after: the decisions of an operator.                       *)
LEMMA OperatorStepBudgets ==
  ASSUME TypeOK, BudgetsInv, OperatorStep
  PROVE  BudgetsInv'
<1>1. CASE GiveUpPreparation
  BY <1>1, AbandonedBudgets DEF TypeOK, PreparationRow, ExecutionRow, BudgetsInv,
       GiveUpPreparation, Released
<1>2. CASE GiveUpExecution
  BY <1>2, AbandonedBudgets DEF TypeOK, ExecutionRow, BudgetsInv, GiveUpExecution,
       EndExecution, Released
<1>3. CASE AbandonBlockedPreparation
  BY <1>3, AbandonedBudgets DEF TypeOK, PreparationRow, ExecutionRow, BudgetsInv,
       AbandonBlockedPreparation, Released
<1> USE DEF TypeOK, PreparationRow, ExecutionRow, StepRow, BudgetsInv, StepBudget
<1>4. CASE ResumePreparation
  BY <1>4, BudgetsArePositive DEF ResumePreparation
<1>5. CASE ResumeExecution
  BY <1>5 DEF ResumeExecution, Released
<1>6. CASE ResumePublication
  BY <1>6, BudgetsArePositive DEF ResumePublication
<1>7. CASE GiveUpPublication
  BY <1>7 DEF GiveUpPublication
<1> QED BY <1>1, <1>2, <1>3, <1>4, <1>5, <1>6, <1>7 DEF OperatorStep

(* Budgets hold after: the passing of time.                                *)
LEMMA ClockBudgets ==
  ASSUME TypeOK, BudgetsInv, Clock
  PROVE  BudgetsInv'
<1> USE DEF TypeOK, PreparationRow, ExecutionRow, StepRow, BudgetsInv, StepBudget
<1>1. CASE PreparationLeaseExpires
  BY <1>1 DEF PreparationLeaseExpires
<1>2. CASE BackoffElapses
  BY <1>2 DEF BackoffElapses
<1>3. CASE RecoveryLeaseExpires
  BY <1>3 DEF RecoveryLeaseExpires
<1>4. CASE PublicationLeaseExpires
  BY <1>4 DEF PublicationLeaseExpires
<1> QED BY <1>1, <1>2, <1>3, <1>4 DEF Clock
(* The first attempt is within the budget.                                 *)
LEMMA InitBudgets == Init => BudgetsInv
  BY BudgetsArePositive DEF Init, InsertedRun, BudgetsInv, StepBudget

(* Every step of the stores, and stuttering.                               *)
LEMMA NextBudgets == TypeOK /\ BudgetsInv /\ [Next]_runVars => BudgetsInv'
<1> SUFFICES ASSUME TypeOK, BudgetsInv, [Next]_runVars PROVE BudgetsInv'
  OBVIOUS
<1>1. CASE Next
  BY <1>1, PreparationStepBudgets, SubmissionStepBudgets, ObservationStepBudgets,
       PublicationStepBudgets, OperatorStepBudgets, ClockBudgets DEF Next
<1>2. CASE UNCHANGED runVars
  BY <1>2 DEF runVars, BudgetsInv
<1> QED BY <1>1, <1>2

(* No preparation and no step is attempted, and no step reconciled, more   *)
(* often than its budget allows, whatever the budgets are, although the    *)
(* counters are incremented and compared in different transactions.        *)
THEOREM BudgetsAlwaysHold == Spec => []BudgetsHold
<1>1. TypeOK /\ BudgetsInv => BudgetsHold
  BY BudgetsArePositive DEF TypeOK, StepRow, BudgetsInv, BudgetsHold, StepBudget
<1> QED BY <1>1, InitBudgets, NextBudgets, RowsAreTyped, PTL DEF Spec

-----------------------------------------------------------------------------
(* Abandoning never touches a selected candidate.                          *)
LEMMA AbandonedSelection ==
  ASSUME TypeOK, SelectedIsInput, AbandonInFlightPublication,
         execution'.input = execution.input
  PROVE  SelectedIsInput'
  BY DEF TypeOK, SelectedIsInput, AbandonInFlightPublication

(* The selected bundle is the input after: the transactions of preparation *)
(* and of its bundles.                                                     *)
LEMMA PreparationStepSelection ==
  ASSUME TypeOK, SelectedIsInput, PreparationStep
  PROVE  SelectedIsInput'
<1>1. CASE ExhaustPreparation
  BY <1>1, AbandonedSelection DEF TypeOK, ExecutionRow, ExhaustPreparation,
       SkipExecution
<1>2. ASSUME NEW t \in Tokens, FailPreparation(t) PROVE SelectedIsInput'
  BY <1>2, AbandonedSelection DEF TypeOK, ExecutionRow, FailPreparation, SkipExecution
<1> USE DEF TypeOK, ExecutionRow, SelectedIsInput
<1>3. ASSUME NEW n \in Fresh, ClaimPreparation(n) PROVE SelectedIsInput'
  BY <1>3 DEF ClaimPreparation
<1>4. CASE LapsePreparation
  BY <1>4 DEF LapsePreparation
<1>5. CASE DisconnectPreparation
  BY <1>5 DEF DisconnectPreparation
<1>6. ASSUME NEW t \in Tokens, CheckpointInput(t) PROVE SelectedIsInput'
  BY <1>6 DEF CheckpointInput
<1>7. ASSUME NEW t \in Tokens, NEW due \in {"now", "later"}, RetryPreparation(t, due)
      PROVE  SelectedIsInput'
  BY <1>7 DEF RetryPreparation
<1>8. ASSUME NEW t \in Tokens, FailPreparationUncertain(t) PROVE SelectedIsInput'
  BY <1>8 DEF FailPreparationUncertain
<1>9. ASSUME NEW t \in Tokens, NEW b \in Bundles, ReserveBundle(t, b)
      PROVE  SelectedIsInput'
  BY <1>9 DEF ReserveBundle
<1>10. ASSUME NEW t \in Tokens, NEW b \in Bundles, NEW status \in {"present",
             "abandoned"}, SettleBundle(t, b, status)
      PROVE  SelectedIsInput'
  BY <1>10 DEF SettleBundle
<1> QED BY <1>1, <1>2, <1>3, <1>4, <1>5, <1>6, <1>7, <1>8, <1>9, <1>10
        DEF PreparationStep, ExpireStale

(* The selected bundle is the input after: the transactions of submission  *)
(* and of its recovery.                                                    *)
LEMMA SubmissionStepSelection ==
  ASSUME TypeOK, SelectedIsInput, SubmissionStep
  PROVE  SelectedIsInput'
<1>1. ASSUME NEW t \in Tokens, FailSubmissionRecovery(t) PROVE SelectedIsInput'
  BY <1>1, AbandonedSelection DEF TypeOK, ExecutionRow, FailSubmissionRecovery,
       EndExecution, Released
<1> USE DEF TypeOK, ExecutionRow, SelectedIsInput
<1>2. ASSUME NEW n \in Fresh, ClaimSubmissionRecovery(n) PROVE SelectedIsInput'
  BY <1>2 DEF ClaimSubmissionRecovery
<1>3. CASE DisconnectExhausted
  BY <1>3 DEF DisconnectExhausted, Released
<1>4. ASSUME NEW t \in Tokens, NEW b \in Bundles, SavePreparedSubmission(t, b)
      PROVE  SelectedIsInput'
  BY <1>4, NullsAreNotValues DEF SavePreparedSubmission
<1>5. ASSUME NEW t \in Tokens, NEW b \in Bundles, MarkQueued(t, b)
      PROVE  SelectedIsInput'
  BY <1>5 DEF MarkQueued
<1>6. ASSUME NEW t \in Tokens, CompleteSubmissionRecovery(t)
      PROVE  SelectedIsInput'
  BY <1>6 DEF CompleteSubmissionRecovery, Released
<1>7. ASSUME NEW t \in Tokens, RecordUnknownRecoveryOutcome(t)
      PROVE  SelectedIsInput'
  BY <1>7 DEF RecordUnknownRecoveryOutcome
<1> QED BY <1>1, <1>2, <1>3, <1>4, <1>5, <1>6, <1>7 DEF SubmissionStep

(* The selected bundle is the input after: what the provider reports.      *)
LEMMA ObservationStepSelection ==
  ASSUME TypeOK, SelectedIsInput, ObservationStep
  PROVE  SelectedIsInput'
<1>1. CASE FailExecution
  BY <1>1, AbandonedSelection DEF TypeOK, ExecutionRow, FailExecution, EndExecution,
       Released
<1> USE DEF TypeOK, ExecutionRow, SelectedIsInput
<1>2. CASE MarkRunning
  BY <1>2 DEF MarkRunning
<1>3. CASE RecordExecutionSuccess
  BY <1>3 DEF RecordExecutionSuccess
<1> QED BY <1>1, <1>2, <1>3 DEF ObservationStep

(* The selected bundle is the input after: the transactions of publication *)
(* and of its steps.                                                       *)
LEMMA PublicationStepSelection ==
  ASSUME TypeOK, SelectedIsInput, PublicationStep
  PROVE  SelectedIsInput'
<1>1. ASSUME NEW t \in Tokens, NEW s \in Steps, RefuseStepClaim(t, s)
      PROVE  SelectedIsInput'
  BY <1>1 DEF SelectedIsInput, RefuseStepClaim
<1>2. ASSUME NEW t \in Tokens, NEW s \in Steps, NEW outcome \in {"succeeded",
             "terminal_failed"}, SettleExhaustedStep(t, s, outcome)
      PROVE  SelectedIsInput'
  BY <1>2 DEF SelectedIsInput, SettleExhaustedStep
<1>3. ASSUME NEW t \in Tokens, NEW s \in Steps, NEW retry \in {"yes", "unstated"},
             FailPublicationStep(t, s, retry)
      PROVE  SelectedIsInput'
  BY <1>3 DEF SelectedIsInput, FailPublicationStep
<1> USE DEF TypeOK, ExecutionRow, SelectedIsInput
<1>4. ASSUME NEW n \in Fresh, ClaimPublication(n) PROVE SelectedIsInput'
  BY <1>4 DEF ClaimPublication
<1>5. ASSUME NEW t \in Tokens, RenewPublication(t) PROVE SelectedIsInput'
  BY <1>5 DEF RenewPublication
<1>6. ASSUME NEW t \in Tokens, InitializePublicationSteps(t)
      PROVE  SelectedIsInput'
  BY <1>6 DEF InitializePublicationSteps
<1>7. ASSUME NEW t \in Tokens, CompletePublication(t) PROVE SelectedIsInput'
  BY <1>7 DEF CompletePublication
<1>8. ASSUME NEW t \in Tokens, NEW retry \in BOOLEAN, FailPublication(t, retry)
      PROVE  SelectedIsInput'
  BY <1>8 DEF FailPublication
<1>9. ASSUME NEW t \in Tokens, NEW s \in Steps, ClaimPublicationStep(t, s)
      PROVE  SelectedIsInput'
  BY <1>9 DEF ClaimPublicationStep
<1>10. ASSUME NEW t \in Tokens, NEW s \in Steps, CompletePublicationStep(t, s)
      PROVE  SelectedIsInput'
  BY <1>10 DEF CompletePublicationStep
<1>11. ASSUME NEW t \in Tokens, NEW s \in Steps, FailPublicationStepTerminally(t, s)
      PROVE  SelectedIsInput'
  BY <1>11 DEF FailPublicationStepTerminally
<1> QED BY <1>1, <1>2, <1>3, <1>4, <1>5, <1>6, <1>7, <1>8, <1>9, <1>10, <1>11
        DEF PublicationStep

(* The selected bundle is the input after: the decisions of an operator.   *)
LEMMA OperatorStepSelection ==
  ASSUME TypeOK, SelectedIsInput, OperatorStep
  PROVE  SelectedIsInput'
<1>1. CASE GiveUpPreparation
  BY <1>1, AbandonedSelection DEF TypeOK, ExecutionRow, GiveUpPreparation
<1>2. CASE GiveUpExecution
  BY <1>2, AbandonedSelection DEF TypeOK, ExecutionRow, GiveUpExecution,
       EndExecution, Released
<1>3. CASE AbandonBlockedPreparation
  BY <1>3, AbandonedSelection DEF TypeOK, ExecutionRow, AbandonBlockedPreparation,
       Released
<1> USE DEF TypeOK, ExecutionRow, SelectedIsInput
<1>4. CASE ResumePreparation
  BY <1>4 DEF ResumePreparation
<1>5. CASE ResumeExecution
  BY <1>5 DEF ResumeExecution, Released
<1>6. CASE ResumePublication
  BY <1>6 DEF ResumePublication
<1>7. CASE GiveUpPublication
  BY <1>7 DEF GiveUpPublication
<1> QED BY <1>1, <1>2, <1>3, <1>4, <1>5, <1>6, <1>7 DEF OperatorStep

(* The selected bundle is the input after: the passing of time.            *)
LEMMA ClockSelection ==
  ASSUME TypeOK, SelectedIsInput, Clock
  PROVE  SelectedIsInput'
<1> USE DEF TypeOK, ExecutionRow, SelectedIsInput
<1>1. CASE PreparationLeaseExpires
  BY <1>1 DEF PreparationLeaseExpires
<1>2. CASE BackoffElapses
  BY <1>2 DEF BackoffElapses
<1>3. CASE RecoveryLeaseExpires
  BY <1>3 DEF RecoveryLeaseExpires
<1>4. CASE PublicationLeaseExpires
  BY <1>4 DEF PublicationLeaseExpires
<1> QED BY <1>1, <1>2, <1>3, <1>4 DEF Clock
(* A new run has neither a candidate nor an input.                         *)
LEMMA InitSelection == Init => SelectedIsInput
  BY NullsAreNotValues DEF Init, InsertedRun, SelectedIsInput

(* Every step of the stores, and stuttering.                               *)
LEMMA NextSelection == TypeOK /\ SelectedIsInput /\ [Next]_runVars => SelectedIsInput'
<1> SUFFICES ASSUME TypeOK, SelectedIsInput, [Next]_runVars PROVE SelectedIsInput'
  OBVIOUS
<1>1. CASE Next
  BY <1>1, PreparationStepSelection, SubmissionStepSelection,
       ObservationStepSelection, PublicationStepSelection, OperatorStepSelection,
       ClockSelection DEF Next
<1>2. CASE UNCHANGED runVars
  BY <1>2 DEF runVars, SelectedIsInput
<1> QED BY <1>1, <1>2

(* However many attempts and owners prepared bundles, the one selected     *)
(* candidate is the input of the execution row.                            *)
THEOREM SelectedIsAlwaysInput == Spec => []SelectedIsInput
  BY InitSelection, NextSelection, RowsAreTyped, PTL DEF Spec

----------------------------------------------------------------------------
(* The input is kept by: the transactions of preparation and of its        *)
(* bundles.                                                                *)
LEMMA PreparationStepFrozen ==
  ASSUME TypeOK, PreparationStep
  PROVE  InputKept
<1> USE DEF TypeOK, ExecutionRow, InputKept
<1>1. ASSUME NEW n \in Fresh, ClaimPreparation(n) PROVE InputKept
  BY <1>1 DEF ClaimPreparation
<1>2. CASE LapsePreparation
  BY <1>2 DEF LapsePreparation
<1>3. CASE ExhaustPreparation
  BY <1>3 DEF ExhaustPreparation, SkipExecution
<1>4. CASE DisconnectPreparation
  BY <1>4 DEF DisconnectPreparation
<1>5. ASSUME NEW t \in Tokens, CheckpointInput(t) PROVE InputKept
  BY <1>5 DEF CheckpointInput
<1>6. ASSUME NEW t \in Tokens, NEW due \in {"now", "later"}, RetryPreparation(t, due)
      PROVE  InputKept
  BY <1>6 DEF RetryPreparation
<1>7. ASSUME NEW t \in Tokens, FailPreparation(t) PROVE InputKept
  BY <1>7 DEF FailPreparation, SkipExecution
<1>8. ASSUME NEW t \in Tokens, FailPreparationUncertain(t) PROVE InputKept
  BY <1>8 DEF FailPreparationUncertain
<1>9. ASSUME NEW t \in Tokens, NEW b \in Bundles, ReserveBundle(t, b)
      PROVE  InputKept
  BY <1>9 DEF ReserveBundle
<1>10. ASSUME NEW t \in Tokens, NEW b \in Bundles, NEW status \in {"present",
             "abandoned"}, SettleBundle(t, b, status)
      PROVE  InputKept
  BY <1>10 DEF SettleBundle
<1> QED BY <1>1, <1>2, <1>3, <1>4, <1>5, <1>6, <1>7, <1>8, <1>9, <1>10
        DEF PreparationStep, ExpireStale

(* The input is kept by: the transactions of submission and of its         *)
(* recovery.                                                               *)
LEMMA SubmissionStepFrozen ==
  ASSUME TypeOK, SubmissionStep
  PROVE  InputKept
<1> USE DEF TypeOK, ExecutionRow, InputKept
<1>1. ASSUME NEW n \in Fresh, ClaimSubmissionRecovery(n) PROVE InputKept
  BY <1>1 DEF ClaimSubmissionRecovery
<1>2. CASE DisconnectExhausted
  BY <1>2 DEF DisconnectExhausted, Released
<1>3. ASSUME NEW t \in Tokens, NEW b \in Bundles, SavePreparedSubmission(t, b)
      PROVE  InputKept
  BY <1>3 DEF SavePreparedSubmission
<1>4. ASSUME NEW t \in Tokens, NEW b \in Bundles, MarkQueued(t, b) PROVE InputKept
  BY <1>4 DEF MarkQueued
<1>5. ASSUME NEW t \in Tokens, CompleteSubmissionRecovery(t) PROVE InputKept
  BY <1>5 DEF CompleteSubmissionRecovery, Released
<1>6. ASSUME NEW t \in Tokens, RecordUnknownRecoveryOutcome(t) PROVE InputKept
  BY <1>6 DEF RecordUnknownRecoveryOutcome
<1>7. ASSUME NEW t \in Tokens, FailSubmissionRecovery(t) PROVE InputKept
  BY <1>7 DEF FailSubmissionRecovery, EndExecution, Released
<1> QED BY <1>1, <1>2, <1>3, <1>4, <1>5, <1>6, <1>7 DEF SubmissionStep

(* The input is kept by: what the provider reports.                        *)
LEMMA ObservationStepFrozen ==
  ASSUME TypeOK, ObservationStep
  PROVE  InputKept
<1> USE DEF TypeOK, ExecutionRow, InputKept
<1>1. CASE MarkRunning
  BY <1>1 DEF MarkRunning
<1>2. CASE RecordExecutionSuccess
  BY <1>2 DEF RecordExecutionSuccess
<1>3. CASE FailExecution
  BY <1>3 DEF FailExecution, EndExecution, Released
<1> QED BY <1>1, <1>2, <1>3 DEF ObservationStep

(* The input is kept by: the transactions of publication and of its steps. *)
LEMMA PublicationStepFrozen ==
  ASSUME TypeOK, PublicationStep
  PROVE  InputKept
<1> USE DEF TypeOK, ExecutionRow, InputKept
<1>1. ASSUME NEW n \in Fresh, ClaimPublication(n) PROVE InputKept
  BY <1>1 DEF ClaimPublication
<1>2. ASSUME NEW t \in Tokens, RenewPublication(t) PROVE InputKept
  BY <1>2 DEF RenewPublication
<1>3. ASSUME NEW t \in Tokens, InitializePublicationSteps(t) PROVE InputKept
  BY <1>3 DEF InitializePublicationSteps
<1>4. ASSUME NEW t \in Tokens, CompletePublication(t) PROVE InputKept
  BY <1>4 DEF CompletePublication
<1>5. ASSUME NEW t \in Tokens, NEW retry \in BOOLEAN, FailPublication(t, retry)
      PROVE  InputKept
  BY <1>5 DEF FailPublication
<1>6. ASSUME NEW t \in Tokens, NEW s \in Steps, ClaimPublicationStep(t, s)
      PROVE  InputKept
  BY <1>6 DEF ClaimPublicationStep
<1>7. ASSUME NEW t \in Tokens, NEW s \in Steps, RefuseStepClaim(t, s)
      PROVE  InputKept
  BY <1>7 DEF RefuseStepClaim
<1>8. ASSUME NEW t \in Tokens, NEW s \in Steps, NEW outcome \in {"succeeded",
             "terminal_failed"}, SettleExhaustedStep(t, s, outcome)
      PROVE  InputKept
  BY <1>8 DEF SettleExhaustedStep
<1>9. ASSUME NEW t \in Tokens, NEW s \in Steps, CompletePublicationStep(t, s)
      PROVE  InputKept
  BY <1>9 DEF CompletePublicationStep
<1>10. ASSUME NEW t \in Tokens, NEW s \in Steps, NEW retry \in {"yes", "unstated"},
             FailPublicationStep(t, s, retry)
      PROVE  InputKept
  BY <1>10 DEF FailPublicationStep
<1>11. ASSUME NEW t \in Tokens, NEW s \in Steps, FailPublicationStepTerminally(t, s)
      PROVE  InputKept
  BY <1>11 DEF FailPublicationStepTerminally
<1> QED BY <1>1, <1>2, <1>3, <1>4, <1>5, <1>6, <1>7, <1>8, <1>9, <1>10, <1>11
        DEF PublicationStep

(* The input is kept by: the decisions of an operator.                     *)
LEMMA OperatorStepFrozen ==
  ASSUME TypeOK, OperatorStep
  PROVE  InputKept
<1> USE DEF TypeOK, ExecutionRow, InputKept
<1>1. CASE ResumePreparation
  BY <1>1 DEF ResumePreparation
<1>2. CASE ResumeExecution
  BY <1>2 DEF ResumeExecution, Released
<1>3. CASE ResumePublication
  BY <1>3 DEF ResumePublication
<1>4. CASE GiveUpPreparation
  BY <1>4 DEF GiveUpPreparation
<1>5. CASE GiveUpExecution
  BY <1>5 DEF GiveUpExecution, EndExecution, Released
<1>6. CASE GiveUpPublication
  BY <1>6 DEF GiveUpPublication
<1>7. CASE AbandonBlockedPreparation
  BY <1>7 DEF AbandonBlockedPreparation, Released
<1> QED BY <1>1, <1>2, <1>3, <1>4, <1>5, <1>6, <1>7 DEF OperatorStep

(* The input is kept by: the passing of time.                              *)
LEMMA ClockFrozen ==
  ASSUME TypeOK, Clock
  PROVE  InputKept
<1> USE DEF TypeOK, ExecutionRow, InputKept
<1>1. CASE PreparationLeaseExpires
  BY <1>1 DEF PreparationLeaseExpires
<1>2. CASE BackoffElapses
  BY <1>2 DEF BackoffElapses
<1>3. CASE RecoveryLeaseExpires
  BY <1>3 DEF RecoveryLeaseExpires
<1>4. CASE PublicationLeaseExpires
  BY <1>4 DEF PublicationLeaseExpires
<1> QED BY <1>1, <1>2, <1>3, <1>4 DEF Clock
(* The input of a run is written once: every replay sends what was saved   *)
(* before the first submission.                                            *)
THEOREM InputIsAlwaysFrozen == Spec => InputIsFrozen
<1>1. TypeOK /\ [Next]_runVars => [InputKept]_runVars
  BY PreparationStepFrozen, SubmissionStepFrozen, ObservationStepFrozen,
     PublicationStepFrozen, OperatorStepFrozen, ClockFrozen DEF Next
<1> QED BY <1>1, RowsAreTyped, PTL DEF Spec, InputIsFrozen

----------------------------------------------------------------------------
(* Abandoning leaves a decided publication and the steps' results alone.   *)
LEMMA AbandonedDecisions ==
  ASSUME TypeOK, AbandonInFlightPublication
  PROVE  /\ publication.status \in {"published", "failed", "skipped"}
              => publication'.status = publication.status
         /\ \A s \in Steps : steps'[s].status = steps[s].status
  BY DEF TypeOK, PublicationRow, StepRow, AbandonInFlightPublication,
       InFlightPublication

(* Decisions are kept by: the transactions of preparation and of its       *)
(* bundles.                                                                *)
LEMMA PreparationStepDecisions ==
  ASSUME TypeOK, PreparationStep
  PROVE  DecisionsKept
<1> USE DEF TypeOK, PreparationRow, ExecutionRow, PublicationRow, StepRow, DecisionsKept
<1>1. ASSUME NEW n \in Fresh, ClaimPreparation(n) PROVE DecisionsKept
  BY <1>1 DEF ClaimPreparation
<1>2. CASE LapsePreparation
  BY <1>2 DEF LapsePreparation, StalePreparation
<1>3. CASE ExhaustPreparation
  BY <1>3, AbandonedDecisions DEF ExhaustPreparation, SkipExecution, StalePreparation
<1>4. CASE DisconnectPreparation
  BY <1>4 DEF DisconnectPreparation, StalePreparation
<1>5. ASSUME NEW t \in Tokens, CheckpointInput(t) PROVE DecisionsKept
  BY <1>5 DEF CheckpointInput
<1>6. ASSUME NEW t \in Tokens, NEW due \in {"now", "later"}, RetryPreparation(t, due)
      PROVE  DecisionsKept
  BY <1>6 DEF RetryPreparation, OwnsPreparation
<1>7. ASSUME NEW t \in Tokens, FailPreparation(t) PROVE DecisionsKept
  BY <1>7, AbandonedDecisions DEF FailPreparation, SkipExecution, OwnsPreparation
<1>8. ASSUME NEW t \in Tokens, FailPreparationUncertain(t) PROVE DecisionsKept
  BY <1>8 DEF FailPreparationUncertain, OwnsPreparation
<1>9. ASSUME NEW t \in Tokens, NEW b \in Bundles, ReserveBundle(t, b)
      PROVE  DecisionsKept
  BY <1>9 DEF ReserveBundle
<1>10. ASSUME NEW t \in Tokens, NEW b \in Bundles, NEW status \in {"present",
             "abandoned"}, SettleBundle(t, b, status)
      PROVE  DecisionsKept
  BY <1>10 DEF SettleBundle
<1> QED BY <1>1, <1>2, <1>3, <1>4, <1>5, <1>6, <1>7, <1>8, <1>9, <1>10
        DEF PreparationStep, ExpireStale

(* Decisions are kept by: the transactions of submission and of its        *)
(* recovery.                                                               *)
LEMMA SubmissionStepDecisions ==
  ASSUME TypeOK, SubmissionStep
  PROVE  DecisionsKept
<1> USE DEF TypeOK, PreparationRow, ExecutionRow, PublicationRow, StepRow, DecisionsKept
<1>1. ASSUME NEW n \in Fresh, ClaimSubmissionRecovery(n) PROVE DecisionsKept
  BY <1>1 DEF ClaimSubmissionRecovery, FreeRecovery
<1>2. CASE DisconnectExhausted
  BY <1>2 DEF DisconnectExhausted, FreeRecovery
<1>3. ASSUME NEW t \in Tokens, NEW b \in Bundles, SavePreparedSubmission(t, b)
      PROVE  DecisionsKept
  BY <1>3 DEF SavePreparedSubmission
<1>4. ASSUME NEW t \in Tokens, NEW b \in Bundles, MarkQueued(t, b)
      PROVE  DecisionsKept
  BY <1>4 DEF MarkQueued, OwnsPreparation
<1>5. ASSUME NEW t \in Tokens, CompleteSubmissionRecovery(t) PROVE DecisionsKept
  BY <1>5 DEF CompleteSubmissionRecovery, OwnsRecovery
<1>6. ASSUME NEW t \in Tokens, RecordUnknownRecoveryOutcome(t) PROVE DecisionsKept
  BY <1>6 DEF RecordUnknownRecoveryOutcome
<1>7. ASSUME NEW t \in Tokens, FailSubmissionRecovery(t) PROVE DecisionsKept
  BY <1>7, AbandonedDecisions DEF FailSubmissionRecovery, EndExecution, OwnsRecovery
<1> QED BY <1>1, <1>2, <1>3, <1>4, <1>5, <1>6, <1>7 DEF SubmissionStep

(* Decisions are kept by: what the provider reports.                       *)
LEMMA ObservationStepDecisions ==
  ASSUME TypeOK, ObservationStep
  PROVE  DecisionsKept
<1> USE DEF TypeOK, PreparationRow, ExecutionRow, PublicationRow, StepRow, DecisionsKept
<1>1. CASE MarkRunning
  BY <1>1 DEF MarkRunning
<1>2. CASE RecordExecutionSuccess
  BY <1>2 DEF RecordExecutionSuccess, ActiveExecution
<1>3. CASE FailExecution
  BY <1>3, AbandonedDecisions DEF FailExecution, EndExecution, ActiveExecution
<1> QED BY <1>1, <1>2, <1>3 DEF ObservationStep

(* Decisions are kept by: the transactions of publication and of its       *)
(* steps.                                                                  *)
LEMMA PublicationStepDecisions ==
  ASSUME TypeOK, PublicationStep
  PROVE  DecisionsKept
<1>1. ASSUME NEW t \in Tokens, NEW s \in Steps, RefuseStepClaim(t, s)
      PROVE  DecisionsKept
  BY <1>1, DerivedOwnership DEF TypeOK, StepRow, DecisionsKept, OwnedStatus,
       RefuseStepClaim, DerivePublication, NeedsReconciliation
<1>2. ASSUME NEW t \in Tokens, NEW s \in Steps, NEW outcome \in {"succeeded",
             "terminal_failed"}, SettleExhaustedStep(t, s, outcome)
      PROVE  DecisionsKept
  BY <1>2, DerivedOwnership DEF TypeOK, StepRow, DecisionsKept, OwnedStatus,
       SettleExhaustedStep, DerivePublication
<1>3. ASSUME NEW t \in Tokens, NEW s \in Steps, NEW retry \in {"yes", "unstated"},
             FailPublicationStep(t, s, retry)
      PROVE  DecisionsKept
  BY <1>3, DerivedOwnership DEF TypeOK, StepRow, DecisionsKept, OwnedStatus,
       FailPublicationStep, DerivePublication
<1> USE DEF TypeOK, PreparationRow, ExecutionRow, PublicationRow, StepRow, DecisionsKept
<1>4. ASSUME NEW n \in Fresh, ClaimPublication(n) PROVE DecisionsKept
  BY <1>4 DEF ClaimPublication, ClaimablePublication
<1>5. ASSUME NEW t \in Tokens, RenewPublication(t) PROVE DecisionsKept
  BY <1>5 DEF RenewPublication
<1>6. ASSUME NEW t \in Tokens, InitializePublicationSteps(t) PROVE DecisionsKept
  BY <1>6 DEF InitializePublicationSteps
<1>7. ASSUME NEW t \in Tokens, CompletePublication(t) PROVE DecisionsKept
  BY <1>7 DEF CompletePublication, OwnsPublication, OwnedStatus
<1>8. ASSUME NEW t \in Tokens, NEW retry \in BOOLEAN, FailPublication(t, retry)
      PROVE  DecisionsKept
  BY <1>8 DEF FailPublication, OwnsPublication, OwnedStatus
<1>9. ASSUME NEW t \in Tokens, NEW s \in Steps, ClaimPublicationStep(t, s)
      PROVE  DecisionsKept
  BY <1>9 DEF ClaimPublicationStep, ClaimableStep
<1>10. ASSUME NEW t \in Tokens, NEW s \in Steps, CompletePublicationStep(t, s)
      PROVE  DecisionsKept
  BY <1>10 DEF CompletePublicationStep
<1>11. ASSUME NEW t \in Tokens, NEW s \in Steps, FailPublicationStepTerminally(t, s)
      PROVE  DecisionsKept
  BY <1>11 DEF FailPublicationStepTerminally, OwnsPublication, OwnedStatus
<1> QED BY <1>1, <1>2, <1>3, <1>4, <1>5, <1>6, <1>7, <1>8, <1>9, <1>10, <1>11
        DEF PublicationStep

(* Decisions are kept by: the decisions of an operator.                    *)
LEMMA OperatorStepDecisions ==
  ASSUME TypeOK, OperatorStep
  PROVE  DecisionsKept
<1> USE DEF TypeOK, PreparationRow, ExecutionRow, PublicationRow, StepRow, DecisionsKept
<1>1. CASE ResumePreparation
  BY <1>1 DEF ResumePreparation
<1>2. CASE ResumeExecution
  BY <1>2 DEF ResumeExecution
<1>3. CASE ResumePublication
  BY <1>3 DEF ResumePublication
<1>4. CASE GiveUpPreparation
  BY <1>4, AbandonedDecisions DEF GiveUpPreparation
<1>5. CASE GiveUpExecution
  BY <1>5, AbandonedDecisions DEF GiveUpExecution, EndExecution
<1>6. CASE GiveUpPublication
  BY <1>6 DEF GiveUpPublication
<1>7. CASE AbandonBlockedPreparation
  BY <1>7, AbandonedDecisions DEF AbandonBlockedPreparation
<1> QED BY <1>1, <1>2, <1>3, <1>4, <1>5, <1>6, <1>7 DEF OperatorStep

(* Decisions are kept by: the passing of time.                             *)
LEMMA ClockDecisions ==
  ASSUME TypeOK, Clock
  PROVE  DecisionsKept
<1> USE DEF TypeOK, PreparationRow, ExecutionRow, PublicationRow, StepRow, DecisionsKept
<1>1. CASE PreparationLeaseExpires
  BY <1>1 DEF PreparationLeaseExpires
<1>2. CASE BackoffElapses
  BY <1>2 DEF BackoffElapses
<1>3. CASE RecoveryLeaseExpires
  BY <1>3 DEF RecoveryLeaseExpires
<1>4. CASE PublicationLeaseExpires
  BY <1>4 DEF PublicationLeaseExpires
<1> QED BY <1>1, <1>2, <1>3, <1>4 DEF Clock
(* Nothing reopens a decided axis or a step whose effect was recorded: no  *)
(* late acknowledgement, report, takeover, expiry or operator decision.    *)
THEOREM DecisionsAreFinal == Spec => DecidedIsFinal
<1>1. TypeOK /\ [Next]_runVars => [DecisionsKept]_runVars
  BY PreparationStepDecisions, SubmissionStepDecisions, ObservationStepDecisions,
     PublicationStepDecisions, OperatorStepDecisions, ClockDecisions DEF Next
<1> QED BY <1>1, RowsAreTyped, PTL DEF Spec, DecidedIsFinal

-----------------------------------------------------------------------------
(***************************************************************************)
(* What the systems built on the stores inherit from them.                 *)
(***************************************************************************)

(* What the rows, the notices and the trail record of a run, inductively.  *)
RecordInv == ClaimsInv /\ AxesInv /\ TellingInv /\ TrailInv /\ DoubtInv

(* What the record promises to a reader of it.                             *)
RecordStands == AxesAgree /\ ClaimsMatchStatus /\ EndingsAreTold /\ LogMatchesRows

(* The promises follow from the record.                                    *)
LEMMA RecordIsEnough == RecordInv => RecordStands
  BY DEF RecordInv, RecordStands, ClaimsInv, AxesInv, PreparationNeverContradicted, TellingInv,
         Told, EndingsAreTold, TrailInv, Ends, LogMatchesRows

(* A step of the stores keeps the record and follows the lifecycle.        *)
LEMMA NextRecords ==
  TypeOK /\ RecordInv /\ [Next]_runVars => RecordInv' /\ LifecycleMove
  BY NextClaims, NextAxes, NextTold, NextTrail, NextDoubt, NextMoves DEF RecordInv

=============================================================================
