--------------------------- MODULE RunAxesProofs ----------------------------
(***************************************************************************)
(* The rows keep their types; the three axes of a run tell one story, the  *)
(* people waiting for the run are told how it ends, the audit trail agrees *)
(* with the rows, and the stores implement the lifecycle of a run.         *)
(***************************************************************************)
EXTENDS ReviewRunStore, TLAPS

USE DEF Lease, Edges, Axis, NoticeKind

(* Releasing a claim leaves a well-typed row of the axis it is about.      *)
LEMMA ReleasedPreparation ==
  ASSUME NEW row \in PreparationRow, NEW status \in PreparationStatus
  PROVE  Released(row, status) \in PreparationRow
  BY DEF Released, PreparationRow

(* The same of an execution.                                               *)
LEMMA ReleasedExecution ==
  ASSUME NEW row \in ExecutionRow, NEW status \in ExecutionStatus
  PROVE  Released(row, status) \in ExecutionRow
  BY DEF Released, ExecutionRow

(* The same of a publication.                                              *)
LEMMA ReleasedPublication ==
  ASSUME NEW row \in PublicationRow, NEW status \in PublicationStatus
  PROVE  Released(row, status) \in PublicationRow
  BY DEF Released, PublicationRow

(* Appending an event leaves a trail that ends where the event ends.       *)
LEMMA LoggedType ==
  ASSUME NEW S, NEW trail \in Trail(S), NEW from, NEW to \in S
  PROVE  Logged(trail, from, to) \in Trail(S)
  BY DEF Logged, Trail

(* The part of the type invariant about notices, preserved by each of the  *)
(* operators that write one.                                               *)
LEMMA QueuedNotices ==
  ASSUME notices \in NoticeRows, NEW kind \in NoticeKind, NEW axis \in Axis
  PROVE  QueueRunNotice(kind, axis) \in NoticeRows
  BY DEF QueueRunNotice, NoticeRows, NoticeStatus

(* Superseding leaves well-typed notices.                                  *)
LEMMA SupersededNotices ==
  ASSUME notices \in NoticeRows, NEW axis \in Axis
  PROVE  SupersedeRunAttentionNotices(axis) \in NoticeRows
  BY DEF SupersedeRunAttentionNotices, NoticeRows, NoticeStatus, LiveNotice

(* Abandoning a publication in flight.                                     *)
LEMMA AbandonedType ==
  ASSUME TypeOK, AbandonInFlightPublication
  PROVE  /\ publication' \in PublicationRow
         /\ steps' \in [Steps -> StepRow]
         /\ candidates' \in [Bundles -> CandidateStatus]
         /\ AbandonmentLogged \in Trail(PublicationStatus)
<1>1. publication' \in PublicationRow
  BY DEF TypeOK, AbandonInFlightPublication, PublicationRow, PublicationStatus
<1>2. steps' \in [Steps -> StepRow]
  BY DEF TypeOK, AbandonInFlightPublication, StepRow
<1>3. candidates' \in [Bundles -> CandidateStatus]
  BY DEF TypeOK, AbandonInFlightPublication, CandidateStatus
<1>4. AbandonmentLogged \in Trail(PublicationStatus)
  BY LoggedType DEF TypeOK, AuditTrail, AbandonmentLogged, PublicationStatus
<1> QED BY <1>1, <1>2, <1>3, <1>4

(* Deriving the publication status from new steps.                         *)
LEMMA DerivedType ==
  ASSUME TypeOK, NEW newSteps
  PROVE  /\ Derivation(newSteps) \in PublicationStatus
         /\ DerivationLogged(newSteps) \in Trail(PublicationStatus)
         /\ DerivationNotices(newSteps) \in NoticeRows
<1>1. Derivation(newSteps) \in PublicationStatus
  BY DEF TypeOK, Derivation, DerivedStatus, PublicationRow, PublicationStatus
<1>2. DerivationLogged(newSteps) \in Trail(PublicationStatus)
  BY <1>1, LoggedType DEF TypeOK, AuditTrail, DerivationLogged
<1>3. DerivationNotices(newSteps) \in NoticeRows
  BY QueuedNotices DEF TypeOK, DerivationNotices
<1> QED BY <1>1, <1>2, <1>3

(* An event of one axis, stored in the trail of the run.                   *)
LEMMA PreparationLogged ==
  ASSUME log \in AuditTrail, NEW from, NEW to \in PreparationStatus
  PROVE  [log EXCEPT !.preparation = Logged(@, from, to)] \in AuditTrail
<1>1. Logged(log.preparation, from, to) \in Trail(PreparationStatus)
  BY LoggedType DEF AuditTrail
<1> QED BY <1>1 DEF AuditTrail

(* The same of execution.                                                  *)
LEMMA ExecutionLogged ==
  ASSUME log \in AuditTrail, NEW from, NEW to \in ExecutionStatus
  PROVE  [log EXCEPT !.execution = Logged(@, from, to)] \in AuditTrail
<1>1. Logged(log.execution, from, to) \in Trail(ExecutionStatus)
  BY LoggedType DEF AuditTrail
<1> QED BY <1>1 DEF AuditTrail

(* The same of publication.                                                *)
LEMMA PublicationLogged ==
  ASSUME log \in AuditTrail, NEW from, NEW to \in PublicationStatus
  PROVE  [log EXCEPT !.publication = Logged(@, from, to)] \in AuditTrail
<1>1. Logged(log.publication, from, to) \in Trail(PublicationStatus)
  BY LoggedType DEF AuditTrail
<1> QED BY <1>1 DEF AuditTrail

----------------------------------------------------------------------------
(* The type invariant, one lemma per group of actions.                     *)
USE DEF PreparationStatus, ExecutionStatus, PublicationStatus

(* Skipping the execution of a failed preparation.                         *)
LEMMA SkipExecutionType ==
  ASSUME TypeOK, SkipExecution, preparation' \in PreparationRow
  PROVE  TypeOK'
<1>1. execution' \in ExecutionRow
  BY DEF TypeOK, ExecutionRow, SkipExecution
<1>2. /\ Logged(log.preparation, "preparing", "failed") \in Trail(PreparationStatus)
      /\ Logged(log.execution, "pending", "skipped") \in Trail(ExecutionStatus)
  BY LoggedType DEF TypeOK, AuditTrail
<1>3. log' \in AuditTrail
  BY <1>2, AbandonedType DEF AuditTrail, SkipExecution
<1>4. notices' \in NoticeRows
  BY QueuedNotices DEF TypeOK, SkipExecution
<1> QED BY <1>1, <1>3, <1>4, AbandonedType DEF TypeOK, SkipExecution

(* The three ways a stale preparation is concluded.                        *)
LEMMA ExpireStaleType ==
  ASSUME TypeOK, ExpireStale
  PROVE  TypeOK'
<1>1. CASE LapsePreparation
  <2>1. preparation' \in PreparationRow
    BY <1>1, ReleasedPreparation DEF TypeOK, PreparationRow, LapsePreparation
  <2>2. log' \in AuditTrail
    BY <1>1, PreparationLogged DEF TypeOK, LapsePreparation
  <2> QED BY <1>1, <2>1, <2>2 DEF TypeOK, LapsePreparation
<1>2. CASE ExhaustPreparation
  <2>1. preparation' \in PreparationRow
    BY <1>2, ReleasedPreparation DEF TypeOK, PreparationRow, ExhaustPreparation
  <2> QED BY <1>2, <2>1, SkipExecutionType DEF ExhaustPreparation
<1>3. CASE DisconnectPreparation
  <2>1. preparation' \in PreparationRow
    BY <1>3, ReleasedPreparation DEF TypeOK, DisconnectPreparation
  <2>2. log' \in AuditTrail
    BY <1>3, PreparationLogged DEF TypeOK, DisconnectPreparation
  <2>3. notices' \in NoticeRows
    BY <1>3, QueuedNotices DEF TypeOK, DisconnectPreparation
  <2> QED BY <1>3, <2>1, <2>2, <2>3 DEF TypeOK, DisconnectPreparation
<1> QED BY <1>1, <1>2, <1>3 DEF ExpireStale

(* Preparation and the bundles it reserves.                                *)
LEMMA PreparationStepType ==
  ASSUME TypeOK, PreparationStep
  PROVE  TypeOK'
<1>1. ASSUME NEW n \in Fresh, ClaimPreparation(n) PROVE TypeOK'
  <2>1. preparation.attempts + 1 \in Nat
    BY DEF TypeOK, PreparationRow
  <2>2. preparation' \in PreparationRow
    BY <1>1, <2>1 DEF TypeOK, PreparationRow, ClaimPreparation, Fresh
  <2>3. log' \in AuditTrail
    BY <1>1, PreparationLogged DEF TypeOK, ClaimPreparation
  <2> QED BY <1>1, <2>2, <2>3 DEF TypeOK, ClaimPreparation
<1>2. CASE ExpireStale
  BY <1>2, ExpireStaleType
<1>3. ASSUME NEW t \in Tokens, CheckpointInput(t) PROVE TypeOK'
  BY <1>3 DEF TypeOK, PreparationRow, CheckpointInput
<1>4. ASSUME NEW t \in Tokens, NEW due \in {"now", "later"}, RetryPreparation(t, due)
      PROVE  TypeOK'
  <2>1. preparation' \in PreparationRow
    BY <1>4, ReleasedPreparation DEF TypeOK, PreparationRow, RetryPreparation
  <2>2. log' \in AuditTrail
    BY <1>4, PreparationLogged DEF TypeOK, RetryPreparation
  <2> QED BY <1>4, <2>1, <2>2 DEF TypeOK, RetryPreparation
<1>5. ASSUME NEW t \in Tokens, FailPreparation(t) PROVE TypeOK'
  <2>1. preparation' \in PreparationRow
    BY <1>5, ReleasedPreparation DEF TypeOK, FailPreparation
  <2> QED BY <1>5, <2>1, SkipExecutionType DEF FailPreparation
<1>6. ASSUME NEW t \in Tokens, FailPreparationUncertain(t) PROVE TypeOK'
  <2>1. preparation' \in PreparationRow
    BY <1>6, ReleasedPreparation DEF TypeOK, FailPreparationUncertain
  <2>2. execution' \in ExecutionRow
    BY <1>6 DEF TypeOK, ExecutionRow, FailPreparationUncertain
  <2>3. /\ Logged(log.preparation, "preparing", "failed") \in Trail(PreparationStatus)
        /\ Logged(log.execution, "pending", "uncertain") \in Trail(ExecutionStatus)
    BY LoggedType DEF TypeOK, AuditTrail
  <2>4. log' \in AuditTrail
    BY <1>6, <2>3 DEF TypeOK, AuditTrail, FailPreparationUncertain
  <2> QED BY <1>6, <2>1, <2>2, <2>4 DEF TypeOK, FailPreparationUncertain
<1>7. ASSUME NEW t \in Tokens, NEW b \in Bundles, ReserveBundle(t, b) PROVE TypeOK'
  BY <1>7 DEF TypeOK, CandidateStatus, ReserveBundle
<1>8. ASSUME NEW t \in Tokens, NEW b \in Bundles, NEW status \in {"present", "abandoned"},
             SettleBundle(t, b, status)
      PROVE  TypeOK'
  BY <1>8 DEF TypeOK, CandidateStatus, SettleBundle
<1> QED BY <1>1, <1>2, <1>3, <1>4, <1>5, <1>6, <1>7, <1>8 DEF PreparationStep

(* Ending an execution without a result.                                   *)
LEMMA EndExecutionType ==
  ASSUME TypeOK, EndExecution
  PROVE  TypeOK'
<1>1. execution' \in ExecutionRow
  BY ReleasedExecution DEF TypeOK, EndExecution
<1>2. Logged(log.execution, execution.status, "failed") \in Trail(ExecutionStatus)
  BY LoggedType DEF TypeOK, AuditTrail
<1>3. log' \in AuditTrail
  BY <1>2, AbandonedType DEF TypeOK, AuditTrail, EndExecution
<1>4. notices' \in NoticeRows
  BY QueuedNotices DEF TypeOK, EndExecution
<1> QED BY <1>1, <1>3, <1>4, AbandonedType DEF TypeOK, EndExecution

(* Submission and submission recovery.                                     *)
LEMMA SubmissionStepType ==
  ASSUME TypeOK, SubmissionStep
  PROVE  TypeOK'
<1>1. ASSUME NEW n \in Fresh, ClaimSubmissionRecovery(n) PROVE TypeOK'
  <2>1. execution' \in ExecutionRow
    BY <1>1 DEF TypeOK, ExecutionRow, ClaimSubmissionRecovery, Fresh
  <2>2. log' \in AuditTrail
    BY <1>1, ExecutionLogged DEF TypeOK, ClaimSubmissionRecovery
  <2> QED BY <1>1, <2>1, <2>2 DEF TypeOK, ClaimSubmissionRecovery
<1>2. CASE DisconnectExhausted
  <2>1. execution' \in ExecutionRow
    BY <1>2, ReleasedExecution DEF TypeOK, DisconnectExhausted
  <2>2. log' \in AuditTrail
    BY <1>2, ExecutionLogged DEF TypeOK, DisconnectExhausted
  <2>3. notices' \in NoticeRows
    BY <1>2, QueuedNotices DEF TypeOK, DisconnectExhausted
  <2> QED BY <1>2, <2>1, <2>2, <2>3 DEF TypeOK, DisconnectExhausted
<1>3. ASSUME NEW t \in Tokens, NEW b \in Bundles, SavePreparedSubmission(t, b)
      PROVE  TypeOK'
  <2>1. execution' \in ExecutionRow /\ publication' \in PublicationRow
    BY <1>3 DEF TypeOK, ExecutionRow, PublicationRow, SavePreparedSubmission
  <2>2. candidates' \in [Bundles -> CandidateStatus]
    BY <1>3 DEF TypeOK, CandidateStatus, SavePreparedSubmission
  <2> QED BY <1>3, <2>1, <2>2 DEF TypeOK, SavePreparedSubmission
<1>4. ASSUME NEW t \in Tokens, NEW b \in Bundles, MarkQueued(t, b) PROVE TypeOK'
  <2>1. preparation' \in PreparationRow
    BY <1>4, ReleasedPreparation DEF TypeOK, MarkQueued
  <2>2. execution' \in ExecutionRow /\ publication' \in PublicationRow
    BY <1>4 DEF TypeOK, ExecutionRow, PublicationRow, MarkQueued
  <2>3. /\ Logged(log.preparation, "preparing", "submitted") \in Trail(PreparationStatus)
        /\ Logged(log.execution, "pending", "queued") \in Trail(ExecutionStatus)
    BY LoggedType DEF TypeOK, AuditTrail
  <2>4. log' \in AuditTrail
    BY <1>4, <2>3 DEF TypeOK, AuditTrail, MarkQueued
  <2> QED BY <1>4, <2>1, <2>2, <2>4 DEF TypeOK, MarkQueued
<1>5. ASSUME NEW t \in Tokens, CompleteSubmissionRecovery(t) PROVE TypeOK'
  <2>1. execution' \in ExecutionRow
    BY <1>5, ReleasedExecution DEF TypeOK, CompleteSubmissionRecovery
  <2>2. log' \in AuditTrail
    BY <1>5, ExecutionLogged DEF TypeOK, CompleteSubmissionRecovery
  <2> QED BY <1>5, <2>1, <2>2 DEF TypeOK, CompleteSubmissionRecovery
<1>6. ASSUME NEW t \in Tokens, RecordUnknownRecoveryOutcome(t) PROVE TypeOK'
  <2>1. execution.attempts + 1 \in Nat
    BY DEF TypeOK, ExecutionRow
  <2>2. execution' \in ExecutionRow
    BY <1>6, <2>1 DEF TypeOK, ExecutionRow, RecordUnknownRecoveryOutcome
  <2> QED BY <1>6, <2>2 DEF TypeOK, RecordUnknownRecoveryOutcome
<1>7. ASSUME NEW t \in Tokens, FailSubmissionRecovery(t) PROVE TypeOK'
  BY <1>7, EndExecutionType DEF FailSubmissionRecovery
<1> QED BY <1>1, <1>2, <1>3, <1>4, <1>5, <1>6, <1>7 DEF SubmissionStep

(* What the provider reports.                                              *)
LEMMA ObservationStepType ==
  ASSUME TypeOK, ObservationStep
  PROVE  TypeOK'
<1>1. CASE MarkRunning
  <2>1. execution' \in ExecutionRow
    BY <1>1 DEF TypeOK, ExecutionRow, MarkRunning
  <2>2. log' \in AuditTrail
    BY <1>1, ExecutionLogged DEF TypeOK, MarkRunning
  <2> QED BY <1>1, <2>1, <2>2 DEF TypeOK, MarkRunning
<1>2. CASE RecordExecutionSuccess
  <2>1. execution' \in ExecutionRow
    BY <1>2 DEF TypeOK, ExecutionRow, RecordExecutionSuccess
  <2>2. log' \in AuditTrail
    BY <1>2, ExecutionLogged DEF TypeOK, RecordExecutionSuccess
  <2> QED BY <1>2, <2>1, <2>2 DEF TypeOK, RecordExecutionSuccess
<1>3. CASE FailExecution
  BY <1>3, EndExecutionType DEF FailExecution
<1> QED BY <1>1, <1>2, <1>3 DEF ObservationStep

(* Deriving the axis status from well-typed steps.                         *)
LEMMA DerivePublicationType ==
  ASSUME TypeOK, NEW newSteps \in [Steps -> StepRow], DerivePublication(newSteps),
         UNCHANGED <<preparation, execution, candidates>>
  PROVE  TypeOK'
<1>1. publication' \in PublicationRow
  BY DerivedType DEF TypeOK, PublicationRow, DerivePublication
<1>2. log' \in AuditTrail
  BY DerivedType DEF TypeOK, AuditTrail, DerivePublication
<1> QED BY <1>1, <1>2, DerivedType DEF TypeOK, DerivePublication

(* A failed step is a step.                                                *)
LEMMA FailedStepType ==
  ASSUME NEW step \in StepRow, NEW retry
  PROVE  FailedStep(step, retry) \in StepRow
<1>1. step.recoveries + 1 \in Nat
  BY DEF StepRow
<1> QED BY <1>1 DEF FailedStep, StepRow, StepStatus

(* Publication and its steps.                                              *)
LEMMA PublicationStepType ==
  ASSUME TypeOK, PublicationStep
  PROVE  TypeOK'
<1>1. ASSUME NEW n \in Fresh, ClaimPublication(n) PROVE TypeOK'
  <2>1. publication' \in PublicationRow
    BY <1>1 DEF TypeOK, PublicationRow, ClaimPublication, Fresh
  <2>2. log' \in AuditTrail
    BY <1>1, PublicationLogged DEF TypeOK, ClaimPublication
  <2> QED BY <1>1, <2>1, <2>2 DEF TypeOK, ClaimPublication
<1>2. ASSUME NEW t \in Tokens, RenewPublication(t) PROVE TypeOK'
  BY <1>2 DEF TypeOK, PublicationRow, RenewPublication
<1>3. ASSUME NEW t \in Tokens, InitializePublicationSteps(t) PROVE TypeOK'
  BY <1>3 DEF TypeOK, StepRow, StepStatus, InitializePublicationSteps
<1>4. ASSUME NEW t \in Tokens, CompletePublication(t) PROVE TypeOK'
  <2>1. publication' \in PublicationRow
    BY <1>4, ReleasedPublication DEF TypeOK, CompletePublication
  <2>2. log' \in AuditTrail
    BY <1>4, PublicationLogged DEF TypeOK, CompletePublication
  <2> QED BY <1>4, <2>1, <2>2 DEF TypeOK, CompletePublication
<1>5. ASSUME NEW t \in Tokens, NEW retry \in BOOLEAN, FailPublication(t, retry)
      PROVE  TypeOK'
  <2>1. publication' \in PublicationRow
    BY <1>5, ReleasedPublication DEF TypeOK, FailPublication
  <2>2. log' \in AuditTrail
    BY <1>5, PublicationLogged DEF TypeOK, FailPublication
  <2>3. notices' \in NoticeRows
    BY <1>5, QueuedNotices DEF TypeOK, FailPublication
  <2> QED BY <1>5, <2>1, <2>2, <2>3 DEF TypeOK, FailPublication
<1>6. ASSUME NEW t \in Tokens, NEW s \in Steps, ClaimPublicationStep(t, s) PROVE TypeOK'
  <2>1. steps[s].attempts + 1 \in Nat
    BY DEF TypeOK, StepRow
  <2>2. steps' \in [Steps -> StepRow]
    BY <1>6, <2>1 DEF TypeOK, StepRow, StepStatus, ClaimPublicationStep
  <2> QED BY <1>6, <2>2 DEF TypeOK, ClaimPublicationStep
<1>7. ASSUME NEW t \in Tokens, NEW s \in Steps, RefuseStepClaim(t, s) PROVE TypeOK'
  <2>1. [steps EXCEPT ![s].status = "uncertain", ![s].by = NoToken] \in [Steps -> StepRow]
    BY DEF TypeOK, StepRow, StepStatus
  <2> QED BY <1>7, <2>1, DerivePublicationType DEF TypeOK, RefuseStepClaim
<1>8. ASSUME NEW t \in Tokens, NEW s \in Steps, NEW outcome \in {"succeeded", "terminal_failed"},
             SettleExhaustedStep(t, s, outcome)
      PROVE  TypeOK'
  <2>1. [steps EXCEPT ![s].status = outcome, ![s].by = NoToken] \in [Steps -> StepRow]
    BY DEF TypeOK, StepRow, StepStatus
  <2> QED BY <1>8, <2>1, DerivePublicationType DEF SettleExhaustedStep
<1>9. ASSUME NEW t \in Tokens, NEW s \in Steps, CompletePublicationStep(t, s) PROVE TypeOK'
  BY <1>9, ZenonT(30) DEF TypeOK, StepRow, StepStatus, CompletePublicationStep
<1>10. ASSUME NEW t \in Tokens, NEW s \in Steps, NEW retry \in {"yes", "unstated"},
              FailPublicationStep(t, s, retry)
       PROVE  TypeOK'
  <2>1. [steps EXCEPT ![s] = FailedStep(steps[s], retry)] \in [Steps -> StepRow]
    BY FailedStepType DEF TypeOK
  <2> QED BY <1>10, <2>1, DerivePublicationType DEF FailPublicationStep
<1>11. ASSUME NEW t \in Tokens, NEW s \in Steps, FailPublicationStepTerminally(t, s)
       PROVE  TypeOK'
  <2> DEFINE newSteps == [steps EXCEPT ![s] = FailedStep(steps[s], "no")]
  <2>1. newSteps \in [Steps -> StepRow]
    BY FailedStepType DEF TypeOK
  <2>2. publication' \in PublicationRow
    BY <1>11, ReleasedPublication DEF TypeOK, FailPublicationStepTerminally
  <2>3. notices' \in NoticeRows
    BY <1>11, DerivedType DEF FailPublicationStepTerminally, NoticeRows, NoticeStatus
  <2>4. Logged(DerivationLogged(newSteps), Derivation(newSteps), "failed")
          \in Trail(PublicationStatus)
    BY DerivedType, LoggedType
  <2>5. log' \in AuditTrail
    BY <1>11, <2>4 DEF TypeOK, AuditTrail, FailPublicationStepTerminally
  <2> QED BY <1>11, <2>1, <2>2, <2>3, <2>5 DEF TypeOK, FailPublicationStepTerminally
<1> QED BY <1>1, <1>2, <1>3, <1>4, <1>5, <1>6, <1>7, <1>8, <1>9, <1>10, <1>11
        DEF PublicationStep

(* Operator decisions.                                                     *)
LEMMA OperatorStepType ==
  ASSUME TypeOK, OperatorStep
  PROVE  TypeOK'
<1>1. CASE ResumePreparation
  <2>1. preparation' \in PreparationRow
    BY <1>1 DEF TypeOK, PreparationRow, ResumePreparation
  <2>2. log' \in AuditTrail
    BY <1>1, PreparationLogged DEF TypeOK, ResumePreparation
  <2>3. notices' \in NoticeRows
    BY <1>1, SupersededNotices DEF TypeOK, ResumePreparation
  <2> QED BY <1>1, <2>1, <2>2, <2>3 DEF TypeOK, ResumePreparation
<1>2. CASE ResumeExecution
  <2>1. execution' \in ExecutionRow
    BY <1>2, ReleasedExecution DEF TypeOK, ExecutionRow, ResumeExecution
  <2>2. log' \in AuditTrail
    BY <1>2, ExecutionLogged DEF TypeOK, ResumeExecution
  <2>3. notices' \in NoticeRows
    BY <1>2, SupersededNotices DEF TypeOK, ResumeExecution
  <2> QED BY <1>2, <2>1, <2>2, <2>3 DEF TypeOK, ResumeExecution
<1>3. CASE ResumePublication
  <2>1. publication' \in PublicationRow
    BY <1>3, ReleasedPublication DEF TypeOK, ResumePublication
  <2>2. steps' \in [Steps -> StepRow]
    BY <1>3 DEF TypeOK, StepRow, StepStatus, ResumePublication
  <2>3. log' \in AuditTrail
    BY <1>3, PublicationLogged DEF TypeOK, ResumePublication
  <2>4. notices' \in NoticeRows
    BY <1>3, SupersededNotices DEF TypeOK, ResumePublication
  <2> QED BY <1>3, <2>1, <2>2, <2>3, <2>4 DEF TypeOK, ResumePublication
<1>4. CASE GiveUpPreparation
  <2>1. preparation' \in PreparationRow
    BY <1>4, ReleasedPreparation DEF TypeOK, GiveUpPreparation
  <2>2. Logged(log.preparation, "disconnected", "failed") \in Trail(PreparationStatus)
    BY LoggedType DEF TypeOK, AuditTrail
  <2>3. log' \in AuditTrail
    BY <1>4, <2>2, AbandonedType DEF TypeOK, AuditTrail, GiveUpPreparation
  <2>4. notices' \in NoticeRows
    BY <1>4, QueuedNotices DEF TypeOK, GiveUpPreparation
  <2> QED BY <1>4, <2>1, <2>3, <2>4, AbandonedType DEF TypeOK, GiveUpPreparation
<1>5. CASE GiveUpExecution
  BY <1>5, EndExecutionType DEF GiveUpExecution
<1>6. CASE GiveUpPublication
  <2>1. publication' \in PublicationRow
    BY <1>6, ReleasedPublication DEF TypeOK, GiveUpPublication
  <2>2. log' \in AuditTrail
    BY <1>6, PublicationLogged DEF TypeOK, GiveUpPublication
  <2>3. notices' \in NoticeRows
    BY <1>6, QueuedNotices DEF TypeOK, GiveUpPublication
  <2> QED BY <1>6, <2>1, <2>2, <2>3 DEF TypeOK, GiveUpPublication
<1>7. CASE AbandonBlockedPreparation
  <2>1. preparation' \in PreparationRow
    BY <1>7, ReleasedPreparation DEF TypeOK, AbandonBlockedPreparation
  <2>2. execution' \in ExecutionRow
    BY <1>7, ReleasedExecution DEF TypeOK, AbandonBlockedPreparation
  <2>3. /\ Logged(log.preparation, "disconnected", "failed") \in Trail(PreparationStatus)
        /\ Logged(log.execution, execution.status, "failed") \in Trail(ExecutionStatus)
        /\ log.execution \in Trail(ExecutionStatus)
    BY LoggedType DEF TypeOK, AuditTrail
  <2>4. log' \in AuditTrail
    BY <1>7, <2>3, AbandonedType DEF AuditTrail, AbandonBlockedPreparation
  <2>5. notices' \in NoticeRows
    BY <1>7, QueuedNotices DEF TypeOK, AbandonBlockedPreparation
  <2> QED BY <1>7, <2>1, <2>2, <2>4, <2>5, AbandonedType DEF TypeOK, AbandonBlockedPreparation
<1> QED BY <1>1, <1>2, <1>3, <1>4, <1>5, <1>6, <1>7 DEF OperatorStep

(* The passing of time.                                                    *)
LEMMA ClockType ==
  ASSUME TypeOK, Clock
  PROVE  TypeOK'
<1>1. CASE PreparationLeaseExpires
  BY <1>1 DEF TypeOK, PreparationRow, PreparationLeaseExpires
<1>2. CASE BackoffElapses
  BY <1>2 DEF TypeOK, PreparationRow, BackoffElapses
<1>3. CASE RecoveryLeaseExpires
  BY <1>3 DEF TypeOK, ExecutionRow, RecoveryLeaseExpires
<1>4. CASE PublicationLeaseExpires
  BY <1>4 DEF TypeOK, PublicationRow, PublicationLeaseExpires
<1> QED BY <1>1, <1>2, <1>3, <1>4 DEF Clock

(* An admitted run is well-typed.                                          *)
LEMMA InitType == Init => TypeOK
<1> SUFFICES ASSUME NEW t \in Tokens, InsertedRun(t) PROVE TypeOK
  BY DEF Init
<1>1. preparation \in PreparationRow /\ execution \in ExecutionRow
  BY DEF InsertedRun, PreparationRow, ExecutionRow
<1>2. publication \in PublicationRow /\ steps \in [Steps -> StepRow]
  BY DEF InsertedRun, PublicationRow, StepRow, StepStatus
<1>3. candidates \in [Bundles -> CandidateStatus] /\ notices \in NoticeRows
  BY DEF InsertedRun, CandidateStatus, NoticeRows, NoticeStatus
<1>4. log \in AuditTrail
  BY DEF InsertedRun, AuditTrail, Trail
<1> QED BY <1>1, <1>2, <1>3, <1>4 DEF TypeOK

(* Every step of the stores, and stuttering.                               *)
LEMMA NextType == TypeOK /\ [Next]_runVars => TypeOK'
<1> SUFFICES ASSUME TypeOK, [Next]_runVars PROVE TypeOK'
  OBVIOUS
<1>1. CASE Next
  BY <1>1, PreparationStepType, SubmissionStepType, ObservationStepType,
     PublicationStepType, OperatorStepType, ClockType DEF Next
<1>2. CASE UNCHANGED runVars
  BY <1>2 DEF runVars, TypeOK
<1> QED BY <1>1, <1>2

(* Whoever calls which store when, with whatever token and for any number  *)
(* of tokens, bundles and steps and any budgets, every row stays one its   *)
(* table admits: no transition writes a status of another axis, and no     *)
(* derived publication status falls outside its enumeration.               *)
THEOREM RowsAreTyped == Spec => []TypeOK
<1>1. Init => TypeOK
  BY InitType
<1>2. TypeOK /\ [Next]_runVars => TypeOK'
  BY NextType
<1> QED BY <1>1, <1>2, PTL DEF Spec

-----------------------------------------------------------------------------
USE DEF Axis, NoticeKind

(* Inductive: that a preparation is never parked is what keeps the         *)
(* decisions about parked preparations from contradicting the other axes.  *)
AxesInv == PreparationNeverContradicted /\ AxesAgree

(* Abandoning skips a publication in flight and no other.                  *)
LEMMA AbandonedStatus ==
  ASSUME TypeOK, AbandonInFlightPublication
  PROVE  publication'.status = IF InFlightPublication THEN "skipped" ELSE publication.status
  BY DEF TypeOK, PublicationRow, AbandonInFlightPublication

(* Deriving the status neither starts nor ends the ownership of the axis.  *)
LEMMA DerivedOwnership ==
  ASSUME TypeOK, NEW newSteps, DerivePublication(newSteps)
  PROVE  /\ publication'.status \in OwnedStatus <=> publication.status \in OwnedStatus
         /\ publication.status \notin OwnedStatus => publication'.status = publication.status
         /\ publication'.token = publication.token
         /\ publication'.lease = publication.lease
  BY DEF TypeOK, PublicationRow, DerivePublication, Derivation, DerivedStatus,
       OwnedStatus

(* A failed preparation takes execution and publication with it.           *)
LEMMA SkipExecutionAxes ==
  ASSUME TypeOK, AxesInv, SkipExecution, preparation'.status = "failed"
  PROVE  AxesInv'
  BY AbandonedStatus DEF TypeOK, ExecutionRow, AxesInv, PreparationNeverContradicted,
       AxesAgree,
     SkipExecution, InFlightPublication

(* An execution without a result takes publication with it.                *)
LEMMA EndExecutionAxes ==
  ASSUME TypeOK, AxesInv, EndExecution,
         execution.status \in {"uncertain", "disconnected", "queued", "running"}
  PROVE  AxesInv'
  BY AbandonedStatus DEF TypeOK, ExecutionRow, AxesInv, PreparationNeverContradicted,
       AxesAgree,
     EndExecution, Released, InFlightPublication

(* The axes agree after: the transactions of preparation and of its        *)
(* bundles.                                                                *)
LEMMA PreparationStepAxes ==
  ASSUME TypeOK, AxesInv, PreparationStep
  PROVE  AxesInv'
<1>1. CASE ExhaustPreparation
  BY <1>1, SkipExecutionAxes DEF TypeOK, PreparationRow, ExhaustPreparation, Released
<1>2. ASSUME NEW t \in Tokens, FailPreparation(t) PROVE AxesInv'
  BY <1>2, SkipExecutionAxes DEF TypeOK, PreparationRow, FailPreparation, Released
<1> USE DEF AxesInv, TypeOK, PreparationRow, ExecutionRow, PublicationRow,
            PreparationNeverContradicted, AxesAgree, OwnedStatus
<1>3. ASSUME NEW n \in Fresh, ClaimPreparation(n) PROVE AxesInv'
  BY <1>3 DEF ClaimPreparation
<1>4. CASE LapsePreparation
  BY <1>4 DEF LapsePreparation, StalePreparation, Released
<1>5. CASE DisconnectPreparation
  BY <1>5 DEF DisconnectPreparation, StalePreparation, Released
<1>6. ASSUME NEW t \in Tokens, CheckpointInput(t) PROVE AxesInv'
  BY <1>6 DEF CheckpointInput
<1>7. ASSUME NEW t \in Tokens, NEW due \in {"now", "later"}, RetryPreparation(t, due)
      PROVE  AxesInv'
  BY <1>7 DEF RetryPreparation, OwnsPreparation, Released
<1>8. ASSUME NEW t \in Tokens, FailPreparationUncertain(t) PROVE AxesInv'
  BY <1>8 DEF FailPreparationUncertain, OwnsPreparation, Released
<1>9. ASSUME NEW t \in Tokens, NEW b \in Bundles, ReserveBundle(t, b)
      PROVE  AxesInv'
  BY <1>9 DEF ReserveBundle
<1>10. ASSUME NEW t \in Tokens, NEW b \in Bundles, NEW status \in {"present",
             "abandoned"}, SettleBundle(t, b, status)
      PROVE  AxesInv'
  BY <1>10 DEF SettleBundle
<1> QED BY <1>1, <1>2, <1>3, <1>4, <1>5, <1>6, <1>7, <1>8, <1>9, <1>10
        DEF PreparationStep, ExpireStale

(* The axes agree after: the transactions of submission and of its         *)
(* recovery.                                                               *)
LEMMA SubmissionStepAxes ==
  ASSUME TypeOK, AxesInv, SubmissionStep
  PROVE  AxesInv'
<1>1. ASSUME NEW t \in Tokens, FailSubmissionRecovery(t) PROVE AxesInv'
  BY <1>1, EndExecutionAxes DEF FailSubmissionRecovery, OwnsRecovery
<1> USE DEF AxesInv, TypeOK, PreparationRow, ExecutionRow, PublicationRow,
            PreparationNeverContradicted, AxesAgree, OwnedStatus
<1>2. ASSUME NEW n \in Fresh, ClaimSubmissionRecovery(n) PROVE AxesInv'
  BY <1>2 DEF ClaimSubmissionRecovery, FreeRecovery
<1>3. CASE DisconnectExhausted
  BY <1>3 DEF DisconnectExhausted, FreeRecovery, Released
<1>4. ASSUME NEW t \in Tokens, NEW b \in Bundles, SavePreparedSubmission(t, b)
      PROVE  AxesInv'
  BY <1>4 DEF SavePreparedSubmission
<1>5. ASSUME NEW t \in Tokens, NEW b \in Bundles, MarkQueued(t, b) PROVE AxesInv'
  BY <1>5 DEF MarkQueued, OwnsPreparation, Released
<1>6. ASSUME NEW t \in Tokens, CompleteSubmissionRecovery(t) PROVE AxesInv'
  BY <1>6 DEF CompleteSubmissionRecovery, OwnsRecovery, Released
<1>7. ASSUME NEW t \in Tokens, RecordUnknownRecoveryOutcome(t) PROVE AxesInv'
  BY <1>7 DEF RecordUnknownRecoveryOutcome, OwnsRecovery
<1> QED BY <1>1, <1>2, <1>3, <1>4, <1>5, <1>6, <1>7 DEF SubmissionStep

(* The axes agree after: what the provider reports.                        *)
LEMMA ObservationStepAxes ==
  ASSUME TypeOK, AxesInv, ObservationStep
  PROVE  AxesInv'
<1>1. CASE FailExecution
  BY <1>1, EndExecutionAxes DEF FailExecution, ActiveExecution
<1> USE DEF AxesInv, TypeOK, PreparationRow, ExecutionRow, PublicationRow,
            PreparationNeverContradicted, AxesAgree, OwnedStatus
<1>2. CASE MarkRunning
  BY <1>2 DEF MarkRunning
<1>3. CASE RecordExecutionSuccess
  BY <1>3 DEF RecordExecutionSuccess, ActiveExecution
<1> QED BY <1>1, <1>2, <1>3 DEF ObservationStep

(* The axes agree after: the transactions of publication and of its steps. *)
LEMMA PublicationStepAxes ==
  ASSUME TypeOK, AxesInv, PublicationStep
  PROVE  AxesInv'
<1>1. ASSUME NEW t \in Tokens, NEW s \in Steps, RefuseStepClaim(t, s)
      PROVE  AxesInv'
  BY <1>1, DerivedOwnership DEF AxesInv, PreparationNeverContradicted, AxesAgree,
       OwnedStatus, RefuseStepClaim
<1>2. ASSUME NEW t \in Tokens, NEW s \in Steps, NEW outcome \in {"succeeded",
             "terminal_failed"}, SettleExhaustedStep(t, s, outcome)
      PROVE  AxesInv'
  BY <1>2, DerivedOwnership DEF AxesInv, PreparationNeverContradicted, AxesAgree,
       OwnedStatus, SettleExhaustedStep
<1>3. ASSUME NEW t \in Tokens, NEW s \in Steps, NEW retry \in {"yes", "unstated"},
             FailPublicationStep(t, s, retry)
      PROVE  AxesInv'
  BY <1>3, DerivedOwnership DEF AxesInv, PreparationNeverContradicted, AxesAgree,
       OwnedStatus, FailPublicationStep
<1> USE DEF AxesInv, TypeOK, PreparationRow, ExecutionRow, PublicationRow,
            PreparationNeverContradicted, AxesAgree, OwnedStatus
<1>4. ASSUME NEW n \in Fresh, ClaimPublication(n) PROVE AxesInv'
  BY <1>4 DEF ClaimPublication, ClaimablePublication
<1>5. ASSUME NEW t \in Tokens, RenewPublication(t) PROVE AxesInv'
  BY <1>5 DEF RenewPublication
<1>6. ASSUME NEW t \in Tokens, InitializePublicationSteps(t) PROVE AxesInv'
  BY <1>6 DEF InitializePublicationSteps
<1>7. ASSUME NEW t \in Tokens, CompletePublication(t) PROVE AxesInv'
  BY <1>7 DEF CompletePublication, OwnsPublication, Released
<1>8. ASSUME NEW t \in Tokens, NEW retry \in BOOLEAN, FailPublication(t, retry)
      PROVE  AxesInv'
  BY <1>8 DEF FailPublication, OwnsPublication, Released
<1>9. ASSUME NEW t \in Tokens, NEW s \in Steps, ClaimPublicationStep(t, s)
      PROVE  AxesInv'
  BY <1>9 DEF ClaimPublicationStep
<1>10. ASSUME NEW t \in Tokens, NEW s \in Steps, CompletePublicationStep(t, s)
      PROVE  AxesInv'
  BY <1>10 DEF CompletePublicationStep
<1>11. ASSUME NEW t \in Tokens, NEW s \in Steps, FailPublicationStepTerminally(t, s)
      PROVE  AxesInv'
  BY <1>11 DEF FailPublicationStepTerminally, OwnsPublication, Released
<1> QED BY <1>1, <1>2, <1>3, <1>4, <1>5, <1>6, <1>7, <1>8, <1>9, <1>10, <1>11
        DEF PublicationStep

(* The axes agree after: the decisions of an operator.                     *)
LEMMA OperatorStepAxes ==
  ASSUME TypeOK, AxesInv, OperatorStep
  PROVE  AxesInv'
<1>1. CASE GiveUpExecution
  BY <1>1, EndExecutionAxes DEF GiveUpExecution
<1> USE DEF AxesInv, TypeOK, PreparationRow, ExecutionRow, PublicationRow,
            PreparationNeverContradicted, AxesAgree, OwnedStatus
<1>2. CASE ResumePreparation
  BY <1>2 DEF ResumePreparation
<1>3. CASE ResumeExecution
  BY <1>3 DEF ResumeExecution, Released
<1>4. CASE ResumePublication
  BY <1>4 DEF ResumePublication, Released
<1>5. CASE GiveUpPreparation
  BY <1>5 DEF GiveUpPreparation
<1>6. CASE GiveUpPublication
  BY <1>6 DEF GiveUpPublication, Released
<1>7. CASE AbandonBlockedPreparation
  BY <1>7 DEF AbandonBlockedPreparation, Released
<1> QED BY <1>1, <1>2, <1>3, <1>4, <1>5, <1>6, <1>7 DEF OperatorStep

(* The axes agree after: the passing of time.                              *)
LEMMA ClockAxes ==
  ASSUME TypeOK, AxesInv, Clock
  PROVE  AxesInv'
<1> USE DEF AxesInv, TypeOK, PreparationRow, ExecutionRow, PublicationRow,
            PreparationNeverContradicted, AxesAgree, OwnedStatus
<1>1. CASE PreparationLeaseExpires
  BY <1>1 DEF PreparationLeaseExpires
<1>2. CASE BackoffElapses
  BY <1>2 DEF BackoffElapses
<1>3. CASE RecoveryLeaseExpires
  BY <1>3 DEF RecoveryLeaseExpires
<1>4. CASE PublicationLeaseExpires
  BY <1>4 DEF PublicationLeaseExpires
<1> QED BY <1>1, <1>2, <1>3, <1>4 DEF Clock
(* A newly admitted run is consistent.                                     *)
LEMMA InitAxes == Init => AxesInv
  BY DEF Init, InsertedRun, AxesInv, PreparationNeverContradicted, AxesAgree

(* Every step of the stores, and stuttering.                               *)
LEMMA NextAxes == TypeOK /\ AxesInv /\ [Next]_runVars => AxesInv'
<1> SUFFICES ASSUME TypeOK, AxesInv, [Next]_runVars PROVE AxesInv'
  OBVIOUS
<1>1. CASE Next
  BY <1>1, PreparationStepAxes, SubmissionStepAxes, ObservationStepAxes,
       PublicationStepAxes, OperatorStepAxes, ClockAxes DEF Next
<1>2. CASE UNCHANGED runVars
  BY <1>2 DEF runVars, AxesInv, PreparationNeverContradicted, AxesAgree
<1> QED BY <1>1, <1>2

(* Preparation, execution and publication never contradict each other,     *)
(* whoever calls which store in which order: no transaction compares all   *)
(* three rows, and the guards of each are enough together.                 *)
THEOREM AxesAlwaysAgree == Spec => []AxesAgree
<1>1. AxesInv => AxesAgree
  BY DEF AxesInv
<1> QED BY <1>1, InitAxes, NextAxes, RowsAreTyped, PTL DEF Spec

(* No store transaction ever brings a preparation into the state           *)
(* expireStale parks it for: only a writer outside the stores can.         *)
THEOREM PreparationIsNeverContradicted == Spec => []PreparationNeverContradicted
<1>1. AxesInv => PreparationNeverContradicted
  BY DEF AxesInv
<1> QED BY <1>1, InitAxes, NextAxes, RowsAreTyped, PTL DEF Spec

----------------------------------------------------------------------------
(* A notice that was queued and not superseded since.                      *)
Told(rows, axis, kind) == rows[axis][kind] \notin {"absent", "superseded"}

(* EndingsAreTold for runs whose preparation is not contradicted, in terms *)
(* of Told: stronger where it says whose notice an ending has.             *)
TellingInv ==
  /\ preparation.status = "failed" /\ execution.status = "skipped"
       => Told(notices, "preparation", "failure")
  /\ execution.status = "failed" => Told(notices, "execution", "failure")
  /\ publication.status = "failed" => Told(notices, "publication", "failure")
  /\ execution.status = "disconnected" => Told(notices, "execution", "attention")
  /\ publication.status = "disconnected" => Told(notices, "publication", "attention")

(* Queueing a notice tells one thing and unsays nothing.                   *)
LEMMA QueuedIsTold ==
  ASSUME notices \in NoticeRows, NEW kind \in NoticeKind, NEW axis \in Axis
  PROVE  /\ Told(QueueRunNotice(kind, axis), axis, kind)
         /\ \A a \in Axis, k \in NoticeKind :
              Told(notices, a, k) => Told(QueueRunNotice(kind, axis), a, k)
  BY DEF NoticeRows, QueueRunNotice, Told

(* Superseding unsays the attention notice of its axis only.               *)
LEMMA SupersededIsTold ==
  ASSUME notices \in NoticeRows, NEW axis \in Axis
  PROVE  \A a \in Axis, k \in NoticeKind :
           Told(notices, a, k) /\ ~(a = axis /\ k = "attention")
             => Told(SupersedeRunAttentionNotices(axis), a, k)
  BY DEF NoticeRows, SupersedeRunAttentionNotices, Told

(* A derivation that parks the publication tells the operator.             *)
LEMMA DerivedIsTold ==
  ASSUME TypeOK, NEW newSteps
  PROVE  /\ Derivation(newSteps) = "disconnected" /\ publication.status # "disconnected"
              => Told(DerivationNotices(newSteps), "publication", "attention")
         /\ \A a \in Axis, k \in NoticeKind :
              Told(notices, a, k) => Told(DerivationNotices(newSteps), a, k)
  BY QueuedIsTold DEF TypeOK, DerivationNotices

(* A failed preparation is told.                                           *)
LEMMA SkipExecutionTold ==
  ASSUME TypeOK, AxesInv, TellingInv, SkipExecution
  PROVE  TellingInv'
  BY AbandonedStatus, QueuedIsTold
     DEF TypeOK, ExecutionRow, AxesInv, AxesAgree, TellingInv, SkipExecution, InFlightPublication

(* A failed execution is told.                                             *)
LEMMA EndExecutionTold ==
  ASSUME TypeOK, TellingInv, EndExecution
  PROVE  TellingInv'
  BY AbandonedStatus, QueuedIsTold
     DEF TypeOK, ExecutionRow, TellingInv, EndExecution, Released, InFlightPublication

(* A parked publication is told, and a derived status is never `failed`.   *)
LEMMA DerivePublicationTold ==
  ASSUME TypeOK, TellingInv, NEW newSteps, DerivePublication(newSteps),
         UNCHANGED <<preparation, execution>>
  PROVE  TellingInv'
<1>1. publication'.status = Derivation(newSteps)
  BY DEF TypeOK, PublicationRow, DerivePublication
<1>2. publication'.status = "failed" => publication.status = "failed"
  BY <1>1 DEF Derivation, DerivedStatus
<1> QED BY <1>1, <1>2, DerivedIsTold DEF TellingInv, DerivePublication

(* Nobody is left waiting after: the transactions of preparation and of    *)
(* its bundles.                                                            *)
LEMMA PreparationStepTold ==
  ASSUME TypeOK, AxesInv, TellingInv, PreparationStep
  PROVE  TellingInv'
<1>1. CASE ExhaustPreparation
  BY <1>1, SkipExecutionTold DEF ExhaustPreparation
<1>2. ASSUME NEW t \in Tokens, FailPreparation(t) PROVE TellingInv'
  BY <1>2, SkipExecutionTold DEF FailPreparation
<1> USE DEF TypeOK, PreparationRow, ExecutionRow, PublicationRow, TellingInv
<1>3. ASSUME NEW n \in Fresh, ClaimPreparation(n) PROVE TellingInv'
  BY <1>3 DEF ClaimPreparation
<1>4. CASE LapsePreparation
  BY <1>4 DEF LapsePreparation, StalePreparation, Released
<1>5. CASE DisconnectPreparation
  BY <1>5, QueuedIsTold DEF DisconnectPreparation, Released
<1>6. ASSUME NEW t \in Tokens, CheckpointInput(t) PROVE TellingInv'
  BY <1>6 DEF CheckpointInput
<1>7. ASSUME NEW t \in Tokens, NEW due \in {"now", "later"}, RetryPreparation(t, due)
      PROVE  TellingInv'
  BY <1>7 DEF RetryPreparation, OwnsPreparation, Released
<1>8. ASSUME NEW t \in Tokens, FailPreparationUncertain(t) PROVE TellingInv'
  BY <1>8 DEF FailPreparationUncertain, OwnsPreparation, Released
<1>9. ASSUME NEW t \in Tokens, NEW b \in Bundles, ReserveBundle(t, b)
      PROVE  TellingInv'
  BY <1>9 DEF ReserveBundle
<1>10. ASSUME NEW t \in Tokens, NEW b \in Bundles, NEW status \in {"present",
             "abandoned"}, SettleBundle(t, b, status)
      PROVE  TellingInv'
  BY <1>10 DEF SettleBundle
<1> QED BY <1>1, <1>2, <1>3, <1>4, <1>5, <1>6, <1>7, <1>8, <1>9, <1>10
        DEF PreparationStep, ExpireStale

(* Nobody is left waiting after: the transactions of submission and of its *)
(* recovery.                                                               *)
LEMMA SubmissionStepTold ==
  ASSUME TypeOK, AxesInv, TellingInv, SubmissionStep
  PROVE  TellingInv'
<1>1. ASSUME NEW t \in Tokens, FailSubmissionRecovery(t) PROVE TellingInv'
  BY <1>1, EndExecutionTold DEF FailSubmissionRecovery
<1> USE DEF TypeOK, PreparationRow, ExecutionRow, PublicationRow, TellingInv
<1>2. ASSUME NEW n \in Fresh, ClaimSubmissionRecovery(n) PROVE TellingInv'
  BY <1>2 DEF ClaimSubmissionRecovery, FreeRecovery
<1>3. CASE DisconnectExhausted
  BY <1>3, QueuedIsTold DEF DisconnectExhausted, Released
<1>4. ASSUME NEW t \in Tokens, NEW b \in Bundles, SavePreparedSubmission(t, b)
      PROVE  TellingInv'
  BY <1>4 DEF SavePreparedSubmission
<1>5. ASSUME NEW t \in Tokens, NEW b \in Bundles, MarkQueued(t, b)
      PROVE  TellingInv'
  BY <1>5 DEF MarkQueued, OwnsPreparation, Released
<1>6. ASSUME NEW t \in Tokens, CompleteSubmissionRecovery(t) PROVE TellingInv'
  BY <1>6 DEF CompleteSubmissionRecovery, OwnsRecovery, Released
<1>7. ASSUME NEW t \in Tokens, RecordUnknownRecoveryOutcome(t) PROVE TellingInv'
  BY <1>7 DEF RecordUnknownRecoveryOutcome, OwnsRecovery
<1> QED BY <1>1, <1>2, <1>3, <1>4, <1>5, <1>6, <1>7 DEF SubmissionStep

(* Nobody is left waiting after: what the provider reports.                *)
LEMMA ObservationStepTold ==
  ASSUME TypeOK, AxesInv, TellingInv, ObservationStep
  PROVE  TellingInv'
<1>1. CASE FailExecution
  BY <1>1, EndExecutionTold DEF FailExecution
<1> USE DEF TypeOK, PreparationRow, ExecutionRow, PublicationRow, TellingInv
<1>2. CASE MarkRunning
  BY <1>2 DEF MarkRunning
<1>3. CASE RecordExecutionSuccess
  BY <1>3 DEF RecordExecutionSuccess, ActiveExecution
<1> QED BY <1>1, <1>2, <1>3 DEF ObservationStep

(* Nobody is left waiting after: the transactions of publication and of    *)
(* its steps.                                                              *)
LEMMA PublicationStepTold ==
  ASSUME TypeOK, AxesInv, TellingInv, PublicationStep
  PROVE  TellingInv'
<1>1. ASSUME NEW t \in Tokens, NEW s \in Steps, RefuseStepClaim(t, s)
      PROVE  TellingInv'
  BY <1>1, DerivePublicationTold DEF RefuseStepClaim
<1>2. ASSUME NEW t \in Tokens, NEW s \in Steps, NEW outcome \in {"succeeded",
             "terminal_failed"}, SettleExhaustedStep(t, s, outcome)
      PROVE  TellingInv'
  BY <1>2, DerivePublicationTold DEF SettleExhaustedStep
<1>3. ASSUME NEW t \in Tokens, NEW s \in Steps, NEW retry \in {"yes", "unstated"},
             FailPublicationStep(t, s, retry)
      PROVE  TellingInv'
  BY <1>3, DerivePublicationTold DEF FailPublicationStep
<1>4. ASSUME NEW t \in Tokens, NEW s \in Steps, FailPublicationStepTerminally(t, s)
      PROVE  TellingInv'
  <2> DEFINE newSteps == [steps EXCEPT ![s] = FailedStep(steps[s], "no")]
  <2>1. DerivationNotices(newSteps) \in NoticeRows
    BY DerivedType
  <2>2. /\ Told(notices', "publication", "failure")
        /\ \A a \in Axis, k \in NoticeKind : Told(notices, a, k) => Told(notices', a, k)
    BY <1>4, <2>1, DerivedIsTold DEF NoticeRows, Told, FailPublicationStepTerminally
  <2>3. publication'.status = "failed"
    BY <1>4 DEF TypeOK, PublicationRow, FailPublicationStepTerminally, Released
  <2> QED BY <1>4, <2>2, <2>3 DEF TellingInv, FailPublicationStepTerminally
<1> USE DEF TypeOK, PreparationRow, ExecutionRow, PublicationRow, TellingInv
<1>5. ASSUME NEW n \in Fresh, ClaimPublication(n) PROVE TellingInv'
  BY <1>5 DEF ClaimPublication, ClaimablePublication
<1>6. ASSUME NEW t \in Tokens, RenewPublication(t) PROVE TellingInv'
  BY <1>6 DEF RenewPublication
<1>7. ASSUME NEW t \in Tokens, InitializePublicationSteps(t) PROVE TellingInv'
  BY <1>7 DEF InitializePublicationSteps
<1>8. ASSUME NEW t \in Tokens, CompletePublication(t) PROVE TellingInv'
  BY <1>8 DEF CompletePublication, OwnsPublication, Released
<1>9. ASSUME NEW t \in Tokens, NEW retry \in BOOLEAN, FailPublication(t, retry)
      PROVE  TellingInv'
  BY <1>9, QueuedIsTold DEF FailPublication, Released
<1>10. ASSUME NEW t \in Tokens, NEW s \in Steps, ClaimPublicationStep(t, s)
      PROVE  TellingInv'
  BY <1>10 DEF ClaimPublicationStep
<1>11. ASSUME NEW t \in Tokens, NEW s \in Steps, CompletePublicationStep(t, s)
      PROVE  TellingInv'
  BY <1>11 DEF CompletePublicationStep
<1> QED BY <1>1, <1>2, <1>3, <1>4, <1>5, <1>6, <1>7, <1>8, <1>9, <1>10, <1>11
        DEF PublicationStep

(* Nobody is left waiting after: the decisions of an operator.             *)
LEMMA OperatorStepTold ==
  ASSUME TypeOK, AxesInv, TellingInv, OperatorStep
  PROVE  TellingInv'
<1>1. CASE ResumePreparation
  BY <1>1 DEF AxesInv, PreparationNeverContradicted, ResumePreparation
<1>2. CASE GiveUpPreparation
  BY <1>2 DEF AxesInv, PreparationNeverContradicted, GiveUpPreparation
<1>3. CASE GiveUpExecution
  BY <1>3, EndExecutionTold DEF GiveUpExecution
<1>4. CASE AbandonBlockedPreparation
  BY <1>4 DEF AxesInv, PreparationNeverContradicted, AbandonBlockedPreparation
<1> USE DEF TypeOK, PreparationRow, ExecutionRow, PublicationRow, TellingInv
<1>5. CASE ResumeExecution
  BY <1>5, SupersededIsTold DEF ResumeExecution, Released
<1>6. CASE ResumePublication
  BY <1>6, SupersededIsTold DEF ResumePublication, Released
<1>7. CASE GiveUpPublication
  BY <1>7, QueuedIsTold DEF GiveUpPublication, Released
<1> QED BY <1>1, <1>2, <1>3, <1>4, <1>5, <1>6, <1>7 DEF OperatorStep

(* Nobody is left waiting after: the passing of time.                      *)
LEMMA ClockTold ==
  ASSUME TypeOK, AxesInv, TellingInv, Clock
  PROVE  TellingInv'
<1> USE DEF TypeOK, PreparationRow, ExecutionRow, PublicationRow, TellingInv
<1>1. CASE PreparationLeaseExpires
  BY <1>1 DEF PreparationLeaseExpires
<1>2. CASE BackoffElapses
  BY <1>2 DEF BackoffElapses
<1>3. CASE RecoveryLeaseExpires
  BY <1>3 DEF RecoveryLeaseExpires
<1>4. CASE PublicationLeaseExpires
  BY <1>4 DEF PublicationLeaseExpires
<1> QED BY <1>1, <1>2, <1>3, <1>4 DEF Clock
(* A new run has nothing to tell.                                          *)
LEMMA InitTold == Init => TellingInv
  BY DEF Init, InsertedRun, TellingInv

(* Every step of the stores, and stuttering.                               *)
LEMMA NextTold == TypeOK /\ AxesInv /\ TellingInv /\ [Next]_runVars => TellingInv'
<1> SUFFICES ASSUME TypeOK, AxesInv, TellingInv, [Next]_runVars PROVE TellingInv'
  OBVIOUS
<1>1. CASE Next
  BY <1>1, PreparationStepTold, SubmissionStepTold, ObservationStepTold,
       PublicationStepTold, OperatorStepTold, ClockTold DEF Next
<1>2. CASE UNCHANGED runVars
  BY <1>2 DEF runVars, TellingInv
<1> QED BY <1>1, <1>2

(* However a run ends or is parked, the requester or the operator has a    *)
(* notice about it that no later step takes back.                          *)
THEOREM EndingsAreAlwaysTold == Spec => []EndingsAreTold
<1>1. AxesInv /\ TellingInv => EndingsAreTold
  BY DEF AxesInv, PreparationNeverContradicted, TellingInv, Told, EndingsAreTold
<1> QED BY <1>1, InitAxes, NextAxes, InitTold, NextTold, RowsAreTyped, PTL DEF Spec

----------------------------------------------------------------------------
(* A trail without a gap that ends in this status.                         *)
Ends(trail, status) == trail = [to |-> status, edges |-> "joined"]

(* LogMatchesRows in terms of Ends.                                        *)
TrailInv ==
  /\ Ends(log.preparation, preparation.status)
  /\ Ends(log.execution, execution.status)
  /\ log.publication.to = publication.status

(* An event that starts where the trail ends leaves no gap.                *)
LEMMA LoggedJoins ==
  ASSUME NEW trail, NEW from, NEW to, Ends(trail, from)
  PROVE  Ends(Logged(trail, from, to), to)
  BY DEF Ends, Logged

(* Any event leaves a trail that ends where the event ends.                *)
LEMMA LoggedEnds ==
  ASSUME NEW trail, NEW from, NEW to
  PROVE  Logged(trail, from, to).to = to
  BY DEF Logged

(* Abandoning logs the skip exactly when it happens.                       *)
LEMMA AbandonedTrail ==
  ASSUME TypeOK, TrailInv, AbandonInFlightPublication
  PROVE  AbandonmentLogged.to = publication'.status
  BY AbandonedStatus, LoggedEnds DEF TrailInv, AbandonmentLogged

(* Deriving logs a change exactly when there is one.                       *)
LEMMA DerivedTrail ==
  ASSUME TypeOK, TrailInv, NEW newSteps
  PROVE  DerivationLogged(newSteps).to = Derivation(newSteps)
  BY LoggedEnds DEF TrailInv, DerivationLogged

(* The three events of a failed preparation.                               *)
LEMMA SkipExecutionTrail ==
  ASSUME TypeOK, TrailInv, SkipExecution,
         preparation.status = "preparing", preparation'.status = "failed"
  PROVE  TrailInv'
  BY AbandonedTrail, LoggedJoins DEF TypeOK, ExecutionRow, TrailInv, SkipExecution

(* The two events of a failed execution.                                   *)
LEMMA EndExecutionTrail ==
  ASSUME TypeOK, TrailInv, EndExecution
  PROVE  TrailInv'
  BY AbandonedTrail, LoggedJoins
     DEF TypeOK, ExecutionRow, AuditTrail, TrailInv, EndExecution, Released

(* The event of a derived status.                                          *)
LEMMA DerivePublicationTrail ==
  ASSUME TypeOK, TrailInv, NEW newSteps, DerivePublication(newSteps),
         UNCHANGED <<preparation, execution>>
  PROVE  TrailInv'
  BY DerivedTrail DEF TypeOK, PublicationRow, AuditTrail, TrailInv, DerivePublication

(* The trail matches the rows after: the transactions of preparation and   *)
(* of its bundles.                                                         *)
LEMMA PreparationStepTrail ==
  ASSUME TypeOK, TrailInv, PreparationStep
  PROVE  TrailInv'
<1>1. CASE ExhaustPreparation
  BY <1>1, SkipExecutionTrail DEF TypeOK, PreparationRow, ExhaustPreparation,
       StalePreparation, Released
<1>2. ASSUME NEW t \in Tokens, FailPreparation(t) PROVE TrailInv'
  BY <1>2, SkipExecutionTrail DEF TypeOK, PreparationRow, FailPreparation,
       OwnsPreparation, Released
<1> USE DEF TypeOK, PreparationRow, ExecutionRow, PublicationRow, AuditTrail, TrailInv
<1>3. ASSUME NEW n \in Fresh, ClaimPreparation(n) PROVE TrailInv'
  BY <1>3, LoggedJoins DEF ClaimPreparation
<1>4. CASE LapsePreparation
  BY <1>4, LoggedJoins DEF LapsePreparation, StalePreparation, Released
<1>5. CASE DisconnectPreparation
  BY <1>5, LoggedJoins DEF DisconnectPreparation, StalePreparation, Released
<1>6. ASSUME NEW t \in Tokens, CheckpointInput(t) PROVE TrailInv'
  BY <1>6 DEF CheckpointInput
<1>7. ASSUME NEW t \in Tokens, NEW due \in {"now", "later"}, RetryPreparation(t, due)
      PROVE  TrailInv'
  BY <1>7, LoggedJoins DEF RetryPreparation, OwnsPreparation, Released
<1>8. ASSUME NEW t \in Tokens, FailPreparationUncertain(t) PROVE TrailInv'
  BY <1>8, LoggedJoins DEF FailPreparationUncertain, OwnsPreparation, Released
<1>9. ASSUME NEW t \in Tokens, NEW b \in Bundles, ReserveBundle(t, b)
      PROVE  TrailInv'
  BY <1>9 DEF ReserveBundle
<1>10. ASSUME NEW t \in Tokens, NEW b \in Bundles, NEW status \in {"present",
             "abandoned"}, SettleBundle(t, b, status)
      PROVE  TrailInv'
  BY <1>10 DEF SettleBundle
<1> QED BY <1>1, <1>2, <1>3, <1>4, <1>5, <1>6, <1>7, <1>8, <1>9, <1>10
        DEF PreparationStep, ExpireStale

(* The trail matches the rows after: the transactions of submission and of *)
(* its recovery.                                                           *)
LEMMA SubmissionStepTrail ==
  ASSUME TypeOK, TrailInv, SubmissionStep
  PROVE  TrailInv'
<1>1. ASSUME NEW t \in Tokens, FailSubmissionRecovery(t) PROVE TrailInv'
  BY <1>1, EndExecutionTrail DEF FailSubmissionRecovery
<1> USE DEF TypeOK, PreparationRow, ExecutionRow, PublicationRow, AuditTrail, TrailInv
<1>2. ASSUME NEW n \in Fresh, ClaimSubmissionRecovery(n) PROVE TrailInv'
  BY <1>2, LoggedJoins DEF ClaimSubmissionRecovery, FreeRecovery
<1>3. CASE DisconnectExhausted
  BY <1>3, LoggedJoins DEF DisconnectExhausted, FreeRecovery, Released
<1>4. ASSUME NEW t \in Tokens, NEW b \in Bundles, SavePreparedSubmission(t, b)
      PROVE  TrailInv'
  BY <1>4 DEF SavePreparedSubmission
<1>5. ASSUME NEW t \in Tokens, NEW b \in Bundles, MarkQueued(t, b) PROVE TrailInv'
  BY <1>5, LoggedJoins DEF MarkQueued, OwnsPreparation, Released
<1>6. ASSUME NEW t \in Tokens, CompleteSubmissionRecovery(t) PROVE TrailInv'
  BY <1>6, LoggedJoins DEF CompleteSubmissionRecovery, OwnsRecovery, Released
<1>7. ASSUME NEW t \in Tokens, RecordUnknownRecoveryOutcome(t) PROVE TrailInv'
  BY <1>7 DEF RecordUnknownRecoveryOutcome
<1> QED BY <1>1, <1>2, <1>3, <1>4, <1>5, <1>6, <1>7 DEF SubmissionStep

(* The trail matches the rows after: what the provider reports.            *)
LEMMA ObservationStepTrail ==
  ASSUME TypeOK, TrailInv, ObservationStep
  PROVE  TrailInv'
<1>1. CASE FailExecution
  BY <1>1, EndExecutionTrail DEF FailExecution
<1> USE DEF TypeOK, PreparationRow, ExecutionRow, PublicationRow, AuditTrail, TrailInv
<1>2. CASE MarkRunning
  BY <1>2, LoggedJoins DEF MarkRunning
<1>3. CASE RecordExecutionSuccess
  BY <1>3, LoggedJoins DEF RecordExecutionSuccess, ActiveExecution
<1> QED BY <1>1, <1>2, <1>3 DEF ObservationStep

(* The trail matches the rows after: the transactions of publication and   *)
(* of its steps.                                                           *)
LEMMA PublicationStepTrail ==
  ASSUME TypeOK, TrailInv, PublicationStep
  PROVE  TrailInv'
<1>1. ASSUME NEW t \in Tokens, NEW s \in Steps, RefuseStepClaim(t, s)
      PROVE  TrailInv'
  BY <1>1, DerivePublicationTrail DEF RefuseStepClaim
<1>2. ASSUME NEW t \in Tokens, NEW s \in Steps, NEW outcome \in {"succeeded",
             "terminal_failed"}, SettleExhaustedStep(t, s, outcome)
      PROVE  TrailInv'
  BY <1>2, DerivePublicationTrail DEF SettleExhaustedStep
<1>3. ASSUME NEW t \in Tokens, NEW s \in Steps, NEW retry \in {"yes", "unstated"},
             FailPublicationStep(t, s, retry)
      PROVE  TrailInv'
  BY <1>3, DerivePublicationTrail DEF FailPublicationStep
<1> USE DEF TypeOK, PreparationRow, ExecutionRow, PublicationRow, AuditTrail, TrailInv
<1>4. ASSUME NEW n \in Fresh, ClaimPublication(n) PROVE TrailInv'
  BY <1>4, LoggedEnds DEF ClaimPublication, ClaimablePublication
<1>5. ASSUME NEW t \in Tokens, RenewPublication(t) PROVE TrailInv'
  BY <1>5 DEF RenewPublication
<1>6. ASSUME NEW t \in Tokens, InitializePublicationSteps(t) PROVE TrailInv'
  BY <1>6 DEF InitializePublicationSteps
<1>7. ASSUME NEW t \in Tokens, CompletePublication(t) PROVE TrailInv'
  BY <1>7, LoggedEnds DEF CompletePublication, OwnsPublication, Released
<1>8. ASSUME NEW t \in Tokens, NEW retry \in BOOLEAN, FailPublication(t, retry)
      PROVE  TrailInv'
  BY <1>8, LoggedEnds DEF FailPublication, OwnsPublication, Released
<1>9. ASSUME NEW t \in Tokens, NEW s \in Steps, ClaimPublicationStep(t, s)
      PROVE  TrailInv'
  BY <1>9 DEF ClaimPublicationStep
<1>10. ASSUME NEW t \in Tokens, NEW s \in Steps, CompletePublicationStep(t, s)
      PROVE  TrailInv'
  BY <1>10 DEF CompletePublicationStep
<1>11. ASSUME NEW t \in Tokens, NEW s \in Steps, FailPublicationStepTerminally(t, s)
      PROVE  TrailInv'
  BY <1>11, LoggedEnds DEF FailPublicationStepTerminally, OwnsPublication, Released
<1> QED BY <1>1, <1>2, <1>3, <1>4, <1>5, <1>6, <1>7, <1>8, <1>9, <1>10, <1>11
        DEF PublicationStep

(* The trail matches the rows after: the decisions of an operator.         *)
LEMMA OperatorStepTrail ==
  ASSUME TypeOK, TrailInv, OperatorStep
  PROVE  TrailInv'
<1>1. CASE GiveUpPreparation
  BY <1>1, AbandonedTrail, LoggedJoins DEF TypeOK, PreparationRow, ExecutionRow,
       AuditTrail, TrailInv, GiveUpPreparation, Released
<1>2. CASE GiveUpExecution
  BY <1>2, EndExecutionTrail DEF GiveUpExecution
<1>3. CASE AbandonBlockedPreparation
  BY <1>3, AbandonedTrail, LoggedJoins DEF TypeOK, PreparationRow, ExecutionRow,
       AuditTrail, TrailInv, AbandonBlockedPreparation, Released
<1> USE DEF TypeOK, PreparationRow, ExecutionRow, PublicationRow, AuditTrail, TrailInv
<1>4. CASE ResumePreparation
  BY <1>4, LoggedJoins DEF ResumePreparation
<1>5. CASE ResumeExecution
  BY <1>5, LoggedJoins DEF ResumeExecution, Released
<1>6. CASE ResumePublication
  BY <1>6, LoggedEnds DEF ResumePublication, Released
<1>7. CASE GiveUpPublication
  BY <1>7, LoggedEnds DEF GiveUpPublication, Released
<1> QED BY <1>1, <1>2, <1>3, <1>4, <1>5, <1>6, <1>7 DEF OperatorStep

(* The trail matches the rows after: the passing of time.                  *)
LEMMA ClockTrail ==
  ASSUME TypeOK, TrailInv, Clock
  PROVE  TrailInv'
<1> USE DEF TypeOK, PreparationRow, ExecutionRow, PublicationRow, AuditTrail, TrailInv
<1>1. CASE PreparationLeaseExpires
  BY <1>1 DEF PreparationLeaseExpires
<1>2. CASE BackoffElapses
  BY <1>2 DEF BackoffElapses
<1>3. CASE RecoveryLeaseExpires
  BY <1>3 DEF RecoveryLeaseExpires
<1>4. CASE PublicationLeaseExpires
  BY <1>4 DEF PublicationLeaseExpires
<1> QED BY <1>1, <1>2, <1>3, <1>4 DEF Clock
(* Admission logs the first event of every axis.                           *)
LEMMA InitTrail == Init => TrailInv
  BY DEF Init, InsertedRun, TrailInv, Ends

(* Every step of the stores, and stuttering.                               *)
LEMMA NextTrail == TypeOK /\ TrailInv /\ [Next]_runVars => TrailInv'
<1> SUFFICES ASSUME TypeOK, TrailInv, [Next]_runVars PROVE TrailInv'
  OBVIOUS
<1>1. CASE Next
  BY <1>1, PreparationStepTrail, SubmissionStepTrail, ObservationStepTrail,
       PublicationStepTrail, OperatorStepTrail, ClockTrail DEF Next
<1>2. CASE UNCHANGED runVars
  BY <1>2 DEF runVars, TrailInv
<1> QED BY <1>1, <1>2

(* The audit trail never diverges from the rows: its newest event of each  *)
(* axis ends where the row is, and nothing is missing from the events of   *)
(* preparation and execution.                                              *)
THEOREM TrailMatchesRows == Spec => []LogMatchesRows
<1>1. TrailInv => LogMatchesRows
  BY DEF TrailInv, Ends, LogMatchesRows
<1> QED BY <1>1, InitTrail, NextTrail, RowsAreTyped, PTL DEF Spec

-----------------------------------------------------------------------------
(***************************************************************************)
(* The stores implement the lifecycle of a run.                            *)
(***************************************************************************)

(* Inductive: the publication axis reports a doubt only while a step has   *)
(* it.  Without this, complete could publish from `uncertain`, and a       *)
(* derivation could take a parked publication back to work.                *)
DoubtInv ==
  /\ publication.status = "uncertain" => StepIs("uncertain")
  /\ publication.status = "disconnected" => StepIs("disconnected")

(* Abandoning resolves no doubt of a step and raises none on the axis.     *)
LEMMA AbandonedDoubt ==
  ASSUME TypeOK, DoubtInv, AbandonInFlightPublication
  PROVE  DoubtInv'
  BY DEF TypeOK, PublicationRow, StepRow, DoubtInv, StepIs, AbandonInFlightPublication

(* A derived status is the doubt of the steps it is derived from.          *)
LEMMA DerivedDoubt ==
  ASSUME TypeOK, DoubtInv, NEW newSteps, DerivePublication(newSteps)
  PROVE  DoubtInv'
  BY DEF TypeOK, PublicationRow, DoubtInv, StepIs, OwnedStatus, DerivePublication,
       Derivation, DerivedStatus

(* The axis reports no doubt of its own after: the transactions of         *)
(* preparation and of its bundles.                                         *)
LEMMA PreparationStepDoubt ==
  ASSUME TypeOK, DoubtInv, PreparationStep
  PROVE  DoubtInv'
<1>1. CASE ExhaustPreparation
  BY <1>1, AbandonedDoubt DEF ExhaustPreparation, SkipExecution
<1>2. ASSUME NEW t \in Tokens, FailPreparation(t) PROVE DoubtInv'
  BY <1>2, AbandonedDoubt DEF FailPreparation, SkipExecution
<1> USE DEF TypeOK, PublicationRow, StepRow, DoubtInv, StepIs, OwnedStatus
<1>3. ASSUME NEW n \in Fresh, ClaimPreparation(n) PROVE DoubtInv'
  BY <1>3 DEF ClaimPreparation
<1>4. CASE LapsePreparation
  BY <1>4 DEF LapsePreparation
<1>5. CASE DisconnectPreparation
  BY <1>5 DEF DisconnectPreparation
<1>6. ASSUME NEW t \in Tokens, CheckpointInput(t) PROVE DoubtInv'
  BY <1>6 DEF CheckpointInput
<1>7. ASSUME NEW t \in Tokens, NEW due \in {"now", "later"}, RetryPreparation(t, due)
      PROVE  DoubtInv'
  BY <1>7 DEF RetryPreparation
<1>8. ASSUME NEW t \in Tokens, FailPreparationUncertain(t) PROVE DoubtInv'
  BY <1>8 DEF FailPreparationUncertain
<1>9. ASSUME NEW t \in Tokens, NEW b \in Bundles, ReserveBundle(t, b)
      PROVE  DoubtInv'
  BY <1>9 DEF ReserveBundle
<1>10. ASSUME NEW t \in Tokens, NEW b \in Bundles, NEW status \in {"present",
             "abandoned"}, SettleBundle(t, b, status)
      PROVE  DoubtInv'
  BY <1>10 DEF SettleBundle
<1> QED BY <1>1, <1>2, <1>3, <1>4, <1>5, <1>6, <1>7, <1>8, <1>9, <1>10
        DEF PreparationStep, ExpireStale

(* The axis reports no doubt of its own after: the transactions of         *)
(* submission and of its recovery.                                         *)
LEMMA SubmissionStepDoubt ==
  ASSUME TypeOK, DoubtInv, SubmissionStep
  PROVE  DoubtInv'
<1>1. ASSUME NEW t \in Tokens, FailSubmissionRecovery(t) PROVE DoubtInv'
  BY <1>1, AbandonedDoubt DEF FailSubmissionRecovery, EndExecution
<1> USE DEF TypeOK, PublicationRow, StepRow, DoubtInv, StepIs, OwnedStatus
<1>2. ASSUME NEW n \in Fresh, ClaimSubmissionRecovery(n) PROVE DoubtInv'
  BY <1>2 DEF ClaimSubmissionRecovery
<1>3. CASE DisconnectExhausted
  BY <1>3 DEF DisconnectExhausted
<1>4. ASSUME NEW t \in Tokens, NEW b \in Bundles, SavePreparedSubmission(t, b)
      PROVE  DoubtInv'
  BY <1>4 DEF SavePreparedSubmission
<1>5. ASSUME NEW t \in Tokens, NEW b \in Bundles, MarkQueued(t, b) PROVE DoubtInv'
  BY <1>5 DEF MarkQueued
<1>6. ASSUME NEW t \in Tokens, CompleteSubmissionRecovery(t) PROVE DoubtInv'
  BY <1>6 DEF CompleteSubmissionRecovery
<1>7. ASSUME NEW t \in Tokens, RecordUnknownRecoveryOutcome(t) PROVE DoubtInv'
  BY <1>7 DEF RecordUnknownRecoveryOutcome
<1> QED BY <1>1, <1>2, <1>3, <1>4, <1>5, <1>6, <1>7 DEF SubmissionStep

(* The axis reports no doubt of its own after: what the provider reports.  *)
LEMMA ObservationStepDoubt ==
  ASSUME TypeOK, DoubtInv, ObservationStep
  PROVE  DoubtInv'
<1>1. CASE FailExecution
  BY <1>1, AbandonedDoubt DEF FailExecution, EndExecution
<1> USE DEF TypeOK, PublicationRow, StepRow, DoubtInv, StepIs, OwnedStatus
<1>2. CASE MarkRunning
  BY <1>2 DEF MarkRunning
<1>3. CASE RecordExecutionSuccess
  BY <1>3 DEF RecordExecutionSuccess
<1> QED BY <1>1, <1>2, <1>3 DEF ObservationStep

(* The axis reports no doubt of its own after: the transactions of         *)
(* publication and of its steps.                                           *)
LEMMA PublicationStepDoubt ==
  ASSUME TypeOK, DoubtInv, PublicationStep
  PROVE  DoubtInv'
<1>1. ASSUME NEW t \in Tokens, NEW s \in Steps, RefuseStepClaim(t, s)
      PROVE  DoubtInv'
  BY <1>1, DerivedDoubt DEF RefuseStepClaim
<1>2. ASSUME NEW t \in Tokens, NEW s \in Steps, NEW outcome \in {"succeeded",
             "terminal_failed"}, SettleExhaustedStep(t, s, outcome)
      PROVE  DoubtInv'
  BY <1>2, DerivedDoubt DEF SettleExhaustedStep
<1>3. ASSUME NEW t \in Tokens, NEW s \in Steps, NEW retry \in {"yes", "unstated"},
             FailPublicationStep(t, s, retry)
      PROVE  DoubtInv'
  BY <1>3, DerivedDoubt DEF FailPublicationStep
<1> USE DEF TypeOK, PublicationRow, StepRow, DoubtInv, StepIs, OwnedStatus
<1>4. ASSUME NEW n \in Fresh, ClaimPublication(n) PROVE DoubtInv'
  BY <1>4 DEF ClaimPublication, ClaimablePublication
<1>5. ASSUME NEW t \in Tokens, RenewPublication(t) PROVE DoubtInv'
  BY <1>5 DEF RenewPublication
<1>6. ASSUME NEW t \in Tokens, InitializePublicationSteps(t) PROVE DoubtInv'
  BY <1>6 DEF InitializePublicationSteps
<1>7. ASSUME NEW t \in Tokens, CompletePublication(t) PROVE DoubtInv'
  BY <1>7 DEF CompletePublication, Released
<1>8. ASSUME NEW t \in Tokens, NEW retry \in BOOLEAN, FailPublication(t, retry)
      PROVE  DoubtInv'
  BY <1>8 DEF FailPublication, Released
<1>9. ASSUME NEW t \in Tokens, NEW s \in Steps, ClaimPublicationStep(t, s)
      PROVE  DoubtInv'
  BY <1>9 DEF ClaimPublicationStep, ClaimableStep
<1>10. ASSUME NEW t \in Tokens, NEW s \in Steps, CompletePublicationStep(t, s)
      PROVE  DoubtInv'
  BY <1>10 DEF CompletePublicationStep
<1>11. ASSUME NEW t \in Tokens, NEW s \in Steps, FailPublicationStepTerminally(t, s)
      PROVE  DoubtInv'
  BY <1>11 DEF FailPublicationStepTerminally, Released
<1> QED BY <1>1, <1>2, <1>3, <1>4, <1>5, <1>6, <1>7, <1>8, <1>9, <1>10, <1>11
        DEF PublicationStep

(* The axis reports no doubt of its own after: the decisions of an         *)
(* operator.                                                               *)
LEMMA OperatorStepDoubt ==
  ASSUME TypeOK, DoubtInv, OperatorStep
  PROVE  DoubtInv'
<1>1. CASE GiveUpPreparation
  BY <1>1, AbandonedDoubt DEF GiveUpPreparation
<1>2. CASE GiveUpExecution
  BY <1>2, AbandonedDoubt DEF GiveUpExecution, EndExecution
<1>3. CASE AbandonBlockedPreparation
  BY <1>3, AbandonedDoubt DEF AbandonBlockedPreparation
<1> USE DEF TypeOK, PublicationRow, StepRow, DoubtInv, StepIs, OwnedStatus
<1>4. CASE ResumePreparation
  BY <1>4 DEF ResumePreparation
<1>5. CASE ResumeExecution
  BY <1>5 DEF ResumeExecution
<1>6. CASE ResumePublication
  BY <1>6 DEF ResumePublication, Released
<1>7. CASE GiveUpPublication
  BY <1>7 DEF GiveUpPublication, Released
<1> QED BY <1>1, <1>2, <1>3, <1>4, <1>5, <1>6, <1>7 DEF OperatorStep

(* The axis reports no doubt of its own after: the passing of time.        *)
LEMMA ClockDoubt ==
  ASSUME TypeOK, DoubtInv, Clock
  PROVE  DoubtInv'
<1> USE DEF TypeOK, PublicationRow, StepRow, DoubtInv, StepIs, OwnedStatus
<1>1. CASE PreparationLeaseExpires
  BY <1>1 DEF PreparationLeaseExpires
<1>2. CASE BackoffElapses
  BY <1>2 DEF BackoffElapses
<1>3. CASE RecoveryLeaseExpires
  BY <1>3 DEF RecoveryLeaseExpires
<1>4. CASE PublicationLeaseExpires
  BY <1>4 DEF PublicationLeaseExpires
<1> QED BY <1>1, <1>2, <1>3, <1>4 DEF Clock
(* A new run has nothing in doubt.                                         *)
LEMMA InitDoubt == Init => DoubtInv
  BY DEF Init, InsertedRun, DoubtInv

(* Every step of the stores, and stuttering.                               *)
LEMMA NextDoubt == TypeOK /\ DoubtInv /\ [Next]_runVars => DoubtInv'
<1> SUFFICES ASSUME TypeOK, DoubtInv, [Next]_runVars PROVE DoubtInv'
  OBVIOUS
<1>1. CASE Next
  BY <1>1, PreparationStepDoubt, SubmissionStepDoubt, ObservationStepDoubt,
       PublicationStepDoubt, OperatorStepDoubt, ClockDoubt DEF Next
<1>2. CASE UNCHANGED runVars
  BY <1>2 DEF runVars, DoubtInv, StepIs
<1> QED BY <1>1, <1>2

----------------------------------------------------------------------------
LifecycleMove == Lifecycle!LifecycleNext \/ UNCHANGED Lifecycle!axes

(* Skipping execution with the preparation that failed is one move.        *)
LEMMA SkipExecutionMove ==
  ASSUME TypeOK, AxesInv, SkipExecution,
         preparation.status = "preparing", preparation'.status = "failed"
  PROVE  LifecycleMove
  BY AbandonedStatus DEF TypeOK, ExecutionRow, AxesInv, AxesAgree, SkipExecution,
       InFlightPublication, LifecycleMove, Lifecycle!LifecycleNext,
       Lifecycle!GiveUpPreparing

(* Ending execution without a result is one move.                          *)
LEMMA EndExecutionMove ==
  ASSUME TypeOK, AxesInv, EndExecution,
         execution.status \in {"uncertain", "disconnected", "queued", "running"}
  PROVE  LifecycleMove
  BY AbandonedStatus DEF TypeOK, ExecutionRow, PublicationRow, AxesInv, AxesAgree,
       EndExecution, Released, InFlightPublication, LifecycleMove,
       Lifecycle!LifecycleNext, Lifecycle!GiveUpExecuting, Lifecycle!ExecutionEdges

(* A derivation moves the axis along an edge, or not at all, as long as it *)
(* does not settle a step that is parked.                                  *)
LEMMA DerivedMove ==
  ASSUME TypeOK, AxesInv, DoubtInv, NEW newSteps, DerivePublication(newSteps),
         UNCHANGED <<preparation, execution>>,
         \A s \in Steps : steps[s].status = "disconnected" => newSteps[s].status = "disconnected"
  PROVE  LifecycleMove
<1>1. publication'.status = Derivation(newSteps)
  BY DEF TypeOK, PublicationRow, DerivePublication
<1>2. publication.status = "disconnected" => Derivation(newSteps) = "disconnected"
  BY DEF DoubtInv, StepIs, Derivation, DerivedStatus, OwnedStatus
<1>3. Derivation(newSteps) # publication.status
        => /\ publication.status \in {"publishing", "uncertain"}
           /\ Derivation(newSteps) \in {"publishing", "uncertain", "disconnected"}
  BY <1>2 DEF Derivation, DerivedStatus, OwnedStatus
<1>4. publication.status \in {"publishing", "uncertain"} => execution.status = "succeeded"
  BY DEF AxesInv, AxesAgree
<1> QED BY <1>1, <1>3, <1>4 DEF LifecycleMove, Lifecycle!LifecycleNext,
        Lifecycle!axes, Lifecycle!Publish, Lifecycle!PublicationEdges,
        Lifecycle!UndeclaredEdges

(* The lifecycle is followed by: the transactions of preparation and of    *)
(* its bundles.                                                            *)
LEMMA PreparationStepMoves ==
  ASSUME TypeOK, AxesInv, DoubtInv, PreparationStep
  PROVE  LifecycleMove
<1>1. CASE ExhaustPreparation
  BY <1>1, SkipExecutionMove DEF TypeOK, PreparationRow, ExhaustPreparation,
       StalePreparation, Released
<1>2. ASSUME NEW t \in Tokens, FailPreparation(t) PROVE LifecycleMove
  BY <1>2, SkipExecutionMove DEF TypeOK, PreparationRow, FailPreparation,
       OwnsPreparation, Released
<1> USE DEF TypeOK, PreparationRow, ExecutionRow, PublicationRow, AxesInv,
            PreparationNeverContradicted, AxesAgree, LifecycleMove,
            Lifecycle!LifecycleNext, Lifecycle!axes, Lifecycle!Prepare,
            Lifecycle!Submit, Lifecycle!GiveUpPreparing, Lifecycle!Execute,
            Lifecycle!GiveUpExecuting, Lifecycle!Publish, Lifecycle!Unsettled,
            Lifecycle!PreparationEdges, Lifecycle!ExecutionEdges,
            Lifecycle!PublicationEdges, Lifecycle!UndeclaredEdges
<1>3. ASSUME NEW n \in Fresh, ClaimPreparation(n) PROVE LifecycleMove
  BY <1>3 DEF ClaimPreparation
<1>4. CASE LapsePreparation
  BY <1>4 DEF LapsePreparation, StalePreparation, Released
<1>5. CASE DisconnectPreparation
  BY <1>5 DEF DisconnectPreparation, StalePreparation, Released
<1>6. ASSUME NEW t \in Tokens, CheckpointInput(t) PROVE LifecycleMove
  BY <1>6 DEF CheckpointInput
<1>7. ASSUME NEW t \in Tokens, NEW due \in {"now", "later"}, RetryPreparation(t, due)
      PROVE  LifecycleMove
  BY <1>7 DEF RetryPreparation, OwnsPreparation, Released
<1>8. ASSUME NEW t \in Tokens, FailPreparationUncertain(t) PROVE LifecycleMove
  BY <1>8 DEF FailPreparationUncertain, OwnsPreparation, Released
<1>9. ASSUME NEW t \in Tokens, NEW b \in Bundles, ReserveBundle(t, b)
      PROVE  LifecycleMove
  BY <1>9 DEF ReserveBundle
<1>10. ASSUME NEW t \in Tokens, NEW b \in Bundles, NEW status \in {"present",
             "abandoned"}, SettleBundle(t, b, status)
      PROVE  LifecycleMove
  BY <1>10 DEF SettleBundle
<1> QED BY <1>1, <1>2, <1>3, <1>4, <1>5, <1>6, <1>7, <1>8, <1>9, <1>10
        DEF PreparationStep, ExpireStale

(* The lifecycle is followed by: the transactions of submission and of its *)
(* recovery.                                                               *)
LEMMA SubmissionStepMoves ==
  ASSUME TypeOK, AxesInv, DoubtInv, SubmissionStep
  PROVE  LifecycleMove
<1>1. ASSUME NEW t \in Tokens, FailSubmissionRecovery(t) PROVE LifecycleMove
  BY <1>1, EndExecutionMove DEF FailSubmissionRecovery, OwnsRecovery
<1> USE DEF TypeOK, PreparationRow, ExecutionRow, PublicationRow, AxesInv,
            PreparationNeverContradicted, AxesAgree, LifecycleMove,
            Lifecycle!LifecycleNext, Lifecycle!axes, Lifecycle!Prepare,
            Lifecycle!Submit, Lifecycle!GiveUpPreparing, Lifecycle!Execute,
            Lifecycle!GiveUpExecuting, Lifecycle!Publish, Lifecycle!Unsettled,
            Lifecycle!PreparationEdges, Lifecycle!ExecutionEdges,
            Lifecycle!PublicationEdges, Lifecycle!UndeclaredEdges
<1>2. ASSUME NEW n \in Fresh, ClaimSubmissionRecovery(n) PROVE LifecycleMove
  BY <1>2 DEF ClaimSubmissionRecovery, FreeRecovery
<1>3. CASE DisconnectExhausted
  BY <1>3 DEF DisconnectExhausted, FreeRecovery, Released
<1>4. ASSUME NEW t \in Tokens, NEW b \in Bundles, SavePreparedSubmission(t, b)
      PROVE  LifecycleMove
  BY <1>4 DEF SavePreparedSubmission
<1>5. ASSUME NEW t \in Tokens, NEW b \in Bundles, MarkQueued(t, b)
      PROVE  LifecycleMove
  BY <1>5 DEF MarkQueued, OwnsPreparation, Released
<1>6. ASSUME NEW t \in Tokens, CompleteSubmissionRecovery(t) PROVE LifecycleMove
  BY <1>6 DEF CompleteSubmissionRecovery, OwnsRecovery, Released
<1>7. ASSUME NEW t \in Tokens, RecordUnknownRecoveryOutcome(t) PROVE LifecycleMove
  BY <1>7 DEF RecordUnknownRecoveryOutcome, OwnsRecovery
<1> QED BY <1>1, <1>2, <1>3, <1>4, <1>5, <1>6, <1>7 DEF SubmissionStep

(* The lifecycle is followed by: what the provider reports.                *)
LEMMA ObservationStepMoves ==
  ASSUME TypeOK, AxesInv, DoubtInv, ObservationStep
  PROVE  LifecycleMove
<1>1. CASE FailExecution
  BY <1>1, EndExecutionMove DEF FailExecution, ActiveExecution
<1> USE DEF TypeOK, PreparationRow, ExecutionRow, PublicationRow, AxesInv,
            PreparationNeverContradicted, AxesAgree, LifecycleMove,
            Lifecycle!LifecycleNext, Lifecycle!axes, Lifecycle!Prepare,
            Lifecycle!Submit, Lifecycle!GiveUpPreparing, Lifecycle!Execute,
            Lifecycle!GiveUpExecuting, Lifecycle!Publish, Lifecycle!Unsettled,
            Lifecycle!PreparationEdges, Lifecycle!ExecutionEdges,
            Lifecycle!PublicationEdges, Lifecycle!UndeclaredEdges
<1>2. CASE MarkRunning
  BY <1>2 DEF MarkRunning
<1>3. CASE RecordExecutionSuccess
  BY <1>3 DEF RecordExecutionSuccess, ActiveExecution
<1> QED BY <1>1, <1>2, <1>3 DEF ObservationStep

(* The lifecycle is followed by: the transactions of publication and of    *)
(* its steps.                                                              *)
LEMMA PublicationStepMoves ==
  ASSUME TypeOK, AxesInv, DoubtInv, PublicationStep
  PROVE  LifecycleMove
<1>1. ASSUME NEW t \in Tokens, NEW s \in Steps, RefuseStepClaim(t, s)
      PROVE  LifecycleMove
  BY <1>1, DerivedMove DEF TypeOK, StepRow, RefuseStepClaim, NeedsReconciliation
<1>2. ASSUME NEW t \in Tokens, NEW s \in Steps, NEW outcome \in {"succeeded",
             "terminal_failed"}, SettleExhaustedStep(t, s, outcome)
      PROVE  LifecycleMove
  BY <1>2, DerivedMove DEF TypeOK, StepRow, SettleExhaustedStep
<1>3. ASSUME NEW t \in Tokens, NEW s \in Steps, NEW retry \in {"yes", "unstated"},
             FailPublicationStep(t, s, retry)
      PROVE  LifecycleMove
  BY <1>3, DerivedMove DEF TypeOK, StepRow, FailPublicationStep, FailedStep
<1> USE DEF TypeOK, PreparationRow, ExecutionRow, PublicationRow, AxesInv,
            PreparationNeverContradicted, AxesAgree, LifecycleMove,
            Lifecycle!LifecycleNext, Lifecycle!axes, Lifecycle!Prepare,
            Lifecycle!Submit, Lifecycle!GiveUpPreparing, Lifecycle!Execute,
            Lifecycle!GiveUpExecuting, Lifecycle!Publish, Lifecycle!Unsettled,
            Lifecycle!PreparationEdges, Lifecycle!ExecutionEdges,
            Lifecycle!PublicationEdges, Lifecycle!UndeclaredEdges
<1>4. ASSUME NEW n \in Fresh, ClaimPublication(n) PROVE LifecycleMove
  BY <1>4 DEF ClaimPublication, ClaimablePublication
<1>5. ASSUME NEW t \in Tokens, RenewPublication(t) PROVE LifecycleMove
  BY <1>5 DEF RenewPublication
<1>6. ASSUME NEW t \in Tokens, InitializePublicationSteps(t) PROVE LifecycleMove
  BY <1>6 DEF InitializePublicationSteps
<1>7. ASSUME NEW t \in Tokens, CompletePublication(t) PROVE LifecycleMove
  BY <1>7 DEF CompletePublication, OwnsPublication, Released, OwnedStatus, DoubtInv,
       StepIs
<1>8. ASSUME NEW t \in Tokens, NEW retry \in BOOLEAN, FailPublication(t, retry)
      PROVE  LifecycleMove
  BY <1>8 DEF FailPublication, OwnsPublication, Released, OwnedStatus
<1>9. ASSUME NEW t \in Tokens, NEW s \in Steps, ClaimPublicationStep(t, s)
      PROVE  LifecycleMove
  BY <1>9 DEF ClaimPublicationStep
<1>10. ASSUME NEW t \in Tokens, NEW s \in Steps, CompletePublicationStep(t, s)
      PROVE  LifecycleMove
  BY <1>10 DEF CompletePublicationStep
<1>11. ASSUME NEW t \in Tokens, NEW s \in Steps, FailPublicationStepTerminally(t, s)
      PROVE  LifecycleMove
  BY <1>11 DEF FailPublicationStepTerminally, OwnsPublication, Released, OwnedStatus
<1> QED BY <1>1, <1>2, <1>3, <1>4, <1>5, <1>6, <1>7, <1>8, <1>9, <1>10, <1>11
        DEF PublicationStep

(* The lifecycle is followed by: the decisions of an operator.             *)
LEMMA OperatorStepMoves ==
  ASSUME TypeOK, AxesInv, DoubtInv, OperatorStep
  PROVE  LifecycleMove
<1>1. CASE GiveUpExecution
  BY <1>1, EndExecutionMove DEF GiveUpExecution
<1> USE DEF TypeOK, PreparationRow, ExecutionRow, PublicationRow, AxesInv,
            PreparationNeverContradicted, AxesAgree, LifecycleMove,
            Lifecycle!LifecycleNext, Lifecycle!axes, Lifecycle!Prepare,
            Lifecycle!Submit, Lifecycle!GiveUpPreparing, Lifecycle!Execute,
            Lifecycle!GiveUpExecuting, Lifecycle!Publish, Lifecycle!Unsettled,
            Lifecycle!PreparationEdges, Lifecycle!ExecutionEdges,
            Lifecycle!PublicationEdges, Lifecycle!UndeclaredEdges
<1>2. CASE ResumePreparation
  BY <1>2 DEF ResumePreparation
<1>3. CASE ResumeExecution
  BY <1>3 DEF ResumeExecution, Released
<1>4. CASE ResumePublication
  BY <1>4 DEF ResumePublication, Released
<1>5. CASE GiveUpPreparation
  BY <1>5 DEF GiveUpPreparation
<1>6. CASE GiveUpPublication
  BY <1>6 DEF GiveUpPublication, Released
<1>7. CASE AbandonBlockedPreparation
  BY <1>7 DEF AbandonBlockedPreparation, Released
<1> QED BY <1>1, <1>2, <1>3, <1>4, <1>5, <1>6, <1>7 DEF OperatorStep

(* The lifecycle is followed by: the passing of time.                      *)
LEMMA ClockMoves ==
  ASSUME TypeOK, AxesInv, DoubtInv, Clock
  PROVE  LifecycleMove
<1> USE DEF TypeOK, PreparationRow, ExecutionRow, PublicationRow, AxesInv,
            PreparationNeverContradicted, AxesAgree, LifecycleMove,
            Lifecycle!LifecycleNext, Lifecycle!axes, Lifecycle!Prepare,
            Lifecycle!Submit, Lifecycle!GiveUpPreparing, Lifecycle!Execute,
            Lifecycle!GiveUpExecuting, Lifecycle!Publish, Lifecycle!Unsettled,
            Lifecycle!PreparationEdges, Lifecycle!ExecutionEdges,
            Lifecycle!PublicationEdges, Lifecycle!UndeclaredEdges
<1>1. CASE PreparationLeaseExpires
  BY <1>1 DEF PreparationLeaseExpires
<1>2. CASE BackoffElapses
  BY <1>2 DEF BackoffElapses
<1>3. CASE RecoveryLeaseExpires
  BY <1>3 DEF RecoveryLeaseExpires
<1>4. CASE PublicationLeaseExpires
  BY <1>4 DEF PublicationLeaseExpires
<1> QED BY <1>1, <1>2, <1>3, <1>4 DEF Clock

(* Every step of the stores, and stuttering, is a move of the lifecycle or *)
(* leaves the axes as they are.                                            *)
LEMMA NextMoves ==
  TypeOK /\ AxesInv /\ DoubtInv /\ [Next]_runVars => LifecycleMove
<1> SUFFICES ASSUME TypeOK, AxesInv, DoubtInv, [Next]_runVars PROVE LifecycleMove
  OBVIOUS
<1>1. CASE Next
  BY <1>1, PreparationStepMoves, SubmissionStepMoves, ObservationStepMoves,
     PublicationStepMoves, OperatorStepMoves, ClockMoves DEF Next
<1>2. CASE UNCHANGED runVars
  BY <1>2 DEF runVars, LifecycleMove, Lifecycle!axes
<1> QED BY <1>1, <1>2

(* Every behaviour of the stores, for any tokens, bundles, steps, budgets  *)
(* and callers, is a behaviour of the lifecycle: the three axes move along *)
(* its edges, and together where it moves them together.                   *)
THEOREM StoresFollowLifecycle == Spec => FollowsLifecycle
<1>1. Init => Lifecycle!LifecycleInit
  BY DEF Init, InsertedRun, Lifecycle!LifecycleInit
<1>2. TypeOK /\ AxesInv /\ DoubtInv /\ [Next]_runVars
        => [Lifecycle!LifecycleNext]_(Lifecycle!axes)
  BY NextMoves DEF LifecycleMove
<1> QED BY <1>1, <1>2, RowsAreTyped, InitAxes, NextAxes, InitDoubt, NextDoubt, PTL
        DEF Spec, FollowsLifecycle, Lifecycle!LifecycleSpec

=============================================================================
