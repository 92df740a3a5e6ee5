-------------------------- MODULE PublicationStore --------------------------
(***************************************************************************)
(* publication-claim-store.ts and publication-store.ts: the claim on       *)
(* delivering a result, and one row per side effect of the delivery.       *)
(*                                                                         *)
(* The axis keeps its claim in `publishing`, `uncertain` and               *)
(* `disconnected`: the token says who may act, the status says what the    *)
(* steps are doing.                                                        *)
(***************************************************************************)
EXTENDS SubmissionStore

OwnedStatus == {"publishing", "uncertain", "disconnected"}

(* lockPublicationOwnership                                                *)
OwnsPublication(t) == publication.status \in OwnedStatus /\ publication.token = t

StepIs(status) == \E s \in Steps : steps[s].status = status

(* A mutant of ClaimablePublication: a live lease is taken over.           *)
ClaimablePublication_IgnoresLease ==
    /\ execution.status = "succeeded"
    /\ ~StepIs("disconnected")
    /\ publication.status \in {"pending", "publishing", "uncertain"}

ClaimablePublication ==
    /\ execution.status = "succeeded"
    /\ ~StepIs("disconnected")
    /\ \/ publication.status = "pending"
       \/ publication.status \in {"publishing", "uncertain"} /\ publication.lease = "expired"

ClaimPublication(n) ==
    /\ ClaimablePublication
    /\ publication' = [publication EXCEPT !.status = "publishing", !.token = n,
                                          !.lease = "live"]
    /\ log' = [log EXCEPT !.publication = Logged(@, publication.status, "publishing")]
    /\ UNCHANGED <<preparation, execution, steps, candidates, notices>>

(* Unlike a preparation claim, an expired publication claim is renewable   *)
(* for as long as nobody has taken it over.                                *)
RenewPublication(t) ==
    /\ OwnsPublication(t)
    /\ publication' = [publication EXCEPT !.lease = "live"]
    /\ UNCHANGED <<preparation, execution, steps, candidates, notices, log>>

----------------------------------------------------------------------------
(* derivePublicationStatus: the axis reports the strongest uncertainty of  *)
(* the steps it would have.                                                *)
DerivedStatus(newSteps) ==
    IF \E s \in Steps : newSteps[s].status = "disconnected" THEN "disconnected"
    ELSE IF \E s \in Steps : newSteps[s].status = "uncertain" THEN "uncertain"
    ELSE "publishing"

Derivation(newSteps) ==
    IF publication.status \in OwnedStatus
    THEN DerivedStatus(newSteps)
    ELSE publication.status

DerivationLogged(newSteps) ==
    IF Derivation(newSteps) # publication.status
    THEN Logged(log.publication, publication.status, Derivation(newSteps))
    ELSE log.publication

DerivationNotices(newSteps) ==
    IF Derivation(newSteps) = "disconnected" /\ publication.status # "disconnected"
    THEN QueueRunNotice("attention", "publication")
    ELSE notices

(* A mutant of DerivePublication: parking is not announced.                *)
DerivePublication_Silent(newSteps) ==
    /\ steps' = newSteps
    /\ publication' = [publication EXCEPT !.status = Derivation(newSteps)]
    /\ notices' = notices
    /\ log' = [log EXCEPT !.publication = DerivationLogged(newSteps)]

DerivePublication(newSteps) ==
    /\ steps' = newSteps
    /\ publication' = [publication EXCEPT !.status = Derivation(newSteps)]
    /\ notices' = DerivationNotices(newSteps)
    /\ log' = [log EXCEPT !.publication = DerivationLogged(newSteps)]

----------------------------------------------------------------------------
(* A step set is stored once; a later claim must derive the same set.      *)
InitializePublicationSteps(t) ==
    /\ OwnsPublication(t)
    /\ \A s \in Steps : steps[s].status = "absent"
    /\ steps' = [s \in Steps |-> [steps[s] EXCEPT !.status = "pending"]]
    /\ UNCHANGED <<preparation, execution, publication, candidates, notices, log>>

ClaimableStep(t, s) ==
    /\ steps[s].attempts + 1 <= MaxStep
    /\ \/ steps[s].status \in {"pending", "failed"}
       \/ steps[s].status = "running" /\ steps[s].by # t

ClaimPublicationStep(t, s) ==
    /\ OwnsPublication(t)
    /\ ClaimableStep(t, s)
    /\ steps' = [steps EXCEPT ![s].status = "running", ![s].by = t,
                              ![s].attempts = @ + 1]
    /\ UNCHANGED <<preparation, execution, publication, candidates, notices, log>>

(* The second transaction of requirePublicationStepClaim, after the claim  *)
(* above was refused in some earlier state: a spent step of the owner      *)
(* becomes `uncertain`.  The axis is derived again whether or not the      *)
(* caller is the owner.                                                    *)
IsStepExhausted(s) == steps[s].attempts >= MaxStep

NeedsReconciliation(t, s) ==
    /\ OwnsPublication(t)
    /\ IsStepExhausted(s)
    /\ steps[s].status \in {"failed", "running", "uncertain"}

(* A mutant of RefuseStepClaim: the spent step keeps its owner.            *)
RefuseStepClaim_KeepsOwner(t, s) ==
    /\ DerivePublication(
         IF NeedsReconciliation(t, s) /\ steps[s].status # "uncertain"
         THEN [steps EXCEPT ![s].status = "uncertain"]
         ELSE steps)
    /\ UNCHANGED <<preparation, execution, candidates>>

RefuseStepClaim(t, s) ==
    /\ DerivePublication(
         IF NeedsReconciliation(t, s) /\ steps[s].status # "uncertain"
         THEN [steps EXCEPT ![s].status = "uncertain", ![s].by = NoToken]
         ELSE steps)
    /\ UNCHANGED <<preparation, execution, candidates>>

(* A mutant of SettleExhaustedStep: a settled step may be settled again.   *)
SettleExhaustedStep_Resettles(t, s, outcome) ==
    /\ OwnsPublication(t)
    /\ steps[s].status # "absent"
    /\ steps[s].attempts >= MaxStep
    /\ DerivePublication([steps EXCEPT ![s].status = outcome, ![s].by = NoToken])
    /\ UNCHANGED <<preparation, execution, candidates>>

(* The connector looked at GitHub: the effect is there, or it is not.      *)
SettleExhaustedStep(t, s, outcome) ==
    /\ OwnsPublication(t)
    /\ steps[s].status = "uncertain"
    /\ steps[s].attempts >= MaxStep
    /\ DerivePublication([steps EXCEPT ![s].status = outcome, ![s].by = NoToken])
    /\ UNCHANGED <<preparation, execution, candidates>>

CompletePublicationStep(t, s) ==
    /\ OwnsPublication(t)
    /\ steps[s].status = "running"
    /\ steps' = [steps EXCEPT ![s].status = "succeeded", ![s].by = NoToken]
    /\ UNCHANGED <<preparation, execution, publication, candidates, notices, log>>

----------------------------------------------------------------------------
(* failPublicationStep.  `retry` is the option of the call: TRUE, FALSE,   *)
(* or left out ("unstated", which is neither a retry nor terminal).        *)
FailedStep(step, retry) ==
    CASE step.status = "uncertain" /\ retry = "yes" ->
           [step EXCEPT !.by = NoToken, !.recoveries = @ + 1,
                        !.status = IF step.recoveries + 1 >= MaxStepRecovery
                                   THEN "disconnected" ELSE "uncertain"]
      [] retry = "no" -> [step EXCEPT !.by = NoToken, !.status = "terminal_failed"]
      [] OTHER -> [step EXCEPT !.by = NoToken, !.status = "failed"]

FailPublicationStep(t, s, retry) ==
    /\ OwnsPublication(t)
    /\ steps[s].status \in {"running", "uncertain"}
    /\ retry # "no"
    /\ DerivePublication([steps EXCEPT ![s] = FailedStep(steps[s], retry)])
    /\ UNCHANGED <<preparation, execution, candidates>>

(* retry = "no": the axis is derived, and then failed from where it is.    *)
FailPublicationStepTerminally(t, s) ==
    LET newSteps == [steps EXCEPT ![s] = FailedStep(steps[s], "no")] IN
    /\ OwnsPublication(t)
    /\ steps[s].status \in {"running", "uncertain"}
    /\ steps' = newSteps
    /\ publication' = Released(publication, "failed")
    /\ notices' = [DerivationNotices(newSteps) EXCEPT !["publication"]["failure"] = "pending"]
    /\ log' = [log EXCEPT !.publication =
                 Logged(DerivationLogged(newSteps), Derivation(newSteps), "failed")]
    /\ UNCHANGED <<preparation, execution, candidates>>

----------------------------------------------------------------------------
(* The publisher concludes the whole publication.  Both methods log the    *)
(* transition as one from `publishing`, whatever the row held.             *)
CompletePublication(t) ==
    /\ OwnsPublication(t)
    /\ \A s \in Steps : steps[s].status \in {"absent", "succeeded"}
    /\ publication' = Released(publication, "published")
    /\ log' = [log EXCEPT !.publication = Logged(@, "publishing", "published")]
    /\ UNCHANGED <<preparation, execution, steps, candidates, notices>>

FailPublication(t, retry) ==
    /\ OwnsPublication(t)
    /\ publication' = Released(publication, IF retry THEN "pending" ELSE "failed")
    /\ notices' = IF retry THEN notices ELSE QueueRunNotice("failure", "publication")
    /\ log' = [log EXCEPT !.publication =
                 Logged(@, "publishing", IF retry THEN "pending" ELSE "failed")]
    /\ UNCHANGED <<preparation, execution, steps, candidates>>

=============================================================================
