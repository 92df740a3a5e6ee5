------------------------- MODULE PublicationProofs --------------------------
(***************************************************************************)
(* Delivering a result, for any number of publishers, tokens, steps and    *)
(* attempts: what Review Runs calls delivered is on GitHub, owners do not  *)
(* repeat each other, an owner performs only the step it has running, and  *)
(* the summary comes last.                                                 *)
(*                                                                         *)
(* A publisher acts on what it read earlier.  The inductive invariant says *)
(* what is still true of it: everything, as long as the publisher owns the *)
(* publication, because nobody else changes a step then; and only what no  *)
(* transaction ever undoes, once it does not.                              *)
(***************************************************************************)
EXTENDS PublicationProtocol, RunClaimsProofs

Decided == {"succeeded", "terminal_failed"}

Performing == {"asserting", "looking", "confirming", "creating"}

Stepping ==
  Performing \cup {"claiming", "refused", "completing", "reconciling", "settling", "erring"}

Walking == Stepping \cup {"delivering", "summarizing"}

Busy ==
  Walking \cup {"starting", "initializing", "listing", "concluding", "finishing", "failing"}

PublisherState ==
  [pc: Busy \cup {"idle"},
   token: Tokens \cup {NoToken}, todo: SUBSET Steps, step: SUBSET Steps,
   found: BOOLEAN, error: Classification, lost: BOOLEAN]

(* What GitHub holds.                                                      *)
RemoteTyped == github \in [Steps -> {"absent", "one", "several"}] /\ stray \in SUBSET Steps

(* What the publishers have in memory: every claim has its own token.      *)
PublishersTyped ==
  /\ publishers \in [Publishers -> PublisherState]
  /\ \A p \in Publishers : At(p, "idle") <=> publishers[p].token = NoToken
  /\ \A p, q \in Publishers :
       p # q /\ publishers[p].token = publishers[q].token => publishers[p].token = NoToken

(* A step has its row from the first claim on, and an attempt is counted   *)
(* when the step is claimed.                                               *)
StepsStarted ==
  /\ StepIs("absent") => \A s \in Steps : steps[s].status = "absent"
  /\ \A s \in Steps : steps[s].status \in {"absent", "pending"} => steps[s].attempts = 0

(* What p knows of the batch, owner or not: one step in hand, the          *)
(* deliveries before the other steps, and the rows are there.              *)
WalkIsOrdered(p) ==
  /\ \A s, r \in publishers[p].step : s = r
  /\ publishers[p].pc \in Stepping => publishers[p].step # {}
  /\ publishers[p].pc \in Walking \cup {"listing", "concluding", "finishing"}
       => ~StepIs("absent")
  /\ At(p, "delivering") => publishers[p].todo \subseteq Deliveries
  /\ At(p, "summarizing") => publishers[p].todo \cap Deliveries = {}
  /\ publishers[p].pc \in Stepping
       => \A s \in publishers[p].step :
            IF s \in Deliveries THEN publishers[p].todo \subseteq Deliveries
            ELSE publishers[p].todo \cap Deliveries = {}

(* What p may conclude of GitHub, owner or not: an effect stays.           *)
EffectIsSeen(p) ==
  \A s \in publishers[p].step :
    /\ At(p, "completing") => github[s] # "absent"
    /\ At(p, "settling") /\ publishers[p].found => github[s] # "absent"
    /\ publishers[p].pc \in Performing /\ s \notin Deliveries
         => \A d \in Deliveries : steps[d].status \in Decided

(* What p knows of the rows while it owns the publication.                 *)
OwnerIsInformed(p) ==
  /\ ~At(p, "failing") => ~StepIs("disconnected")
  /\ publishers[p].pc \in Walking
       => \A d \in Deliveries \ publishers[p].todo : steps[d].status \in Decided
  /\ \A s \in publishers[p].step :
       /\ publishers[p].pc \in Performing
            => steps[s].status = "running" /\ steps[s].by = publishers[p].token
       /\ publishers[p].pc \in {"confirming", "creating"} /\ s \notin stray
            => github[s] = "absent"
       /\ At(p, "refused") => ~ClaimableStep(publishers[p].token, s)
       /\ publishers[p].pc \in {"reconciling", "settling"}
            => steps[s].status = "uncertain" /\ steps[s].attempts >= MaxStep
       /\ At(p, "erring") => steps[s].status \in {"running", "uncertain"} \cup Decided

PublisherIsSound(p) ==
  /\ WalkIsOrdered(p)
  /\ EffectIsSeen(p)
  /\ Owner(p) => OwnerIsInformed(p)

(* The inductive invariant.                                                *)
DeliveryInv ==
  /\ RemoteTyped
  /\ PublishersTyped
  /\ StepsStarted
  /\ \A p \in Publishers : PublisherIsSound(p)
  /\ PublishedIsDelivered
  /\ OwnersActOnce

----------------------------------------------------------------------------
(* What no transaction of a publication undoes, and who may still be its   *)
(* owner after the one that t sent.                                        *)
TransactionKeeps(t) ==
  /\ \A u \in Tokens \ {t} : OwnsPublication(u)' => OwnsPublication(u) /\ steps' = steps
  /\ \A s \in Steps : steps[s].status \in Decided => steps'[s].status \in Decided
  /\ StepIs("absent")' => StepIs("absent")
  /\ StepsStarted'

(* Nothing more is called delivered.                                       *)
NothingDelivered ==
  /\ \A s \in Steps : steps'[s].status = "succeeded" => steps[s].status = "succeeded"
  /\ publication'.status = "published" => publication.status = "published"

(* A failed step keeps its attempts.                                       *)
LEMMA FailedStepFields ==
  ASSUME NEW step \in StepRow, NEW retry
  PROVE  /\ FailedStep(step, retry).attempts = step.attempts
         /\ FailedStep(step, retry).status
              \in {"uncertain", "disconnected", "failed", "terminal_failed"}
         /\ FailedStep(step, retry).status = "disconnected" => retry = "yes"
         /\ retry = "no" => FailedStep(step, retry).status = "terminal_failed"
  BY DEF StepRow, FailedStep

(* The transactions that leave the steps alone.                            *)
LEMMA ClaimKeeps ==
  ASSUME TypeOK, StepsStarted, NEW n \in Tokens, ClaimPublication(n)
  PROVE  TransactionKeeps(n) /\ NothingDelivered
  BY DEF TypeOK, PublicationRow, ClaimPublication, TransactionKeeps, NothingDelivered,
         OwnsPublication, StepIs, StepsStarted

(* Renewing a claim moves its lease only.                                  *)
LEMMA RenewKeeps ==
  ASSUME TypeOK, StepsStarted, NEW t \in Tokens, RenewPublication(t)
  PROVE  TransactionKeeps(t) /\ NothingDelivered
  BY DEF TypeOK, PublicationRow, RenewPublication, TransactionKeeps, NothingDelivered,
         OwnsPublication, StepIs, StepsStarted

(* The rows of all steps are inserted together.                            *)
LEMMA InitializeKeeps ==
  ASSUME TypeOK, StepsStarted, NEW t \in Tokens, InitializePublicationSteps(t)
  PROVE  TransactionKeeps(t) /\ NothingDelivered
  BY DEF TypeOK, StepRow, InitializePublicationSteps, TransactionKeeps,
         NothingDelivered, OwnsPublication, StepIs, StepsStarted, Decided

(* A claimed step runs under the token of the owner.                       *)
LEMMA ClaimStepKeeps ==
  ASSUME TypeOK, StepsStarted, NEW t \in Tokens, NEW s \in Steps, ClaimPublicationStep(t, s),
         ~StepIs("absent")
  PROVE  TransactionKeeps(t) /\ NothingDelivered
  BY DEF TypeOK, StepRow, ClaimPublicationStep, ClaimableStep, TransactionKeeps,
         NothingDelivered, OwnsPublication, StepIs, StepsStarted, Decided

(* A refused claim changes a step of the owner, or none.                   *)
LEMMA RefuseKeeps ==
  ASSUME TypeOK, StepsStarted, NEW t \in Tokens, NEW s \in Steps, RefuseStepClaim(t, s)
  PROVE  TransactionKeeps(t) /\ NothingDelivered
<1>1. DerivePublication(steps')
  BY DEF RefuseStepClaim, DerivePublication
<1>2. /\ publication'.status \in OwnedStatus <=> publication.status \in OwnedStatus
      /\ publication.status \notin OwnedStatus => publication'.status = publication.status
      /\ publication'.token = publication.token
  BY <1>1, DerivedOwnership
<1>3. CASE NeedsReconciliation(t, s) /\ steps[s].status # "uncertain"
  BY <1>2, <1>3 DEF TypeOK, StepRow, RefuseStepClaim, DerivePublication,
       NeedsReconciliation, TransactionKeeps, NothingDelivered, OwnsPublication, OwnedStatus,
       StepIs, StepsStarted, Decided
<1>4. CASE ~(NeedsReconciliation(t, s) /\ steps[s].status # "uncertain")
  BY <1>2, <1>4 DEF RefuseStepClaim, DerivePublication, TransactionKeeps,
       NothingDelivered, OwnsPublication, OwnedStatus, StepIs, StepsStarted
<1> QED BY <1>3, <1>4

(* A spent step of the owner is decided.                                   *)
LEMMA SettleKeeps ==
  ASSUME TypeOK, StepsStarted, NEW t \in Tokens, NEW s \in Steps,
         NEW outcome \in {"succeeded", "terminal_failed"}, SettleExhaustedStep(t, s, outcome),
         ~StepIs("absent")
  PROVE  TransactionKeeps(t) /\ (publication'.status = "published" => publication.status = "published")
<1>1. DerivePublication(steps')
  BY DEF SettleExhaustedStep, DerivePublication
<1>2. /\ publication'.status \in OwnedStatus <=> publication.status \in OwnedStatus
      /\ publication.status \notin OwnedStatus => publication'.status = publication.status
      /\ publication'.token = publication.token
  BY <1>1, DerivedOwnership
<1> QED BY <1>2 DEF TypeOK, StepRow, SettleExhaustedStep, DerivePublication,
       TransactionKeeps, OwnsPublication, OwnedStatus, StepIs, StepsStarted, Decided

(* A running step of the owner is decided.                                 *)
LEMMA CompleteStepKeeps ==
  ASSUME TypeOK, StepsStarted, NEW t \in Tokens, NEW s \in Steps,
         CompletePublicationStep(t, s), ~StepIs("absent")
  PROVE  TransactionKeeps(t)
  BY DEF TypeOK, StepRow, CompletePublicationStep, TransactionKeeps,
         OwnsPublication, StepIs, StepsStarted, Decided

(* A failed step of the owner may be retried, or is parked.                *)
LEMMA FailStepKeeps ==
  ASSUME TypeOK, StepsStarted, NEW t \in Tokens, NEW s \in Steps,
         FailPublicationStep(t, s, "yes"), ~StepIs("absent")
  PROVE  TransactionKeeps(t) /\ NothingDelivered
<1>1. DerivePublication(steps')
  BY DEF FailPublicationStep, DerivePublication
<1>2. /\ publication'.status \in OwnedStatus <=> publication.status \in OwnedStatus
      /\ publication.status \notin OwnedStatus => publication'.status = publication.status
      /\ publication'.token = publication.token
  BY <1>1, DerivedOwnership
<1>3. steps' = [steps EXCEPT ![s] = FailedStep(steps[s], "yes")]
  BY DEF FailPublicationStep, DerivePublication
<1>4. steps[s] \in StepRow
  BY DEF TypeOK
<1> QED BY <1>2, <1>3, <1>4, FailedStepFields DEF TypeOK, FailPublicationStep,
       TransactionKeeps, NothingDelivered, OwnsPublication, OwnedStatus, StepIs,
       StepsStarted, Decided

(* A step that failed for good takes the publication with it.              *)
LEMMA FailStepTerminallyKeeps ==
  ASSUME TypeOK, StepsStarted, NEW t \in Tokens, NEW s \in Steps,
         FailPublicationStepTerminally(t, s), ~StepIs("absent")
  PROVE  TransactionKeeps(t) /\ NothingDelivered /\ publication'.status = "failed"
<1>1. steps' = [steps EXCEPT ![s] = FailedStep(steps[s], "no")]
  BY DEF FailPublicationStepTerminally
<1>2. steps[s] \in StepRow
  BY DEF TypeOK
<1>3. publication'.status = "failed"
  BY DEF TypeOK, PublicationRow, FailPublicationStepTerminally, Released
<1> QED BY <1>1, <1>2, <1>3, FailedStepFields DEF TypeOK, FailPublicationStepTerminally,
       TransactionKeeps, NothingDelivered, OwnsPublication, OwnedStatus, StepIs,
       StepsStarted, Decided

(* Completing the publication releases it.                                 *)
LEMMA CompleteKeeps ==
  ASSUME TypeOK, StepsStarted, NEW t \in Tokens, CompletePublication(t)
  PROVE  /\ TransactionKeeps(t)
         /\ \A s \in Steps : steps'[s].status = "succeeded" => steps[s].status = "succeeded"
<1>1. publication'.status = "published"
  BY DEF TypeOK, PublicationRow, CompletePublication, Released
<1> QED BY <1>1 DEF CompletePublication, TransactionKeeps, OwnsPublication, OwnedStatus,
       StepIs, StepsStarted

(* Failing the publication, for now or for good, releases it.              *)
LEMMA FailKeeps ==
  ASSUME TypeOK, StepsStarted, NEW t \in Tokens, NEW retry \in BOOLEAN, FailPublication(t, retry)
  PROVE  TransactionKeeps(t) /\ NothingDelivered
<1>1. publication'.status \in {"pending", "failed"}
  BY DEF TypeOK, PublicationRow, FailPublication, Released
<1> QED BY <1>1 DEF FailPublication, TransactionKeeps, NothingDelivered, OwnsPublication,
       OwnedStatus, StepIs, StepsStarted

(* A decision about a parked publication leaves nobody in charge of it.    *)
LEMMA DecisionKeeps ==
  ASSUME TypeOK, StepsStarted, ResumePublication \/ GiveUpPublication
  PROVE  /\ \A u \in Tokens : ~OwnsPublication(u)'
         /\ \A t \in Tokens : TransactionKeeps(t)
         /\ NothingDelivered
<1>1. publication'.status \in {"pending", "failed"}
  BY DEF TypeOK, PublicationRow, ResumePublication, GiveUpPublication, Released
<1>2. \A u \in Tokens : ~OwnsPublication(u)'
  BY <1>1 DEF OwnsPublication, OwnedStatus
<1>3. CASE ResumePublication
  BY <1>1, <1>2, <1>3 DEF TypeOK, StepRow, ResumePublication, TransactionKeeps,
       NothingDelivered, StepIs, StepsStarted, Decided
<1>4. CASE GiveUpPublication
  BY <1>1, <1>2, <1>4 DEF GiveUpPublication, TransactionKeeps, NothingDelivered, StepIs,
       StepsStarted
<1> QED BY <1>2, <1>3, <1>4

----------------------------------------------------------------------------
(* A publisher that q's step or transaction does not touch stays sound:    *)
(* either it does not own the publication afterwards, or it did before and *)
(* no step changed.                                                        *)
NothingUndone ==
  /\ \A s \in Steps : steps[s].status \in Decided => steps'[s].status \in Decided
  /\ StepIs("absent")' => StepIs("absent")
  /\ \A s \in Steps : github[s] # "absent" => github'[s] # "absent"
  /\ stray \subseteq stray'

OwnerUndisturbed(q) ==
  Owner(q)' => /\ Owner(q)
               /\ steps' = steps
               /\ \A s \in Steps : s \notin stray' => github'[s] = github[s]

(* What an untouched publisher knows stays true.                           *)
LEMMA UntouchedIsSound ==
  ASSUME PublishersTyped, NEW q \in Publishers, PublisherIsSound(q),
         publishers'[q] = publishers[q], NothingUndone, OwnerUndisturbed(q)
  PROVE  PublisherIsSound(q)'
<1> USE DEF At
<1>1. publishers[q].step \in SUBSET Steps
  BY DEF PublishersTyped, PublisherState
<1>2. WalkIsOrdered(q)'
  BY DEF PublisherIsSound, WalkIsOrdered, NothingUndone
<1>3. EffectIsSeen(q)'
  BY <1>1, DeliveriesAreSteps DEF PublisherIsSound, EffectIsSeen, NothingUndone
<1>4. ASSUME Owner(q)' PROVE OwnerIsInformed(q)'
  <2>1. /\ OwnerIsInformed(q) /\ steps' = steps
        /\ \A s \in Steps : s \notin stray' => github'[s] = github[s]
    BY <1>4 DEF PublisherIsSound, OwnerUndisturbed
  <2> QED BY <1>1, <2>1 DEF OwnerIsInformed, NothingUndone, StepIs, ClaimableStep
<1> QED BY <1>2, <1>3, <1>4 DEF PublisherIsSound

(* The others while p acts.                                                *)
OthersUntouched(p) == \A q \in Publishers \ {p} : publishers'[q] = publishers[q]

(* A publisher that owns the publication is at work.                       *)
LEMMA IdleOwnsNothing ==
  ASSUME TypeOK, ClaimsInv, PublishersTyped, NEW p \in Publishers, Owner(p)
  PROVE  ~At(p, "idle") /\ publishers[p].token \in Tokens
  BY DEF TypeOK, PublicationRow, ClaimsInv, ClaimsMatchStatus, PublishersTyped,
         PublisherState, Owner, OwnsPublication, OwnedStatus

(* A transaction p sent disturbs no other owner.                           *)
LEMMA TransactionDisturbsNobody ==
  ASSUME TypeOK', ClaimsInv', PublishersTyped', NEW p \in Publishers, OthersUntouched(p),
         NEW t \in Tokens, TransactionKeeps(t),
         \A q \in Publishers \ {p} : publishers[q].token # t,
         UNCHANGED remoteVars
  PROVE  NothingUndone /\ \A q \in Publishers \ {p} : OwnerUndisturbed(q)
<1>1. NothingUndone
  BY DEF TransactionKeeps, NothingUndone, remoteVars
<1>2. ASSUME NEW q \in Publishers \ {p}, Owner(q)'
      PROVE  /\ Owner(q) /\ steps' = steps
             /\ \A s \in Steps : s \notin stray' => github'[s] = github[s]
  <2>1. publishers'[q].token \in Tokens
    BY <1>2 DEF TypeOK, PublicationRow, ClaimsInv, ClaimsMatchStatus, PublishersTyped,
         PublisherState, Owner, OwnsPublication, OwnedStatus
  <2>2. publishers'[q] = publishers[q]
    BY DEF OthersUntouched
  <2> QED BY <1>2, <2>1, <2>2 DEF TransactionKeeps, Owner, OwnsPublication, remoteVars
<1> QED BY <1>1, <1>2 DEF OwnerUndisturbed

----------------------------------------------------------------------------
(* How a publisher moves.                                                  *)
LEMMA MovedIsTyped ==
  ASSUME PublishersTyped, NEW p \in Publishers, NEW new \in PublisherState,
         publishers' = [publishers EXCEPT ![p] = new],
         new.pc = "idle" <=> new.token = NoToken,
         new.token \in {publishers[p].token, NoToken}
  PROVE  PublishersTyped' /\ OthersUntouched(p) /\ publishers'[p] = new
<1>1. publishers'[p] = new /\ \A q \in Publishers \ {p} : publishers'[q] = publishers[q]
  BY DEF PublishersTyped
<1>2. publishers' \in [Publishers -> PublisherState]
  BY DEF PublishersTyped
<1> QED BY <1>1, <1>2 DEF PublishersTyped, OthersUntouched, At

(* It goes on without an error.                                            *)
LEMMA GotoMoves ==
  ASSUME PublishersTyped, NEW p \in Publishers, ~At(p, "idle"), NEW pc \in Busy,
         Goto(p, pc)
  PROVE  /\ PublishersTyped' /\ OthersUntouched(p)
         /\ publishers'[p] = [publishers[p] EXCEPT !.pc = pc]
<1>1. publishers[p] \in PublisherState /\ publishers[p].token # NoToken
  BY DEF PublishersTyped
<1> DEFINE new == [publishers[p] EXCEPT !.pc = pc]
<1>2. new \in PublisherState /\ new.pc # "idle" /\ new.token = publishers[p].token
  BY <1>1 DEF PublisherState, Busy, Walking, Stepping, Performing
<1>3. publishers' = [publishers EXCEPT ![p] = new]
  BY DEF Goto
<1> QED BY <1>1, <1>2, <1>3, MovedIsTyped

(* It goes on with an error to handle.                                     *)
LEMMA ErrMoves ==
  ASSUME PublishersTyped, NEW p \in Publishers, ~At(p, "idle"), NEW pc \in Busy,
         NEW error \in Classification, Err(p, error, pc)
  PROVE  /\ PublishersTyped' /\ OthersUntouched(p)
         /\ publishers'[p] = [publishers[p] EXCEPT !.error = error, !.pc = pc]
<1>1. publishers[p] \in PublisherState /\ publishers[p].token # NoToken
  BY DEF PublishersTyped
<1> DEFINE new == [publishers[p] EXCEPT !.error = error, !.pc = pc]
<1>2. new \in PublisherState /\ new.pc # "idle" /\ new.token = publishers[p].token
  BY <1>1 DEF PublisherState, Busy, Walking, Stepping, Performing
<1>3. publishers' = [publishers EXCEPT ![p] = new]
  BY DEF Err
<1> QED BY <1>1, <1>2, <1>3, MovedIsTyped

(* Either way it goes to pc with the same claim, batch and step.           *)
MovedTo(p, pc) ==
  /\ publishers'[p].pc = pc /\ publishers'[p].token = publishers[p].token
  /\ publishers'[p].step = publishers[p].step /\ publishers'[p].todo = publishers[p].todo

(* Both are moves to pc.                                                   *)
LEMMA PublisherMoves ==
  ASSUME PublishersTyped, NEW p \in Publishers, ~At(p, "idle"), NEW pc \in Busy,
         Goto(p, pc) \/ \E error \in Classification : Err(p, error, pc)
  PROVE  PublishersTyped' /\ OthersUntouched(p) /\ MovedTo(p, pc)
<1>1. publishers[p] \in PublisherState
  BY DEF PublishersTyped
<1>2. CASE Goto(p, pc)
  <2>1. PublishersTyped' /\ OthersUntouched(p)
        /\ publishers'[p] = [publishers[p] EXCEPT !.pc = pc]
    BY <1>2, GotoMoves
  <2> QED BY <1>1, <2>1 DEF PublisherState, MovedTo
<1>3. ASSUME NEW error \in Classification, Err(p, error, pc)
      PROVE  PublishersTyped' /\ OthersUntouched(p) /\ MovedTo(p, pc)
  <2>1. PublishersTyped' /\ OthersUntouched(p)
        /\ publishers'[p] = [publishers[p] EXCEPT !.error = error, !.pc = pc]
    BY <1>3, ErrMoves
  <2> QED BY <1>1, <2>1 DEF PublisherState, MovedTo
<1> QED BY <1>2, <1>3

(* It forgets everything.                                                  *)
LEMMA StopMoves ==
  ASSUME PublishersTyped, NEW p \in Publishers, Stop(p)
  PROVE  PublishersTyped' /\ OthersUntouched(p) /\ publishers'[p] = IdlePublisher
<1>1. IdlePublisher \in PublisherState /\ IdlePublisher.pc = "idle" /\ IdlePublisher.token = NoToken
  BY DEF IdlePublisher, PublisherState, Classification
<1> QED BY <1>1, MovedIsTyped DEF Stop

(* It goes back to the batch or to the summary.                            *)
LEMMA StepDoneMoves ==
  ASSUME PublishersTyped, NEW p \in Publishers, ~At(p, "idle"), NEW s, StepDone(p, s)
  PROVE  /\ PublishersTyped' /\ OthersUntouched(p)
         /\ publishers'[p] =
              [publishers[p] EXCEPT
                 !.pc = IF s \in Deliveries THEN "delivering" ELSE "summarizing",
                 !.todo = @ \ {s}, !.step = {}, !.found = FALSE, !.error = Transient]
<1>1. publishers[p] \in PublisherState /\ publishers[p].token # NoToken
  BY DEF PublishersTyped
<1> DEFINE new ==
             [publishers[p] EXCEPT
                !.pc = IF s \in Deliveries THEN "delivering" ELSE "summarizing",
                !.todo = @ \ {s}, !.step = {}, !.found = FALSE, !.error = Transient]
<1>2. new \in PublisherState /\ new.pc # "idle" /\ new.token = publishers[p].token
  BY <1>1 DEF PublisherState, Busy, Walking, Classification
<1>3. publishers' = [publishers EXCEPT ![p] = new]
  BY DEF StepDone
<1> QED BY <1>1, <1>2, <1>3, MovedIsTyped

(* A stopped publisher knows nothing, and nothing is wrong with that.      *)
LEMMA IdleIsSound ==
  ASSUME TypeOK', ClaimsInv', NEW p \in Publishers, publishers'[p] = IdlePublisher
  PROVE  PublisherIsSound(p)'
<1>1. publishers'[p].pc = "idle" /\ publishers'[p].step = {} /\ publishers'[p].token = NoToken
  BY DEF IdlePublisher
<1>2. ~Owner(p)'
  BY <1>1 DEF ClaimsInv, ClaimsMatchStatus, Owner, OwnsPublication
<1> QED BY <1>1, <1>2 DEF PublisherIsSound, WalkIsOrdered, EffectIsSeen, At, Walking, Stepping,
       Performing

(* No transaction, no change.                                              *)
LEMMA NothingKeeps ==
  ASSUME StepsStarted, UNCHANGED runVars
  PROVE  NothingDelivered /\ \A t \in Tokens : TransactionKeeps(t)
  BY DEF runVars, NothingDelivered, TransactionKeeps, StepsStarted, StepIs, OwnsPublication

(* What remains to be shown of a transaction that p sent.                  *)
LEMMA ActorIsSound ==
  ASSUME DeliveryInv, TypeOK', ClaimsInv', NEW p \in Publishers, PublishersTyped',
         OthersUntouched(p), NEW t \in Tokens, TransactionKeeps(t),
         \A q \in Publishers \ {p} : publishers[q].token # t, UNCHANGED remoteVars,
         PublisherIsSound(p)', PublishedIsDelivered'
  PROVE  DeliveryInv'
<1>1. NothingUndone /\ \A q \in Publishers \ {p} : OwnerUndisturbed(q)
  BY TransactionDisturbsNobody
<1>2. \A q \in Publishers \ {p} : PublisherIsSound(q)'
  BY <1>1, UntouchedIsSound DEF DeliveryInv, OthersUntouched
<1>3. StepsStarted' /\ OwnersActOnce' /\ RemoteTyped'
  BY DEF DeliveryInv, TransactionKeeps, OwnersActOnce, RemoteTyped, remoteVars
<1> QED BY <1>2, <1>3 DEF DeliveryInv

(* Effects that stay keep what was delivered before.                       *)
LEMMA NothingDeliveredIsFine ==
  ASSUME PublishedIsDelivered, NothingDelivered, UNCHANGED remoteVars
  PROVE  PublishedIsDelivered'
  BY DEF PublishedIsDelivered, NothingDelivered, remoteVars

(* The token of a busy publisher is its own.                               *)
LEMMA TokenIsOwn ==
  ASSUME PublishersTyped, NEW p \in Publishers, ~At(p, "idle")
  PROVE  /\ publishers[p].token \in Tokens
         /\ \A q \in Publishers \ {p} : publishers[q].token # publishers[p].token
  BY DEF PublishersTyped, PublisherState

----------------------------------------------------------------------------
(* The state in which a publisher acts.                                    *)
Standing == TypeOK /\ ClaimsInv /\ DeliveryInv

(* A publisher that moves without a transaction.                           *)
LEMMA LocalMove ==
  ASSUME Standing, TypeOK', ClaimsInv', NEW p \in Publishers, ~At(p, "idle"),
         UNCHANGED runVars, UNCHANGED remoteVars, PublishersTyped', OthersUntouched(p),
         PublisherIsSound(p)'
  PROVE  DeliveryInv'
<1>1. publishers[p].token \in Tokens
      /\ \A q \in Publishers \ {p} : publishers[q].token # publishers[p].token
  BY TokenIsOwn DEF Standing, DeliveryInv
<1>2. NothingDelivered /\ TransactionKeeps(publishers[p].token)
  BY <1>1, NothingKeeps DEF Standing, DeliveryInv
<1>3. PublishedIsDelivered'
  BY <1>2, NothingDeliveredIsFine DEF Standing, DeliveryInv
<1> QED BY <1>1, <1>2, <1>3, ActorIsSound DEF Standing

(* A publisher that stops without a word, or crashes.                      *)
LEMMA StopIsSound ==
  ASSUME Standing, TypeOK', ClaimsInv', NEW p \in Publishers, ~At(p, "idle"),
         UNCHANGED runVars, UNCHANGED remoteVars, Stop(p)
  PROVE  DeliveryInv'
  BY StopMoves, IdleIsSound, LocalMove DEF Standing, DeliveryInv

(* The result is invalid, or GitHub gives no installation.                 *)
LEMMA CannotBeginIsSound ==
  ASSUME Standing, TypeOK', ClaimsInv', NEW p \in Publishers, CannotBegin(p)
  PROVE  DeliveryInv'
<1>1. PICK error \in Classification : Err(p, error, "failing")
  BY DEF CannotBegin
<1>2. ~At(p, "idle") /\ UNCHANGED runVars /\ UNCHANGED remoteVars
  BY DEF CannotBegin, At
<1>3. PublishersTyped' /\ OthersUntouched(p)
      /\ publishers'[p] = [publishers[p] EXCEPT !.error = error, !.pc = "failing"]
  BY <1>1, <1>2, ErrMoves DEF Standing, DeliveryInv, Busy
<1>4. PublisherIsSound(p) /\ publishers[p] \in PublisherState
  BY DEF Standing, DeliveryInv, PublishersTyped
<1>5. PublisherIsSound(p)'
  BY <1>2, <1>3, <1>4 DEF PublisherState, PublisherIsSound, WalkIsOrdered, EffectIsSeen,
       OwnerIsInformed, At, Walking, Stepping, Performing
<1> QED BY <1>2, <1>3, <1>5, LocalMove

(* What the list leaves out is decided.                                    *)
LEMMA ListIsSound ==
  ASSUME Standing, TypeOK', ClaimsInv', NEW p \in Publishers, List(p)
  PROVE  DeliveryInv'
<1> DEFINE todo == {s \in Deliveries : steps[s].status \notin Decided}
           new == [publishers[p] EXCEPT !.pc = "delivering", !.todo = todo]
<1>1. PublisherIsSound(p) /\ publishers[p] \in PublisherState /\ PublishersTyped
  BY DEF Standing, DeliveryInv, PublishersTyped
<1>2. /\ UNCHANGED runVars /\ UNCHANGED remoteVars /\ At(p, "listing") /\ ~At(p, "idle")
      /\ publishers' = [publishers EXCEPT ![p] = new]
  BY DEF List, At, Decided
<1>3. new \in PublisherState /\ new.pc # "idle" /\ new.token = publishers[p].token
      /\ new.pc = "delivering" /\ new.step = publishers[p].step /\ new.todo = todo
  BY <1>1, DeliveriesAreSteps DEF PublisherState, Busy, Walking
<1>4. PublishersTyped' /\ OthersUntouched(p) /\ publishers'[p] = new
  BY <1>1, <1>2, <1>3, MovedIsTyped DEF PublishersTyped
<1>5. PublisherIsSound(p)'
  <2>1. WalkIsOrdered(p)' /\ EffectIsSeen(p)'
    BY <1>1, <1>2, <1>3, <1>4 DEF runVars, PublisherIsSound, WalkIsOrdered, EffectIsSeen,
         At, StepIs, Walking, Stepping, Performing
  <2>2. Owner(p)' => OwnerIsInformed(p)'
    BY <1>1, <1>2, <1>3, <1>4, DeliveriesAreSteps DEF runVars, PublisherIsSound,
         OwnerIsInformed, At, StepIs, Walking, Stepping, Performing, Owner, OwnsPublication
  <2> QED BY <2>1, <2>2 DEF PublisherIsSound
<1> QED BY <1>2, <1>4, <1>5, LocalMove

(* The next delivery, or the summary when none is left.                    *)
LEMMA DeliverIsSound ==
  ASSUME Standing, TypeOK', ClaimsInv', NEW p \in Publishers, Deliver(p)
  PROVE  DeliveryInv'
<1>1. PublisherIsSound(p) /\ publishers[p] \in PublisherState /\ PublishersTyped
  BY DEF Standing, DeliveryInv, PublishersTyped
<1>2. UNCHANGED runVars /\ UNCHANGED remoteVars /\ At(p, "delivering") /\ ~At(p, "idle")
  BY DEF Deliver, At
<1>3. ASSUME NEW s \in publishers[p].todo,
             publishers' = [publishers EXCEPT ![p].pc = "claiming", ![p].step = {s}]
      PROVE  DeliveryInv'
  <2> DEFINE new == [publishers[p] EXCEPT !.pc = "claiming", !.step = {s}]
  <2>1. new \in PublisherState /\ new.pc = "claiming" /\ new.token = publishers[p].token
        /\ new.step = {s} /\ new.todo = publishers[p].todo
    BY <1>1 DEF PublisherState, Busy, Walking, Stepping
  <2>2. publishers' = [publishers EXCEPT ![p] = new]
    BY <1>3
  <2> HIDE DEF new
  <2>3. PublishersTyped' /\ OthersUntouched(p) /\ publishers'[p] = new
    BY <1>1, <1>2, <2>1, <2>2, MovedIsTyped DEF PublishersTyped, At
  <2>4. PublisherIsSound(p)'
    BY <1>1, <1>2, <2>1, <2>3 DEF runVars, PublisherIsSound, WalkIsOrdered, EffectIsSeen,
         OwnerIsInformed, At, StepIs, Walking, Stepping, Performing, Owner, OwnsPublication
  <2> QED BY <1>1, <1>2, <2>3, <2>4, LocalMove
<1>4. ASSUME publishers[p].todo = {},
             publishers' = [publishers EXCEPT ![p].pc = "summarizing",
                                              ![p].todo = Steps \ Deliveries]
      PROVE  DeliveryInv'
  <2> DEFINE new == [publishers[p] EXCEPT !.pc = "summarizing", !.todo = Steps \ Deliveries]
  <2>1. new \in PublisherState /\ new.pc = "summarizing" /\ new.token = publishers[p].token
        /\ new.step = publishers[p].step /\ new.todo = Steps \ Deliveries
    BY <1>1 DEF PublisherState, Busy, Walking
  <2>2. publishers' = [publishers EXCEPT ![p] = new]
    BY <1>4
  <2> HIDE DEF new
  <2>3. PublishersTyped' /\ OthersUntouched(p) /\ publishers'[p] = new
    BY <1>1, <1>2, <2>1, <2>2, MovedIsTyped DEF PublishersTyped, At
  <2>4. WalkIsOrdered(p)' /\ EffectIsSeen(p)'
    BY <1>1, <1>2, <2>1, <2>3 DEF runVars, PublisherIsSound, WalkIsOrdered, EffectIsSeen, At,
         StepIs, Walking, Stepping, Performing
  <2>5. Owner(p)' => OwnerIsInformed(p)'
    BY <1>1, <1>2, <1>4, <2>1, <2>3 DEF runVars, PublisherIsSound, OwnerIsInformed, At, StepIs,
         Walking, Stepping, Performing, Owner, OwnsPublication
  <2>6. PublisherIsSound(p)'
    BY <2>4, <2>5 DEF PublisherIsSound
  <2> QED BY <1>1, <1>2, <2>3, <2>6, LocalMove
<1> QED BY <1>3, <1>4 DEF Deliver

(* The next step of the summary, or the end.                               *)
LEMMA SummarizeIsSound ==
  ASSUME Standing, TypeOK', ClaimsInv', NEW p \in Publishers, Summarize(p)
  PROVE  DeliveryInv'
<1>1. PublisherIsSound(p) /\ publishers[p] \in PublisherState /\ PublishersTyped
  BY DEF Standing, DeliveryInv, PublishersTyped
<1>2. UNCHANGED runVars /\ UNCHANGED remoteVars /\ At(p, "summarizing") /\ ~At(p, "idle")
  BY DEF Summarize, At
<1>3. ASSUME NEW s \in publishers[p].todo,
             publishers' = [publishers EXCEPT ![p].pc = "claiming", ![p].step = {s}]
      PROVE  DeliveryInv'
  <2> DEFINE new == [publishers[p] EXCEPT !.pc = "claiming", !.step = {s}]
  <2>1. new \in PublisherState /\ new.pc = "claiming" /\ new.token = publishers[p].token
        /\ new.step = {s} /\ new.todo = publishers[p].todo
    BY <1>1 DEF PublisherState, Busy, Walking, Stepping
  <2>2. publishers' = [publishers EXCEPT ![p] = new]
    BY <1>3
  <2> HIDE DEF new
  <2>3. PublishersTyped' /\ OthersUntouched(p) /\ publishers'[p] = new
    BY <1>1, <1>2, <2>1, <2>2, MovedIsTyped DEF PublishersTyped, At
  <2>4. PublisherIsSound(p)'
    BY <1>1, <1>2, <2>1, <2>3 DEF runVars, PublisherIsSound, WalkIsOrdered, EffectIsSeen,
         OwnerIsInformed, At, StepIs, Walking, Stepping, Performing, Owner, OwnsPublication
  <2> QED BY <1>1, <1>2, <2>3, <2>4, LocalMove
<1>4. ASSUME NEW s \in publishers[p].todo, StepDone(p, s) PROVE DeliveryInv'
  <2>1. PublishersTyped' /\ OthersUntouched(p)
        /\ publishers'[p] =
             [publishers[p] EXCEPT
                !.pc = IF s \in Deliveries THEN "delivering" ELSE "summarizing",
                !.todo = @ \ {s}, !.step = {}, !.found = FALSE, !.error = Transient]
    BY <1>1, <1>2, <1>4, StepDoneMoves
  <2>2. s \notin Deliveries
    BY <1>1, <1>2 DEF PublisherIsSound, WalkIsOrdered
  <2>3. publishers'[p].pc = "summarizing" /\ publishers'[p].token = publishers[p].token
        /\ publishers'[p].step = {} /\ publishers'[p].todo = publishers[p].todo \ {s}
    BY <1>1, <2>1, <2>2 DEF PublisherState
  <2>4. PublisherIsSound(p)'
    BY <1>1, <1>2, <2>2, <2>3 DEF runVars, PublisherIsSound, WalkIsOrdered,
         EffectIsSeen, OwnerIsInformed, At, StepIs, Walking, Stepping, Performing, Owner,
         OwnsPublication
  <2> QED BY <1>1, <1>2, <2>1, <2>4, LocalMove
<1>5. ASSUME Goto(p, "concluding") PROVE DeliveryInv'
  <2>1. PublishersTyped' /\ OthersUntouched(p)
        /\ publishers'[p] = [publishers[p] EXCEPT !.pc = "concluding"]
    BY <1>1, <1>2, <1>5, GotoMoves DEF Busy
  <2>2. publishers'[p].pc = "concluding" /\ publishers'[p].token = publishers[p].token
        /\ publishers'[p].step = publishers[p].step
    BY <1>1, <2>1 DEF PublisherState
  <2>3. PublisherIsSound(p)'
    BY <1>1, <1>2, <2>2 DEF runVars, PublisherIsSound, WalkIsOrdered,
         EffectIsSeen, OwnerIsInformed, At, StepIs, Walking, Stepping, Performing, Owner,
         OwnsPublication
  <2> QED BY <1>1, <1>2, <2>1, <2>3, LocalMove
<1> QED BY <1>3, <1>4, <1>5 DEF Summarize

(* The owner that finds nothing is the only one that may create something. *)
LEMMA LookIsSound ==
  ASSUME Standing, TypeOK', ClaimsInv', NEW p \in Publishers, Look(p)
  PROVE  DeliveryInv'
<1>1. PublisherIsSound(p) /\ publishers[p] \in PublisherState /\ PublishersTyped
  BY DEF Standing, DeliveryInv, PublishersTyped
<1>2. UNCHANGED runVars /\ UNCHANGED remoteVars /\ At(p, "looking") /\ ~At(p, "idle")
  BY DEF Look, At
<1>3. PICK s \in publishers[p].step :
        Goto(p, IF github[s] = "absent" THEN "confirming" ELSE "completing")
  BY DEF Look
<1> DEFINE pc == IF github[s] = "absent" THEN "confirming" ELSE "completing"
<1>4. pc \in Busy
  BY DEF Busy, Walking, Stepping, Performing
<1>5. PublishersTyped' /\ OthersUntouched(p)
      /\ publishers'[p] = [publishers[p] EXCEPT !.pc = pc]
  BY <1>1, <1>2, <1>3, <1>4, GotoMoves
<1>6. publishers'[p].pc = pc /\ publishers'[p].token = publishers[p].token
      /\ publishers'[p].step = publishers[p].step /\ publishers'[p].todo = publishers[p].todo
  BY <1>1, <1>5 DEF PublisherState
<1>7. publishers[p].step = {s}
  BY <1>1, <1>3 DEF PublisherIsSound, WalkIsOrdered
<1>8. PublisherIsSound(p)'
  BY <1>1, <1>2, <1>6, <1>7 DEF runVars, remoteVars, PublisherIsSound, WalkIsOrdered,
       EffectIsSeen, OwnerIsInformed, At, StepIs, Walking, Stepping, Performing, Owner,
       OwnsPublication
<1> QED BY <1>1, <1>2, <1>5, <1>8, LocalMove

(* A failure of GitHub leaves the step running.                            *)
LEMMA GitHubFailsIsSound ==
  ASSUME Standing, TypeOK', ClaimsInv', NEW p \in Publishers, GitHubFails(p)
  PROVE  DeliveryInv'
<1>1. PublisherIsSound(p) /\ publishers[p] \in PublisherState /\ PublishersTyped
  BY DEF Standing, DeliveryInv, PublishersTyped
<1>2. /\ UNCHANGED runVars /\ UNCHANGED remoteVars /\ ~At(p, "idle")
      /\ publishers[p].pc \in {"looking", "creating"}
  BY DEF GitHubFails, At
<1>3. PICK error \in Classification : Err(p, error, "erring")
  BY DEF GitHubFails
<1>4. PublishersTyped' /\ OthersUntouched(p)
      /\ publishers'[p] = [publishers[p] EXCEPT !.error = error, !.pc = "erring"]
  BY <1>1, <1>2, <1>3, ErrMoves DEF Busy, Walking, Stepping
<1>5. publishers'[p].pc = "erring" /\ publishers'[p].token = publishers[p].token
      /\ publishers'[p].step = publishers[p].step /\ publishers'[p].todo = publishers[p].todo
  BY <1>1, <1>4 DEF PublisherState
<1>6. PublisherIsSound(p)'
  BY <1>1, <1>2, <1>5 DEF runVars, PublisherIsSound, WalkIsOrdered, EffectIsSeen,
       OwnerIsInformed, At, StepIs, Walking, Stepping, Performing, Owner, OwnsPublication
<1> QED BY <1>1, <1>2, <1>4, <1>6, LocalMove

(* What reconciliation found stays on GitHub.                              *)
LEMMA ReconcileIsSound ==
  ASSUME Standing, TypeOK', ClaimsInv', NEW p \in Publishers, Reconcile(p)
  PROVE  DeliveryInv'
<1>1. PublisherIsSound(p) /\ publishers[p] \in PublisherState /\ PublishersTyped
  BY DEF Standing, DeliveryInv, PublishersTyped
<1>2. UNCHANGED runVars /\ UNCHANGED remoteVars /\ At(p, "reconciling") /\ ~At(p, "idle")
  BY DEF Reconcile, At
<1>3. ASSUME NEW s \in publishers[p].step,
             publishers' = [publishers EXCEPT ![p].pc = "settling",
                                              ![p].found = github[s] # "absent"]
      PROVE  DeliveryInv'
  <2> DEFINE new == [publishers[p] EXCEPT !.pc = "settling", !.found = github[s] # "absent"]
  <2>1. new \in PublisherState /\ new.pc = "settling" /\ new.token = publishers[p].token
        /\ new.step = publishers[p].step /\ new.todo = publishers[p].todo
        /\ (new.found <=> github[s] # "absent")
    BY <1>1 DEF PublisherState, Busy, Walking, Stepping
  <2>2. publishers' = [publishers EXCEPT ![p] = new]
    BY <1>3
  <2> HIDE DEF new
  <2>3. PublishersTyped' /\ OthersUntouched(p) /\ publishers'[p] = new
    BY <1>1, <1>2, <2>1, <2>2, MovedIsTyped DEF PublishersTyped, At
  <2>4. publishers[p].step = {s}
    BY <1>1, <1>3 DEF PublisherIsSound, WalkIsOrdered
  <2>5. PublisherIsSound(p)'
    BY <1>1, <1>2, <2>1, <2>3, <2>4 DEF runVars, remoteVars, PublisherIsSound,
         WalkIsOrdered, EffectIsSeen, OwnerIsInformed, At, StepIs, Walking, Stepping,
         Performing, Owner, OwnsPublication
  <2> QED BY <1>1, <1>2, <2>3, <2>5, LocalMove
<1>4. ASSUME NEW s \in publishers[p].step, NEW error \in Classification,
             Err(p, error, IF s \in Deliveries THEN "erring" ELSE "failing")
      PROVE  DeliveryInv'
  <2> DEFINE pc == IF s \in Deliveries THEN "erring" ELSE "failing"
  <2>1. pc \in {"erring", "failing"} /\ pc \in Busy
    BY DEF Busy, Walking, Stepping
  <2>2. PublishersTyped' /\ OthersUntouched(p)
        /\ publishers'[p] = [publishers[p] EXCEPT !.error = error, !.pc = pc]
    BY <1>1, <1>2, <1>4, <2>1, ErrMoves, ZenonT(30)
  <2> HIDE DEF pc
  <2>3. publishers'[p].pc = pc /\ publishers'[p].token = publishers[p].token
        /\ publishers'[p].step = publishers[p].step /\ publishers'[p].todo = publishers[p].todo
    BY <1>1, <2>2 DEF PublisherState
  <2>4. PublisherIsSound(p)'
    BY <1>1, <1>2, <2>1, <2>3 DEF runVars, PublisherIsSound, WalkIsOrdered, EffectIsSeen,
         OwnerIsInformed, At, StepIs, Walking, Stepping, Performing, Owner, OwnsPublication
  <2> QED BY <1>1, <1>2, <2>2, <2>4, LocalMove
<1> QED BY <1>3, <1>4 DEF Reconcile

(* Losing faith in the lease changes nothing that the publisher knows.     *)
LEMMA HeartbeatFailsIsSound ==
  ASSUME Standing, TypeOK', ClaimsInv', NEW p \in Publishers, HeartbeatFails(p)
  PROVE  DeliveryInv'
<1>1. PublisherIsSound(p) /\ publishers[p] \in PublisherState /\ PublishersTyped
  BY DEF Standing, DeliveryInv, PublishersTyped
<1> DEFINE new == [publishers[p] EXCEPT !.lost = TRUE]
<1>2. /\ UNCHANGED runVars /\ UNCHANGED remoteVars /\ ~At(p, "idle")
      /\ publishers' = [publishers EXCEPT ![p] = new]
  BY DEF HeartbeatFails
<1>3. new \in PublisherState /\ new.pc = publishers[p].pc /\ new.token = publishers[p].token
      /\ new.step = publishers[p].step /\ new.todo = publishers[p].todo
      /\ new.found = publishers[p].found
  BY <1>1 DEF PublisherState
<1> HIDE DEF new
<1>4. PublishersTyped' /\ OthersUntouched(p) /\ publishers'[p] = new
  BY <1>1, <1>2, <1>3, MovedIsTyped DEF PublishersTyped, At
<1>5. PublisherIsSound(p)'
  BY <1>1, <1>2, <1>3, <1>4 DEF runVars, remoteVars, PublisherIsSound, WalkIsOrdered,
       EffectIsSeen, OwnerIsInformed, At, StepIs, Owner, OwnsPublication, ClaimableStep
<1> QED BY <1>1, <1>2, <1>4, <1>5, LocalMove

----------------------------------------------------------------------------
(* A publisher that moves with a transaction of its own.                   *)
LEMMA TransactionMove ==
  ASSUME Standing, TypeOK', ClaimsInv', NEW p \in Publishers, ~At(p, "idle"),
         TransactionKeeps(publishers[p].token), UNCHANGED remoteVars, PublishersTyped',
         OthersUntouched(p), PublisherIsSound(p)', PublishedIsDelivered'
  PROVE  DeliveryInv'
  BY TokenIsOwn, ActorIsSound DEF Standing, DeliveryInv

(* A renewal by the owner.                                                 *)
LEMMA HeartbeatIsSound ==
  ASSUME Standing, TypeOK', ClaimsInv', NEW p \in Publishers, Heartbeat(p)
  PROVE  DeliveryInv'
<1>1. PublisherIsSound(p) /\ PublishersTyped /\ StepsStarted /\ PublishedIsDelivered
  BY DEF Standing, DeliveryInv
<1>2. /\ UNCHANGED publishers /\ UNCHANGED remoteVars /\ ~At(p, "idle")
      /\ RenewPublication(publishers[p].token)
  BY DEF Heartbeat
<1>3. publishers[p].token \in Tokens
  BY <1>1, <1>2, TokenIsOwn
<1>4. TransactionKeeps(publishers[p].token) /\ NothingDelivered
  BY <1>1, <1>2, <1>3, RenewKeeps DEF Standing
<1>5. steps' = steps /\ Owner(p)
  BY <1>2 DEF RenewPublication, Owner
<1>6. NothingUndone /\ OwnerUndisturbed(p)
  BY <1>2, <1>5 DEF NothingUndone, OwnerUndisturbed, remoteVars, StepIs
<1>7. PublisherIsSound(p)'
  BY <1>1, <1>2, <1>6, UntouchedIsSound
<1>8. PublishersTyped' /\ OthersUntouched(p)
  BY <1>1, <1>2 DEF PublishersTyped, OthersUntouched, remoteVars, At
<1> QED BY <1>1, <1>2, <1>4, <1>7, <1>8, NothingDeliveredIsFine, TransactionMove

(* renewSerially: the publisher stops, or it is the owner and goes on with *)
(* the rows as they were.                                                  *)
Asserted(p, pc) ==
  /\ Owner(p) /\ steps' = steps
  /\ publishers'[p].pc = pc /\ publishers'[p].token = publishers[p].token
  /\ publishers'[p].step = publishers[p].step /\ publishers'[p].todo = publishers[p].todo

(* What is left to show of a publisher that asserts its claim.             *)
LEMMA AssertOwnedIsSound ==
  ASSUME Standing, TypeOK', ClaimsInv', NEW p \in Publishers, ~At(p, "idle"),
         NEW pc \in Busy, AssertOwned(p, pc), UNCHANGED remoteVars,
         Asserted(p, pc) => PublisherIsSound(p)'
  PROVE  DeliveryInv'
<1>1. PublishersTyped /\ publishers[p] \in PublisherState /\ StepsStarted /\ PublishedIsDelivered
  BY DEF Standing, DeliveryInv, PublishersTyped
<1>2. CASE Stop(p) /\ UNCHANGED runVars
  BY <1>2, StopIsSound
<1>3. ASSUME Owner(p), RenewPublication(publishers[p].token), Goto(p, pc)
      PROVE  DeliveryInv'
  <2>1. PublishersTyped' /\ OthersUntouched(p)
        /\ publishers'[p] = [publishers[p] EXCEPT !.pc = pc]
    BY <1>1, <1>3, GotoMoves
  <2>2. /\ publishers'[p].pc = pc /\ publishers'[p].token = publishers[p].token
        /\ publishers'[p].step = publishers[p].step /\ publishers'[p].todo = publishers[p].todo
    BY <1>1, <2>1 DEF PublisherState
  <2>3. steps' = steps
    BY <1>3 DEF RenewPublication
  <2>4. TransactionKeeps(publishers[p].token) /\ NothingDelivered
    BY <1>1, <1>3, TokenIsOwn, RenewKeeps DEF Standing
  <2> QED BY <1>1, <1>3, <2>1, <2>2, <2>3, <2>4, NothingDeliveredIsFine, TransactionMove
      DEF Asserted
<1> QED BY <1>2, <1>3 DEF AssertOwned

(* The four places where a publisher asserts its claim.                    *)
LEMMA AssertionsAreSound ==
  ASSUME Standing, TypeOK', ClaimsInv', NEW p \in Publishers,
         Begin(p) \/ AssertClaim(p) \/ Confirm(p) \/ Conclude(p)
  PROVE  DeliveryInv'
<1>1. PublisherIsSound(p) /\ publishers[p] \in PublisherState
  BY DEF Standing, DeliveryInv, PublishersTyped
<1>2. CASE Begin(p)
  <2>1. /\ At(p, "starting") /\ ~At(p, "idle") /\ "initializing" \in Busy
        /\ AssertOwned(p, "initializing") /\ UNCHANGED remoteVars
    BY <1>2 DEF Begin, At, Busy, Walking, Stepping, Performing
  <2>2. Asserted(p, "initializing") => PublisherIsSound(p)'
    BY <1>1, <2>1 DEF Asserted, PublisherIsSound, WalkIsOrdered, EffectIsSeen,
         OwnerIsInformed, At, StepIs, Walking, Stepping, Performing, remoteVars
  <2> QED BY <2>1, <2>2, AssertOwnedIsSound
<1>3. CASE AssertClaim(p)
  <2>1. /\ At(p, "asserting") /\ ~At(p, "idle") /\ "looking" \in Busy
        /\ AssertOwned(p, "looking") /\ UNCHANGED remoteVars
    BY <1>3 DEF AssertClaim, At, Busy, Walking, Stepping, Performing
  <2>2. Asserted(p, "looking") => PublisherIsSound(p)'
    BY <1>1, <2>1 DEF Asserted, PublisherIsSound, WalkIsOrdered, EffectIsSeen,
         OwnerIsInformed, At, StepIs, Walking, Stepping, Performing, remoteVars
  <2> QED BY <2>1, <2>2, AssertOwnedIsSound
<1>4. CASE Confirm(p)
  <2>1. /\ At(p, "confirming") /\ ~At(p, "idle") /\ "creating" \in Busy
        /\ AssertOwned(p, "creating") /\ UNCHANGED remoteVars
    BY <1>4 DEF Confirm, At, Busy, Walking, Stepping, Performing
  <2>2. Asserted(p, "creating") => PublisherIsSound(p)'
    BY <1>1, <2>1 DEF Asserted, PublisherIsSound, WalkIsOrdered, EffectIsSeen,
         OwnerIsInformed, At, StepIs, Walking, Stepping, Performing, remoteVars
  <2> QED BY <2>1, <2>2, AssertOwnedIsSound
<1>5. CASE Conclude(p)
  <2>1. /\ At(p, "concluding") /\ ~At(p, "idle") /\ "finishing" \in Busy
        /\ AssertOwned(p, "finishing") /\ UNCHANGED remoteVars
    BY <1>5 DEF Conclude, At, Busy, Walking, Stepping, Performing
  <2>2. Asserted(p, "finishing") => PublisherIsSound(p)'
    BY <1>1, <2>1 DEF Asserted, PublisherIsSound, WalkIsOrdered, EffectIsSeen,
         OwnerIsInformed, At, StepIs, Walking, Stepping, Performing, remoteVars
  <2> QED BY <2>1, <2>2, AssertOwnedIsSound
<1> QED BY <1>2, <1>3, <1>4, <1>5

(* The owner stores the steps, or finds all of them stored.                *)
LEMMA InitializeIsSound ==
  ASSUME Standing, TypeOK', ClaimsInv', NEW p \in Publishers, Initialize(p)
  PROVE  DeliveryInv'
<1>1. /\ PublisherIsSound(p) /\ publishers[p] \in PublisherState /\ PublishersTyped
      /\ StepsStarted /\ PublishedIsDelivered
  BY DEF Standing, DeliveryInv, PublishersTyped
<1>2. UNCHANGED remoteVars /\ At(p, "initializing") /\ ~At(p, "idle")
  BY DEF Initialize, At
<1>3. CASE ~Owner(p)
  <2>1. Err(p, Transient, "failing") /\ UNCHANGED runVars
    BY <1>3 DEF Initialize
  <2>2. PublishersTyped' /\ OthersUntouched(p)
        /\ publishers'[p] = [publishers[p] EXCEPT !.error = Transient, !.pc = "failing"]
    BY <1>1, <1>2, <2>1, ErrMoves DEF Busy, Classification
  <2>3. publishers'[p].pc = "failing" /\ publishers'[p].token = publishers[p].token
        /\ publishers'[p].step = publishers[p].step
    BY <1>1, <2>2 DEF PublisherState
  <2>4. PublisherIsSound(p)'
    BY <1>1, <1>3, <2>1, <2>3 DEF runVars, PublisherIsSound, WalkIsOrdered, EffectIsSeen, At,
         Walking, Stepping, Performing, Owner, OwnsPublication
  <2> QED BY <1>2, <2>1, <2>2, <2>4, LocalMove
<1>4. CASE Owner(p)
  <2>1. Goto(p, "listing")
    BY <1>4 DEF Initialize
  <2>2. PublishersTyped' /\ OthersUntouched(p)
        /\ publishers'[p] = [publishers[p] EXCEPT !.pc = "listing"]
    BY <1>1, <1>2, <2>1, GotoMoves DEF Busy
  <2>3. publishers'[p].pc = "listing" /\ publishers'[p].token = publishers[p].token
        /\ publishers'[p].step = publishers[p].step
    BY <1>1, <2>2 DEF PublisherState
  <2>4. publishers[p].token \in Tokens
    BY <1>1, <1>2, TokenIsOwn
  <2>5. ~StepIs("absent")' /\ ~StepIs("disconnected")'
        /\ TransactionKeeps(publishers[p].token) /\ NothingDelivered
    <3>1. CASE InitializePublicationSteps(publishers[p].token)
      <4>1. ~StepIs("absent")' /\ ~StepIs("disconnected")'
        BY <3>1 DEF Standing, TypeOK, StepRow, InitializePublicationSteps, StepIs
      <4> QED BY <1>1, <2>4, <3>1, <4>1, InitializeKeeps DEF Standing
    <3>2. CASE ~(\A s \in Steps : steps[s].status = "absent") /\ UNCHANGED runVars
      <4>1. ~StepIs("absent")' /\ ~StepIs("disconnected")'
        BY <1>1, <1>2, <1>4, <3>2 DEF runVars, StepIs, StepsStarted, PublisherIsSound,
             OwnerIsInformed, At
      <4> QED BY <1>1, <2>4, <3>2, <4>1, NothingKeeps
    <3> QED BY <1>4, <3>1, <3>2 DEF Initialize
  <2>6. PublisherIsSound(p)'
    BY <1>1, <2>3, <2>5 DEF PublisherIsSound, WalkIsOrdered, EffectIsSeen, OwnerIsInformed, At,
         Walking, Stepping, Performing
  <2> QED BY <1>1, <1>2, <2>2, <2>5, <2>6, NothingDeliveredIsFine, TransactionMove
<1> QED BY <1>3, <1>4

(* Claiming the step makes it the owner's: it runs under its token.        *)
LEMMA ClaimStepIsSound ==
  ASSUME Standing, TypeOK', ClaimsInv', NEW p \in Publishers, ClaimStep(p)
  PROVE  DeliveryInv'
<1>1. /\ PublisherIsSound(p) /\ publishers[p] \in PublisherState /\ PublishersTyped
      /\ StepsStarted /\ PublishedIsDelivered
  BY DEF Standing, DeliveryInv, PublishersTyped
<1>2. UNCHANGED remoteVars /\ At(p, "claiming") /\ ~At(p, "idle")
  BY DEF ClaimStep, At
<1>3. publishers[p].token \in Tokens /\ ~StepIs("absent")
  BY <1>1, <1>2, TokenIsOwn DEF PublisherIsSound, WalkIsOrdered, At, Walking, Stepping
<1>4. ASSUME NEW s \in publishers[p].step, Owner(p), ClaimableStep(publishers[p].token, s),
             ClaimPublicationStep(publishers[p].token, s), NEW pc \in {"asserting", "erring", "failing"},
             \/ pc = "asserting" /\ Goto(p, pc)
             \/ pc # "asserting" /\ Err(p, Transient, pc)
      PROVE  DeliveryInv'
  <2>1. pc \in Busy /\ Transient \in Classification
    BY DEF Busy, Walking, Stepping, Performing, Classification
  <2>2. PublishersTyped' /\ OthersUntouched(p) /\ MovedTo(p, pc)
    BY <1>1, <1>2, <1>4, <2>1, PublisherMoves
  <2>3. s \in Steps /\ publishers[p].step = {s}
    BY <1>1 DEF PublisherState, PublisherIsSound, WalkIsOrdered
  <2>4. /\ steps'[s].status = "running" /\ steps'[s].by = publishers[p].token
        /\ \A r \in Steps \ {s} : steps'[r] = steps[r]
    BY <1>4, <2>3 DEF Standing, TypeOK, StepRow, ClaimPublicationStep
  <2>5. TransactionKeeps(publishers[p].token) /\ NothingDelivered
    BY <1>1, <1>3, <1>4, <2>3, ClaimStepKeeps DEF Standing
  <2>6. WalkIsOrdered(p)'
    BY <1>1, <1>2, <1>3, <2>2, <2>5 DEF MovedTo, PublisherIsSound, WalkIsOrdered, At, Walking, Stepping,
         Performing, TransactionKeeps
  <2>7. OwnerIsInformed(p)
    BY <1>1, <1>4 DEF PublisherIsSound
  <2>8. \A d \in Deliveries \ publishers[p].todo : steps'[d].status \in Decided
    BY <1>2, <2>5, <2>7, DeliveriesAreSteps DEF OwnerIsInformed, At, Walking, Stepping,
         TransactionKeeps
  <2>9. EffectIsSeen(p)'
    BY <1>1, <1>2, <2>2, <2>3, <2>8 DEF MovedTo, PublisherIsSound, WalkIsOrdered, EffectIsSeen, At,
         Stepping, Performing
  <2>10. ~StepIs("disconnected")'
    BY <1>2, <2>3, <2>4, <2>7 DEF OwnerIsInformed, StepIs, At
  <2>11. OwnerIsInformed(p)'
    BY <2>2, <2>3, <2>4, <2>8, <2>10, <1>4 DEF MovedTo, OwnerIsInformed, At, Performing
  <2> QED BY <1>1, <1>2, <2>2, <2>5, <2>6, <2>9, <2>11, NothingDeliveredIsFine, TransactionMove
          DEF PublisherIsSound
<1>5. ASSUME NEW s \in publishers[p].step, ~(Owner(p) /\ ClaimableStep(publishers[p].token, s)),
             Goto(p, "refused"), UNCHANGED runVars
      PROVE  DeliveryInv'
  <2>1. PublishersTyped' /\ OthersUntouched(p)
        /\ publishers'[p] = [publishers[p] EXCEPT !.pc = "refused"]
    BY <1>1, <1>2, <1>5, GotoMoves DEF Busy, Walking, Stepping
  <2>2. /\ publishers'[p].pc = "refused" /\ publishers'[p].token = publishers[p].token
        /\ publishers'[p].step = publishers[p].step /\ publishers'[p].todo = publishers[p].todo
    BY <1>1, <2>1 DEF PublisherState
  <2>3. publishers[p].step = {s}
    BY <1>1, <1>5 DEF PublisherIsSound, WalkIsOrdered
  <2>4. PublisherIsSound(p)'
    BY <1>1, <1>2, <1>5, <2>2, <2>3 DEF runVars, PublisherIsSound, WalkIsOrdered, EffectIsSeen,
         OwnerIsInformed, At, StepIs, Walking, Stepping, Performing, Owner, OwnsPublication,
         ClaimableStep
  <2> QED BY <1>2, <1>5, <2>1, <2>4, LocalMove
<1> QED BY <1>4, <1>5 DEF ClaimStep

(* The second transaction of a refused claim: to reconcile, or to give up. *)
LEMMA RefuseClaimIsSound ==
  ASSUME Standing, TypeOK', ClaimsInv', NEW p \in Publishers, RefuseClaim(p)
  PROVE  DeliveryInv'
<1>1. /\ PublisherIsSound(p) /\ publishers[p] \in PublisherState /\ PublishersTyped
      /\ StepsStarted /\ PublishedIsDelivered
  BY DEF Standing, DeliveryInv, PublishersTyped
<1>2. UNCHANGED remoteVars /\ At(p, "refused") /\ ~At(p, "idle")
  BY DEF RefuseClaim, At
<1> DEFINE t == publishers[p].token
<1>3. t \in Tokens /\ ~StepIs("absent")
  BY <1>1, <1>2, TokenIsOwn DEF PublisherIsSound, WalkIsOrdered, At, Walking, Stepping
<1>4. PICK s \in publishers[p].step :
        /\ RefuseStepClaim(t, s)
        /\ IF NeedsReconciliation(t, s) THEN Goto(p, "reconciling")
           ELSE Err(p, Rejected, IF s \in Deliveries THEN "erring" ELSE "failing")
  BY DEF RefuseClaim
<1>5. s \in Steps /\ publishers[p].step = {s}
  BY <1>1 DEF PublisherState, PublisherIsSound, WalkIsOrdered
<1>6. TransactionKeeps(t) /\ NothingDelivered
  BY <1>1, <1>3, <1>4, <1>5, RefuseKeeps DEF Standing
<1>7. Owner(p) => OwnerIsInformed(p)
  BY <1>1 DEF PublisherIsSound
<1>8. ASSUME NEW pc \in {"reconciling", "erring", "failing"}, MovedTo(p, pc)
      PROVE  WalkIsOrdered(p)' /\ EffectIsSeen(p)'
  <2>1. WalkIsOrdered(p)'
    BY <1>1, <1>2, <1>3, <1>6, <1>8 DEF MovedTo, PublisherIsSound, WalkIsOrdered, At, Walking,
         Stepping, Performing, TransactionKeeps
  <2>2. EffectIsSeen(p)'
    BY <1>8 DEF MovedTo, EffectIsSeen, At, Performing
  <2> QED BY <2>1, <2>2
<1>9. CASE NeedsReconciliation(t, s)
  <2>1. PublishersTyped' /\ OthersUntouched(p) /\ MovedTo(p, "reconciling")
    BY <1>1, <1>2, <1>4, <1>9, PublisherMoves DEF Busy, Walking, Stepping
  <2>2. Owner(p)
    BY <1>9 DEF NeedsReconciliation, Owner
  <2>3. /\ steps'[s].status = "uncertain" /\ steps'[s].attempts >= MaxStep
        /\ \A r \in Steps \ {s} : steps'[r] = steps[r]
    BY <1>4, <1>5, <1>9 DEF Standing, TypeOK, StepRow, RefuseStepClaim, DerivePublication,
         NeedsReconciliation, IsStepExhausted
  <2>4. \A d \in Deliveries \ publishers[p].todo : steps'[d].status \in Decided
    BY <1>2, <1>6, <1>7, <2>2, DeliveriesAreSteps DEF OwnerIsInformed, At, Walking, Stepping,
         TransactionKeeps
  <2>5. ~StepIs("disconnected")'
    BY <1>2, <1>5, <1>7, <2>2, <2>3 DEF OwnerIsInformed, StepIs, At
  <2>6. OwnerIsInformed(p)'
    BY <1>5, <2>1, <2>3, <2>4, <2>5 DEF MovedTo, OwnerIsInformed, At, Performing
  <2> QED BY <1>1, <1>2, <1>6, <1>8, <2>1, <2>6, NothingDeliveredIsFine, TransactionMove
          DEF PublisherIsSound
<1>10. CASE ~NeedsReconciliation(t, s)
  <2> DEFINE pc == IF s \in Deliveries THEN "erring" ELSE "failing"
  <2>1. pc \in {"erring", "failing"} /\ pc \in Busy /\ Rejected \in Classification
    BY DEF Busy, Walking, Stepping, Classification
  <2>2. PublishersTyped' /\ OthersUntouched(p) /\ MovedTo(p, pc)
    BY <1>1, <1>2, <1>4, <1>10, <2>1, PublisherMoves
  <2> HIDE DEF pc
  <2>3. steps' = steps
    BY <1>4, <1>10 DEF RefuseStepClaim, DerivePublication
  <2>4. DerivePublication(steps')
    BY <1>4, <1>10 DEF RefuseStepClaim, DerivePublication
  <2>5. Owner(p)' => Owner(p)
    BY <2>2, <2>4, DerivedOwnership DEF Standing, MovedTo, Owner, OwnsPublication
  <2>6. ASSUME Owner(p) PROVE steps[s].status \in {"running", "uncertain"} \cup Decided
    <3>1. /\ ~ClaimableStep(t, s) /\ steps[s].status \notin {"absent", "disconnected"}
          /\ steps[s] \in StepRow
      BY <1>2, <1>3, <1>5, <1>7, <2>6 DEF OwnerIsInformed, At, StepIs, Standing, TypeOK
    <3>2. ~(IsStepExhausted(s) /\ steps[s].status \in {"failed", "running", "uncertain"})
      BY <1>10, <2>6 DEF NeedsReconciliation, Owner
    <3> QED BY <1>1, <1>5, <3>1, <3>2, BudgetsArePositive DEF StepRow, StepStatus, StepsStarted,
               ClaimableStep, IsStepExhausted, Decided
  <2>7. Owner(p)' => OwnerIsInformed(p)'
    BY <1>2, <1>5, <1>7, <2>1, <2>2, <2>3, <2>5, <2>6 DEF MovedTo, OwnerIsInformed, At, StepIs,
         Walking, Stepping, Performing
  <2> QED BY <1>1, <1>2, <1>6, <1>8, <2>1, <2>2, <2>7, NothingDeliveredIsFine, TransactionMove
          DEF PublisherIsSound
<1> QED BY <1>9, <1>10

(* A step is done when it is decided or nobody owns the publication.       *)
LEMMA StepDoneIsSound ==
  ASSUME PublishersTyped, NEW p \in Publishers, publishers[p].pc \in Stepping,
         PublisherIsSound(p), NEW s \in publishers[p].step, StepDone(p, s),
         TransactionKeeps(publishers[p].token),
         Owner(p)' => Owner(p) /\ ~StepIs("disconnected")' /\ steps'[s].status \in Decided
  PROVE  PublishersTyped' /\ OthersUntouched(p) /\ PublisherIsSound(p)'
<1>1. publishers[p] \in PublisherState /\ ~At(p, "idle")
  BY DEF PublishersTyped, At, Stepping, Performing
<1>2. PublishersTyped' /\ OthersUntouched(p)
      /\ publishers'[p] =
           [publishers[p] EXCEPT
              !.pc = IF s \in Deliveries THEN "delivering" ELSE "summarizing",
              !.todo = @ \ {s}, !.step = {}, !.found = FALSE, !.error = Transient]
  BY <1>1, StepDoneMoves
<1>3. /\ publishers'[p].pc = IF s \in Deliveries THEN "delivering" ELSE "summarizing"
      /\ publishers'[p].todo = publishers[p].todo \ {s} /\ publishers'[p].step = {}
  BY <1>1, <1>2 DEF PublisherState
<1>4. WalkIsOrdered(p)'
  BY <1>3 DEF PublisherIsSound, WalkIsOrdered, At, Walking, Stepping, Performing, TransactionKeeps
<1>5. EffectIsSeen(p)'
  BY <1>3 DEF EffectIsSeen
<1>6. ASSUME Owner(p)' PROVE OwnerIsInformed(p)'
  <2>1. \A d \in Deliveries \ publishers[p].todo : steps'[d].status \in Decided
    BY <1>6, DeliveriesAreSteps DEF PublisherIsSound, OwnerIsInformed, Walking, TransactionKeeps
  <2> QED BY <1>3, <1>6, <2>1 DEF OwnerIsInformed
<1> QED BY <1>2, <1>4, <1>5, <1>6 DEF PublisherIsSound

(* A step is recorded as succeeded only after its effect was seen.         *)
LEMMA CompleteIsSound ==
  ASSUME Standing, TypeOK', ClaimsInv', NEW p \in Publishers, Complete(p)
  PROVE  DeliveryInv'
<1>1. /\ PublisherIsSound(p) /\ publishers[p] \in PublisherState /\ PublishersTyped
      /\ StepsStarted /\ PublishedIsDelivered
  BY DEF Standing, DeliveryInv, PublishersTyped
<1>2. UNCHANGED remoteVars /\ At(p, "completing") /\ ~At(p, "idle")
      /\ publishers[p].pc \in Stepping
  BY DEF Complete, At, Stepping
<1> DEFINE t == publishers[p].token
<1>3. t \in Tokens /\ ~StepIs("absent")
  BY <1>1, <1>2, TokenIsOwn DEF PublisherIsSound, WalkIsOrdered, Walking
<1>4. CASE Stop(p) /\ UNCHANGED runVars
  BY <1>2, <1>4, StopIsSound
<1>5. ASSUME NEW s \in publishers[p].step, Owner(p), CompletePublicationStep(t, s), StepDone(p, s)
      PROVE  DeliveryInv'
  <2>1. s \in Steps
    BY <1>1 DEF PublisherState
  <2>2. TransactionKeeps(t)
    BY <1>1, <1>3, <1>5, <2>1, CompleteStepKeeps DEF Standing
  <2>3. /\ steps'[s].status = "succeeded" /\ publication' = publication
        /\ \A r \in Steps \ {s} : steps'[r] = steps[r]
    BY <1>5, <2>1 DEF Standing, TypeOK, StepRow, CompletePublicationStep
  <2>4. ~StepIs("disconnected")' /\ steps'[s].status \in Decided
    BY <1>1, <1>2, <1>5, <2>3 DEF PublisherIsSound, OwnerIsInformed, StepIs, At, Decided
  <2>5. PublishersTyped' /\ OthersUntouched(p) /\ PublisherIsSound(p)'
    BY <1>1, <1>2, <1>5, <2>2, <2>4, StepDoneIsSound
  <2>6. PublishedIsDelivered'
    BY <1>1, <1>2, <1>5, <2>1, <2>3 DEF PublisherIsSound, EffectIsSeen, PublishedIsDelivered,
         remoteVars
  <2> QED BY <1>2, <2>2, <2>5, <2>6, TransactionMove
<1> QED BY <1>4, <1>5 DEF Complete

(* A spent step is settled as succeeded only when its effect was found.    *)
LEMMA SettleIsSound ==
  ASSUME Standing, TypeOK', ClaimsInv', NEW p \in Publishers, Settle(p)
  PROVE  DeliveryInv'
<1>1. /\ PublisherIsSound(p) /\ publishers[p] \in PublisherState /\ PublishersTyped
      /\ StepsStarted /\ PublishedIsDelivered
  BY DEF Standing, DeliveryInv, PublishersTyped
<1>2. UNCHANGED remoteVars /\ At(p, "settling") /\ ~At(p, "idle")
      /\ publishers[p].pc \in Stepping
  BY DEF Settle, At, Stepping
<1> DEFINE t == publishers[p].token
           Settled(s) == Owner(p) /\ steps[s].status = "uncertain" /\ steps[s].attempts >= MaxStep
           Away(s) == IF s \in Deliveries THEN "erring" ELSE "failing"
<1>3. t \in Tokens /\ ~StepIs("absent")
  BY <1>1, <1>2, TokenIsOwn DEF PublisherIsSound, WalkIsOrdered, Walking
<1>4. PICK s \in publishers[p].step :
        /\ IF Settled(s)
           THEN SettleExhaustedStep(t, s, IF publishers[p].found THEN "succeeded" ELSE "terminal_failed")
           ELSE UNCHANGED runVars
        /\ IF Settled(s) /\ publishers[p].found THEN StepDone(p, s) ELSE Err(p, Rejected, Away(s))
  BY DEF Settle
<1>5. s \in Steps /\ publishers[p].step = {s}
  BY <1>1 DEF PublisherState, PublisherIsSound, WalkIsOrdered
<1>6. Away(s) \in {"erring", "failing"} /\ Away(s) \in Busy /\ Rejected \in Classification
  BY DEF Busy, Walking, Stepping, Classification
<1>7. CASE ~Settled(s)
  <2>1. PublishersTyped' /\ OthersUntouched(p) /\ MovedTo(p, Away(s))
    BY <1>1, <1>2, <1>4, <1>6, <1>7, PublisherMoves
  <2>2. ~Owner(p)
    BY <1>1, <1>2, <1>5, <1>7 DEF PublisherIsSound, OwnerIsInformed, At
  <2> HIDE DEF Away
  <2>3. PublisherIsSound(p)'
    BY <1>1, <1>2, <1>4, <1>6, <1>7, <2>1, <2>2 DEF MovedTo, runVars, PublisherIsSound,
         WalkIsOrdered, EffectIsSeen, At, StepIs, Walking, Stepping, Performing, Owner,
         OwnsPublication
  <2> QED BY <1>2, <1>4, <1>7, <2>1, <2>3, LocalMove
<1>8. ASSUME Settled(s), NEW outcome \in Decided, SettleExhaustedStep(t, s, outcome)
      PROVE  /\ TransactionKeeps(t) /\ ~StepIs("disconnected")'
             /\ publication'.status = "published" => publication.status = "published"
             /\ steps'[s].status = outcome
             /\ \A r \in Steps \ {s} : steps'[r] = steps[r]
  <2>1. /\ steps'[s].status = outcome
        /\ \A r \in Steps \ {s} : steps'[r] = steps[r]
    BY <1>5, <1>8 DEF Standing, TypeOK, StepRow, SettleExhaustedStep, DerivePublication
  <2>2. ~StepIs("disconnected")'
    BY <1>1, <1>2, <1>5, <1>8, <2>1 DEF PublisherIsSound, OwnerIsInformed, StepIs, At, Decided
  <2> QED BY <1>1, <1>3, <1>5, <1>8, <2>1, <2>2, SettleKeeps DEF Standing, Decided
<1>9. CASE Settled(s) /\ publishers[p].found
  <2>1. SettleExhaustedStep(t, s, "succeeded") /\ StepDone(p, s) /\ "succeeded" \in Decided
    BY <1>4, <1>9 DEF Decided
  <2>2. PublishersTyped' /\ OthersUntouched(p) /\ PublisherIsSound(p)'
    BY <1>1, <1>2, <1>5, <1>8, <1>9, <2>1, StepDoneIsSound
  <2>3. PublishedIsDelivered'
    BY <1>1, <1>2, <1>5, <1>8, <1>9, <2>1 DEF PublisherIsSound, EffectIsSeen,
         PublishedIsDelivered, remoteVars
  <2> QED BY <1>2, <1>8, <1>9, <2>1, <2>2, <2>3, TransactionMove
<1>10. CASE Settled(s) /\ ~publishers[p].found
  <2>1. /\ SettleExhaustedStep(t, s, "terminal_failed") /\ Err(p, Rejected, Away(s))
        /\ "terminal_failed" \in Decided
    BY <1>4, <1>10 DEF Decided
  <2>2. PublishersTyped' /\ OthersUntouched(p) /\ MovedTo(p, Away(s))
    BY <1>1, <1>2, <1>6, <2>1, PublisherMoves
  <2> HIDE DEF Away
  <2>3. /\ TransactionKeeps(t) /\ ~StepIs("disconnected")'
        /\ publication'.status = "published" => publication.status = "published"
        /\ steps'[s].status = "terminal_failed"
        /\ \A r \in Steps \ {s} : steps'[r] = steps[r]
    BY <1>8, <1>10, <2>1
  <2>4. WalkIsOrdered(p)' /\ EffectIsSeen(p)'
    BY <1>1, <1>2, <1>3, <1>6, <2>2, <2>3 DEF MovedTo, PublisherIsSound, WalkIsOrdered,
         EffectIsSeen, At, Walking, Stepping, Performing, TransactionKeeps
  <2>5. OwnerIsInformed(p)'
    <3>1. \A d \in Deliveries \ publishers[p].todo : steps'[d].status \in Decided
      BY <1>1, <1>2, <1>10, <2>3, DeliveriesAreSteps DEF PublisherIsSound, OwnerIsInformed,
           Walking, TransactionKeeps
    <3> QED BY <1>5, <1>6, <2>1, <2>2, <2>3, <3>1 DEF MovedTo, OwnerIsInformed, At, Performing
  <2>6. PublishedIsDelivered'
    BY <1>1, <1>2, <1>5, <2>3 DEF PublishedIsDelivered, remoteVars
  <2> QED BY <1>2, <2>2, <2>3, <2>4, <2>5, <2>6, TransactionMove DEF PublisherIsSound
<1> QED BY <1>7, <1>9, <1>10

(* A failure the batch goes on after has decided its step, or has failed   *)
(* the publication; a failure that parks a step ends the attempt.          *)
LEMMA RecordFailureIsSound ==
  ASSUME Standing, TypeOK', ClaimsInv', NEW p \in Publishers, RecordFailure(p)
  PROVE  DeliveryInv'
<1>1. /\ PublisherIsSound(p) /\ publishers[p] \in PublisherState /\ PublishersTyped
      /\ StepsStarted /\ PublishedIsDelivered
  BY DEF Standing, DeliveryInv, PublishersTyped
<1>2. UNCHANGED remoteVars /\ At(p, "erring") /\ ~At(p, "idle") /\ publishers[p].pc \in Stepping
  BY DEF RecordFailure, At, Stepping
<1> DEFINE t == publishers[p].token
           Recorded(s) == Owner(p) /\ steps[s].status \in {"running", "uncertain"}
<1>3. t \in Tokens /\ ~StepIs("absent")
  BY <1>1, <1>2, TokenIsOwn DEF PublisherIsSound, WalkIsOrdered, Walking
<1>4. PICK s \in publishers[p].step :
        /\ IF Recorded(s)
           THEN IF publishers[p].error.retry = "no" THEN FailPublicationStepTerminally(t, s)
                ELSE FailPublicationStep(t, s, "yes")
           ELSE UNCHANGED runVars
        /\ IF s \notin Deliveries THEN Goto(p, "failing")
           ELSE IF publishers[p].error.scope = "step" THEN StepDone(p, s)
           ELSE Err(p, Transient, "failing")
  BY DEF RecordFailure
<1>5. s \in Steps /\ publishers[p].step = {s}
  BY <1>1 DEF PublisherState, PublisherIsSound, WalkIsOrdered
<1>6. publishers[p].error.scope = "step" => publishers[p].error.retry = "no"
  BY <1>1 DEF PublisherState, Classification, Transient, Rejected, Unauthorized
<1>7. TransactionKeeps(t) /\ NothingDelivered
  BY <1>1, <1>3, <1>4, <1>5, FailStepTerminallyKeeps, FailStepKeeps, NothingKeeps DEF Standing
<1>8. CASE Goto(p, "failing") \/ Err(p, Transient, "failing")
  <2>1. PublishersTyped' /\ OthersUntouched(p) /\ MovedTo(p, "failing")
    BY <1>1, <1>2, <1>8, PublisherMoves DEF Busy, Classification
  <2>2. PublisherIsSound(p)'
    BY <1>1, <2>1 DEF MovedTo, PublisherIsSound, WalkIsOrdered, EffectIsSeen, OwnerIsInformed, At,
         Walking, Stepping, Performing
  <2> QED BY <1>1, <1>2, <1>7, <2>1, <2>2, NothingDeliveredIsFine, TransactionMove
<1>9. CASE StepDone(p, s) /\ publishers[p].error.retry = "no"
  <2>1. ASSUME Recorded(s) PROVE ~Owner(p)'
    <3>1. publication'.status = "failed"
      BY <1>1, <1>3, <1>4, <1>5, <1>9, <2>1, FailStepTerminallyKeeps DEF Standing
    <3> QED BY <3>1 DEF Owner, OwnsPublication, OwnedStatus
  <2>2. ASSUME ~Recorded(s), Owner(p)'
        PROVE  Owner(p) /\ ~StepIs("disconnected")' /\ steps'[s].status \in Decided
    <3>1. UNCHANGED runVars /\ publishers'[p].token = t
      BY <1>1, <1>4, <1>9, <2>2 DEF StepDone, PublishersTyped, PublisherState
    <3>2. Owner(p)
      BY <2>2, <3>1 DEF runVars, Owner, OwnsPublication
    <3> QED BY <1>1, <1>2, <1>5, <2>2, <3>1, <3>2 DEF runVars, PublisherIsSound, OwnerIsInformed,
               At, StepIs
  <2>3. PublishersTyped' /\ OthersUntouched(p) /\ PublisherIsSound(p)'
    BY <1>1, <1>2, <1>7, <1>9, <2>1, <2>2, StepDoneIsSound
  <2> QED BY <1>1, <1>2, <1>7, <2>3, NothingDeliveredIsFine, TransactionMove
<1> QED BY <1>4, <1>6, <1>8, <1>9

(* The publication is published when every step it has is delivered.       *)
LEMMA FinishIsSound ==
  ASSUME Standing, TypeOK', ClaimsInv', NEW p \in Publishers, Finish(p)
  PROVE  DeliveryInv'
<1>1. /\ PublisherIsSound(p) /\ PublishersTyped /\ StepsStarted /\ PublishedIsDelivered
  BY DEF Standing, DeliveryInv
<1>2. UNCHANGED remoteVars /\ At(p, "finishing") /\ ~At(p, "idle") /\ Stop(p)
  BY DEF Finish, At
<1> DEFINE t == publishers[p].token
<1>3. t \in Tokens /\ ~StepIs("absent")
  BY <1>1, <1>2, TokenIsOwn DEF PublisherIsSound, WalkIsOrdered, At
<1>4. PublishersTyped' /\ OthersUntouched(p) /\ PublisherIsSound(p)'
  BY <1>1, <1>2, StopMoves, IdleIsSound
<1>5. CASE UNCHANGED runVars
  BY <1>2, <1>5, StopIsSound
<1>6. CASE CompletePublication(t)
  <2>1. TransactionKeeps(t) /\ steps' = steps
    BY <1>1, <1>3, <1>6, CompleteKeeps DEF Standing, CompletePublication
  <2>2. PublishedIsDelivered'
    BY <1>1, <1>2, <1>3, <1>6, <2>1 DEF PublishedIsDelivered, CompletePublication, StepIs,
         remoteVars
  <2> QED BY <1>2, <1>4, <2>1, <2>2, TransactionMove
<1>7. CASE FailPublication(t, FALSE)
  <2>1. TransactionKeeps(t) /\ NothingDelivered
    BY <1>1, <1>3, <1>7, FailKeeps DEF Standing
  <2> QED BY <1>1, <1>2, <1>4, <2>1, NothingDeliveredIsFine, TransactionMove
<1> QED BY <1>5, <1>6, <1>7 DEF Finish

(* The attempt ends with an error.                                         *)
LEMMA FailIsSound ==
  ASSUME Standing, TypeOK', ClaimsInv', NEW p \in Publishers, Fail(p)
  PROVE  DeliveryInv'
<1>1. PublishersTyped /\ StepsStarted /\ PublishedIsDelivered
  BY DEF Standing, DeliveryInv
<1>2. UNCHANGED remoteVars /\ ~At(p, "idle") /\ Stop(p)
  BY DEF Fail, At
<1>3. PublishersTyped' /\ OthersUntouched(p) /\ PublisherIsSound(p)'
  BY <1>1, <1>2, StopMoves, IdleIsSound
<1>4. CASE UNCHANGED runVars
  BY <1>2, <1>4, StopIsSound
<1>5. CASE FailPublication(publishers[p].token, publishers[p].error.retry = "yes")
  <2>1. TransactionKeeps(publishers[p].token) /\ NothingDelivered
    BY <1>1, <1>2, <1>5, TokenIsOwn, FailKeeps DEF Standing
  <2> QED BY <1>1, <1>2, <1>3, <2>1, NothingDeliveredIsFine, TransactionMove
<1> QED BY <1>4, <1>5 DEF Fail

(* The effect: an owner finds the place empty, and whoever acts without    *)
(* the claim is remembered.                                                *)
LEMMA CreateIsSound ==
  ASSUME Standing, TypeOK', ClaimsInv', NEW p \in Publishers, Create(p)
  PROVE  DeliveryInv'
<1>1. /\ PublisherIsSound(p) /\ publishers[p] \in PublisherState /\ PublishersTyped /\ RemoteTyped
      /\ StepsStarted /\ PublishedIsDelivered /\ OwnersActOnce
  BY DEF Standing, DeliveryInv, PublishersTyped
<1>2. At(p, "creating") /\ ~At(p, "idle") /\ UNCHANGED runVars
  BY DEF Create, At
<1>3. PICK s \in publishers[p].step :
        /\ github' = [github EXCEPT ![s] = IF @ = "absent" THEN "one" ELSE "several"]
        /\ stray' = IF Owner(p) THEN stray ELSE stray \cup {s}
        /\ Goto(p, "completing") \/ Err(p, Transient, "erring")
  BY DEF Create
<1>4. s \in Steps /\ publishers[p].step = {s}
  BY <1>1 DEF PublisherState, PublisherIsSound, WalkIsOrdered
<1>5. PICK pc \in {"completing", "erring"} :
        PublishersTyped' /\ OthersUntouched(p) /\ MovedTo(p, pc)
  BY <1>1, <1>2, <1>3, PublisherMoves DEF Busy, Walking, Stepping, Classification
<1>6. /\ github'[s] = IF github[s] = "absent" THEN "one" ELSE "several"
      /\ \A r \in Steps \ {s} : github'[r] = github[r]
  BY <1>1, <1>3, <1>4 DEF RemoteTyped
<1>7. RemoteTyped'
  BY <1>1, <1>3, <1>4 DEF RemoteTyped
<1>8. NothingUndone
  BY <1>2, <1>3, <1>4, <1>6 DEF NothingUndone, runVars, StepIs
<1>9. ASSUME NEW q \in Publishers \ {p} PROVE PublisherIsSound(q)'
  <2>1. publishers'[q] = publishers[q]
    BY <1>5, <1>9 DEF OthersUntouched
  <2>2. ASSUME Owner(q)'
        PROVE  Owner(q) /\ steps' = steps /\ \A r \in Steps : r \notin stray' => github'[r] = github[r]
    <3>1. Owner(q) /\ steps' = steps
      BY <1>2, <2>1, <2>2 DEF runVars, Owner, OwnsPublication
    <3>2. publishers[q].token \in Tokens
      BY <3>1, IdleOwnsNothing DEF Standing, DeliveryInv
    <3>3. ~Owner(p)
      BY <1>1, <1>2, <3>1, <3>2, TokenIsOwn DEF Owner, OwnsPublication
    <3> QED BY <1>3, <1>6, <3>1, <3>3
  <2>3. OwnerUndisturbed(q)
    BY <2>2 DEF OwnerUndisturbed
  <2> QED BY <1>1, <1>8, <2>1, <2>3, UntouchedIsSound DEF Standing, DeliveryInv
<1>10. PublisherIsSound(p)'
  BY <1>1, <1>2, <1>4, <1>5, <1>6 DEF MovedTo, runVars, PublisherIsSound, WalkIsOrdered,
       EffectIsSeen, OwnerIsInformed, At, StepIs, Walking, Stepping, Performing, Owner,
       OwnsPublication
<1>11. OwnersActOnce'
  BY <1>1, <1>2, <1>3, <1>4, <1>6 DEF OwnersActOnce, PublisherIsSound, OwnerIsInformed, At
<1>12. PublishedIsDelivered' /\ StepsStarted'
  BY <1>1, <1>2, <1>8 DEF PublishedIsDelivered, StepsStarted, StepIs, NothingUndone, runVars
<1> QED BY <1>5, <1>7, <1>9, <1>10, <1>11, <1>12 DEF DeliveryInv

(* A new claim: a token nobody has, and no parked step.                    *)
LEMMA ClaimWorkIsSound ==
  ASSUME Standing, TypeOK', ClaimsInv', NEW p \in Publishers, ClaimWork(p)
  PROVE  DeliveryInv'
<1>1. /\ PublisherIsSound(p) /\ publishers[p] \in PublisherState /\ PublishersTyped
      /\ StepsStarted /\ PublishedIsDelivered
  BY DEF Standing, DeliveryInv, PublishersTyped
<1>2. At(p, "idle") /\ UNCHANGED remoteVars
  BY DEF ClaimWork
<1>3. PICK n \in NewClaim :
        /\ ClaimPublication(n)
        /\ publishers' = [publishers EXCEPT ![p].pc = "starting", ![p].token = n]
  BY DEF ClaimWork
<1>4. /\ n \in Tokens /\ n # NoToken /\ \A q \in Publishers : publishers[q].token # n
  BY <1>3, NullsAreNotValues DEF NewClaim, Fresh
<1> DEFINE new == [publishers[p] EXCEPT !.pc = "starting", !.token = n]
<1>5. new \in PublisherState /\ new.pc = "starting" /\ new.token = n /\ new.step = publishers[p].step
  BY <1>1, <1>4 DEF PublisherState, Busy
<1>6. publishers' = [publishers EXCEPT ![p] = new]
  BY <1>3
<1> HIDE DEF new
<1>7. publishers'[p] = new /\ OthersUntouched(p) /\ publishers' \in [Publishers -> PublisherState]
  BY <1>1, <1>5, <1>6 DEF PublishersTyped, OthersUntouched
<1>8. PublishersTyped'
  BY <1>1, <1>4, <1>5, <1>7 DEF PublishersTyped, OthersUntouched, At
<1>9. TransactionKeeps(n) /\ NothingDelivered
  BY <1>1, <1>3, <1>4, ClaimKeeps DEF Standing
<1>10. ~StepIs("disconnected")'
  BY <1>3 DEF ClaimPublication, ClaimablePublication, StepIs
<1>11. PublisherIsSound(p)'
  BY <1>1, <1>5, <1>7, <1>10 DEF PublisherIsSound, WalkIsOrdered, EffectIsSeen, OwnerIsInformed, At,
       Walking, Stepping, Performing
<1> QED BY <1>1, <1>2, <1>4, <1>7, <1>8, <1>9, <1>11, NothingDeliveredIsFine, ActorIsSound
        DEF Standing

(* Operators and the clock touch no publisher.                             *)
LEMMA BystandersAreSound ==
  ASSUME Standing, TypeOK', ClaimsInv', OperatorDecides \/ LeaseExpires
  PROVE  DeliveryInv'
<1>1. /\ PublishersTyped /\ RemoteTyped /\ StepsStarted /\ PublishedIsDelivered /\ OwnersActOnce
  BY DEF Standing, DeliveryInv
<1>2. UNCHANGED publishers /\ UNCHANGED remoteVars
  BY DEF OperatorDecides, LeaseExpires
<1>3. PublishersTyped' /\ RemoteTyped' /\ OwnersActOnce'
  BY <1>1, <1>2 DEF PublishersTyped, RemoteTyped, OwnersActOnce, remoteVars, At
<1>4. /\ NothingUndone /\ NothingDelivered /\ StepsStarted'
      /\ \A q \in Publishers : OwnerUndisturbed(q)
  <2>1. CASE ResumePublication \/ GiveUpPublication
    <3>1. /\ \A u \in Tokens : ~OwnsPublication(u)'
          /\ \A t \in Tokens : TransactionKeeps(t)
          /\ NothingDelivered
      BY <1>1, <2>1, DecisionKeeps DEF Standing
    <3>2. ASSUME NEW q \in Publishers PROVE ~Owner(q)'
      BY <1>2, <3>1 DEF ClaimsInv, ClaimsMatchStatus, TypeOK, PublicationRow, Owner,
           OwnsPublication, OwnedStatus, ResumePublication, GiveUpPublication, Released
    <3>3. NothingUndone /\ StepsStarted'
      BY <1>1, <1>2, <2>1 DEF NothingUndone, remoteVars, Standing, TypeOK, StepRow,
           StepIs, StepsStarted, Decided, ResumePublication, GiveUpPublication
    <3> QED BY <3>1, <3>2, <3>3 DEF OwnerUndisturbed
  <2>2. CASE LeaseExpires
    BY <1>1, <1>2, <2>2 DEF LeaseExpires, PublicationLeaseExpires, Standing, TypeOK, PublicationRow,
         NothingUndone, NothingDelivered, StepsStarted, StepIs, OwnerUndisturbed, Owner,
         OwnsPublication, remoteVars
  <2> QED BY <2>1, <2>2 DEF OperatorDecides
<1>5. \A q \in Publishers : PublisherIsSound(q)'
  BY <1>1, <1>2, <1>4, UntouchedIsSound DEF Standing, DeliveryInv
<1> QED BY <1>1, <1>2, <1>3, <1>4, <1>5, NothingDeliveredIsFine DEF DeliveryInv

----------------------------------------------------------------------------
(* Whatever the publishers do, Review Runs sees a step of its stores.      *)
LEMMA PublishersUseTheStores ==
  ASSUME PublishersTyped, PublicationNext
  PROVE  [Next]_runVars
<1>1. ASSUME NEW p \in Publishers, ~At(p, "idle"), NEW pc, AssertOwned(p, pc)
      PROVE  [Next]_runVars
  BY <1>1, TokenIsOwn DEF AssertOwned, Next, PublicationStep
<1>2. ASSUME NEW p \in Publishers, ClaimWork(p) PROVE [Next]_runVars
  BY <1>2 DEF ClaimWork, NewClaim, Next, PublicationStep
<1>3. CASE OperatorDecides \/ LeaseExpires
  BY <1>3 DEF OperatorDecides, LeaseExpires, Next, OperatorStep, Clock
<1>4. ASSUME NEW p \in Publishers, ~At(p, "idle"),
             \/ PublisherStep(p) \/ Heartbeat(p) \/ HeartbeatFails(p) \/ PublisherCrash(p)
      PROVE  [Next]_runVars
  <2> DEFINE t == publishers[p].token
  <2>1. t \in Tokens /\ publishers[p].step \subseteq Steps
    BY <1>4, TokenIsOwn DEF PublishersTyped, PublisherState
  <2> USE DEF Next, PublicationStep
  <2>2. CASE Begin(p) \/ AssertClaim(p) \/ Confirm(p) \/ Conclude(p)
    BY <1>1, <1>4, <2>2 DEF Begin, AssertClaim, Confirm, Conclude
  <2>3. CASE CannotBegin(p) \/ List(p) \/ Deliver(p) \/ Summarize(p) \/ Look(p) \/ Create(p)
             \/ GitHubFails(p) \/ Reconcile(p) \/ HeartbeatFails(p) \/ PublisherCrash(p)
    BY <2>3 DEF CannotBegin, List, Deliver, Summarize, Look, Create, GitHubFails, Reconcile,
         HeartbeatFails, PublisherCrash
  <2>4. CASE Initialize(p) \/ Heartbeat(p)
    BY <2>1, <2>4 DEF Initialize, Heartbeat
  <2>5. CASE ClaimStep(p)
    BY <2>1, <2>5 DEF ClaimStep
  <2>6. CASE RefuseClaim(p)
    BY <2>1, <2>6 DEF RefuseClaim
  <2>7. CASE Complete(p)
    BY <2>1, <2>7 DEF Complete
  <2>8. CASE Settle(p)
    BY <2>1, <2>8 DEF Settle
  <2>9. CASE RecordFailure(p)
    BY <2>1, <2>9 DEF RecordFailure
  <2>10. CASE Finish(p)
    BY <2>1, <2>10 DEF Finish
  <2>11. CASE Fail(p)
    BY <2>1, <2>11 DEF Fail
  <2> QED BY <1>4, <2>2, <2>3, <2>4, <2>5, <2>6, <2>7, <2>8, <2>9, <2>10, <2>11 DEF PublisherStep
<1>5. ASSUME NEW p \in Publishers,
             \/ PublisherStep(p) \/ Heartbeat(p) \/ HeartbeatFails(p) \/ PublisherCrash(p)
      PROVE  ~At(p, "idle")
  BY <1>5 DEF PublisherStep, Begin, AssertClaim, Confirm, Conclude, CannotBegin, List, Deliver,
       Summarize, Look, Create, GitHubFails, Reconcile, HeartbeatFails, PublisherCrash, Initialize,
       Heartbeat, ClaimStep, RefuseClaim, Complete, Settle, RecordFailure, Finish, Fail, At
<1> QED BY <1>2, <1>3, <1>4, <1>5 DEF PublicationNext

(* Every step of a publisher, an operator and the clock, and stuttering.   *)
LEMMA NextDelivery ==
  Standing /\ [PublicationNext]_publicationVars => Standing'
<1> SUFFICES ASSUME Standing, [PublicationNext]_publicationVars PROVE Standing'
  OBVIOUS
<1>1. [Next]_runVars
  BY PublishersUseTheStores DEF Standing, DeliveryInv, publicationVars, runVars
<1>2. TypeOK' /\ ClaimsInv'
  BY <1>1, NextType, NextClaims DEF Standing
<1>3. CASE UNCHANGED publicationVars
  <2>1. /\ RemoteTyped' /\ PublishersTyped' /\ StepsStarted' /\ PublishedIsDelivered'
        /\ OwnersActOnce'
    BY <1>3 DEF Standing, DeliveryInv, publicationVars, runVars, remoteVars, RemoteTyped,
         PublishersTyped, StepsStarted, PublishedIsDelivered, OwnersActOnce, At, StepIs
  <2>2. NothingUndone /\ \A p \in Publishers : OwnerUndisturbed(p)
    BY <1>3 DEF publicationVars, runVars, remoteVars, NothingUndone, OwnerUndisturbed, StepIs, Owner,
         OwnsPublication
  <2>3. \A p \in Publishers : PublisherIsSound(p)'
    BY <1>3, <2>2, UntouchedIsSound DEF Standing, DeliveryInv, publicationVars
  <2> QED BY <1>2, <2>1, <2>3 DEF Standing, DeliveryInv
<1>4. CASE OperatorDecides \/ LeaseExpires
  BY <1>2, <1>4, BystandersAreSound DEF Standing
<1>5. ASSUME NEW p \in Publishers,
             \/ ClaimWork(p) \/ PublisherStep(p)
             \/ Heartbeat(p) \/ HeartbeatFails(p) \/ PublisherCrash(p)
      PROVE  DeliveryInv'
  <2>1. CASE PublisherStep(p)
    BY <1>2, <2>1, AssertionsAreSound, InitializeIsSound, CannotBeginIsSound, ListIsSound,
       DeliverIsSound, SummarizeIsSound, ClaimStepIsSound, RefuseClaimIsSound, LookIsSound,
       CreateIsSound, GitHubFailsIsSound, CompleteIsSound, ReconcileIsSound, SettleIsSound,
       RecordFailureIsSound, FinishIsSound, FailIsSound DEF PublisherStep
  <2>2. CASE PublisherCrash(p)
    BY <1>2, <2>2, StopIsSound DEF PublisherCrash
  <2> QED BY <1>2, <1>5, <2>1, <2>2, ClaimWorkIsSound, HeartbeatIsSound, HeartbeatFailsIsSound
<1> QED BY <1>2, <1>3, <1>4, <1>5 DEF Standing, PublicationNext

(* Nothing is delivered when the run waits for its first publisher.        *)
LEMMA InitDelivery == PublicationInit => Standing
<1> SUFFICES ASSUME PublicationInit PROVE Standing
  OBVIOUS
<1>1. TypeOK
  <2>1. PICK b \in Bundles :
          /\ execution = [status |-> "succeeded", token |-> NoToken, lease |-> "expired",
                          attempts |-> 0, input |-> b]
          /\ publication = [status |-> "pending", token |-> NoToken, lease |-> "expired",
                            input |-> b]
          /\ candidates = [o \in Bundles |-> IF o = b THEN "selected" ELSE "absent"]
    BY DEF PublicationInit
  <2>2. execution \in ExecutionRow
    BY <2>1 DEF ExecutionRow, ExecutionStatus, Lease
  <2>3. publication \in PublicationRow
    BY <2>1 DEF PublicationRow, PublicationStatus, Lease
  <2>4. candidates \in [Bundles -> CandidateStatus]
    BY <2>1 DEF CandidateStatus
  <2>5. preparation \in PreparationRow
    <3>1. preparation = [status |-> "submitted", token |-> NoToken, lease |-> "expired",
                         attempts |-> 1, due |-> "now", input |-> "checkpointed"]
      BY DEF PublicationInit
    <3> QED BY <3>1 DEF PreparationRow, PreparationStatus, Lease
  <2>6. steps \in [Steps -> StepRow]
    BY DEF PublicationInit, StepRow, StepStatus
  <2>7. notices \in NoticeRows
    BY DEF PublicationInit, NoticeRows, NoticeStatus, Axis, NoticeKind
  <2>8. log \in AuditTrail
    <3>1. log = [preparation |-> [to |-> "submitted", edges |-> "joined"],
                 execution |-> [to |-> "succeeded", edges |-> "joined"],
                 publication |-> [to |-> "pending", edges |-> "joined"]]
      BY DEF PublicationInit
    <3> QED BY <3>1 DEF AuditTrail, Trail, Edges, PreparationStatus, ExecutionStatus, PublicationStatus
  <2> QED BY <2>2, <2>3, <2>4, <2>5, <2>6, <2>7, <2>8 DEF TypeOK
<1>2. ClaimsInv
  BY DEF PublicationInit, ClaimsInv, ClaimsMatchStatus, OwnedStatus
<1>3. \A p \in Publishers : publishers[p] = IdlePublisher
  BY DEF PublicationInit
<1>4. IdlePublisher \in PublisherState
  BY DEF IdlePublisher, PublisherState, Classification
<1>5. RemoteTyped /\ PublishersTyped
  BY <1>3, <1>4 DEF PublicationInit, RemoteTyped, PublishersTyped, IdlePublisher, At
<1>6. StepsStarted /\ PublishedIsDelivered /\ OwnersActOnce
  BY DEF PublicationInit, StepsStarted, PublishedIsDelivered, OwnersActOnce, StepIs
<1>7. ASSUME NEW p \in Publishers PROVE PublisherIsSound(p)
  BY <1>2, <1>3 DEF PublicationInit, PublisherIsSound, WalkIsOrdered, EffectIsSeen, IdlePublisher, At,
       Owner, OwnsPublication, OwnedStatus, Walking, Stepping, Performing
<1> QED BY <1>1, <1>2, <1>5, <1>6, <1>7 DEF Standing, DeliveryInv

----------------------------------------------------------------------------
(* What Review Runs calls delivered is on GitHub, for any number of        *)
(* publishers that crash, lose answers, are overtaken and go on: a         *)
(* succeeded step has its effect, and a published run has all of them.     *)
THEOREM PublishedIsAlwaysDelivered == PublicationSpec => []PublishedIsDelivered
<1>1. Standing => PublishedIsDelivered
  BY DEF Standing, DeliveryInv
<1> QED BY <1>1, InitDelivery, NextDelivery, PTL DEF PublicationSpec

(* Looking before acting is enough: an effect that is there twice was      *)
(* performed by somebody whose claim had been taken over.                  *)
THEOREM OwnersAlwaysActOnce == PublicationSpec => []OwnersActOnce
<1>1. Standing => OwnersActOnce
  BY DEF Standing, DeliveryInv
<1> QED BY <1>1, InitDelivery, NextDelivery, PTL DEF PublicationSpec

(* Only one action of a publisher reaches GitHub.                          *)
LEMMA EffectsAreCreated ==
  ASSUME PublicationNext, ~UNCHANGED remoteVars
  PROVE  \E p \in Publishers : Create(p)
  BY DEF PublicationNext, PublisherStep, ClaimWork, Begin, AssertClaim, Confirm, Conclude,
       CannotBegin, List, Deliver, Summarize, Look, GitHubFails, Reconcile, HeartbeatFails,
       PublisherCrash, Initialize, Heartbeat, ClaimStep, RefuseClaim, Complete, Settle,
       RecordFailure, Finish, Fail, OperatorDecides, LeaseExpires

(* Under a valid claim only the step that runs under that claim is         *)
(* performed, whoever reached GitHub in the meantime.                      *)
THEOREM OwnersPerformTheirOwnStep == PublicationSpec => OwnerPerformsItsOwnStep
<1>1. Standing /\ [PublicationNext]_publicationVars => [OwnStepPerformed]_publicationVars
  <2> SUFFICES ASSUME Standing, NEW p \in Publishers, At(p, "creating"), Owner(p)
               PROVE  \E s \in publishers[p].step :
                        steps[s].status = "running" /\ steps[s].by = publishers[p].token
    BY DEF OwnStepPerformed
  <2>1. PublisherIsSound(p)
    BY DEF Standing, DeliveryInv
  <2> QED BY <2>1 DEF PublisherIsSound, WalkIsOrdered, OwnerIsInformed, At, Stepping, Performing
<1> QED BY <1>1, InitDelivery, NextDelivery, PTL DEF PublicationSpec, OwnerPerformsItsOwnStep

(* A summary step's effect is created after every delivery was decided,    *)
(* even by a publisher that has lost its claim since.                      *)
THEOREM SummaryAlwaysFollows == PublicationSpec => SummaryFollowsDeliveries
<1>1. Standing /\ [PublicationNext]_publicationVars => [SummaryAfterDeliveries]_publicationVars
  <2> SUFFICES ASSUME Standing, PublicationNext, NEW s \in Steps \ Deliveries,
                      github'[s] # github[s], NEW d \in Deliveries
               PROVE  steps[d].status \in Decided
    BY DEF SummaryAfterDeliveries, Decided
  <2>1. PICK p \in Publishers : Create(p)
    BY EffectsAreCreated DEF remoteVars
  <2>2. PublisherIsSound(p) /\ RemoteTyped /\ At(p, "creating")
    BY <2>1 DEF Standing, DeliveryInv, Create
  <2>3. s \in publishers[p].step
    BY <2>1, <2>2 DEF Create, RemoteTyped
  <2> QED BY <2>2, <2>3 DEF PublisherIsSound, EffectIsSeen, At, Performing
<1> QED BY <1>1, InitDelivery, NextDelivery, PTL DEF PublicationSpec, SummaryFollowsDeliveries

----------------------------------------------------------------------------
(* A run that waits for its first publisher is on record as one that was   *)
(* prepared and executed.                                                  *)
LEMMA DeliveryStartsRecord == PublicationInit => RecordInv
<1> SUFFICES ASSUME PublicationInit PROVE RecordInv
  OBVIOUS
<1>1. ClaimsInv
  BY InitDelivery DEF Standing
<1>2. /\ preparation.status = "submitted" /\ execution.status = "succeeded"
      /\ publication.status = "pending"
  BY DEF PublicationInit
<1>3. TrailInv
  BY <1>2 DEF PublicationInit, TrailInv, Ends
<1>4. AxesInv /\ TellingInv /\ DoubtInv
  BY <1>2 DEF AxesInv, PreparationNeverContradicted, AxesAgree, TellingInv, DoubtInv, OwnedStatus
<1> QED BY <1>1, <1>3, <1>4 DEF RecordInv

(* Every step of a publisher, an operator and the clock keeps the record   *)
(* of the run and follows the lifecycle.                                   *)
LEMMA DeliveryKeepsRecord ==
  Standing /\ RecordInv /\ [PublicationNext]_publicationVars => RecordInv' /\ LifecycleMove
<1> SUFFICES ASSUME Standing, RecordInv, [PublicationNext]_publicationVars
             PROVE  RecordInv' /\ LifecycleMove
  OBVIOUS
<1>1. [Next]_runVars
  BY PublishersUseTheStores DEF Standing, DeliveryInv, publicationVars, runVars
<1> QED BY <1>1, NextRecords DEF Standing

(* What the stores promise of the rows holds with the publishers around    *)
(* them, the ones whose claim was taken over included.                     *)
THEOREM DeliveryIsRecorded == PublicationSpec => []RecordStands
  BY RecordIsEnough, InitDelivery, NextDelivery, DeliveryStartsRecord, DeliveryKeepsRecord, PTL
     DEF PublicationSpec

(* Delivering moves the axes along the edges of the lifecycle and no       *)
(* others: a step's outcome never takes a decided publication back.        *)
THEOREM DeliveryFollowsLifecycle ==
  PublicationSpec => [][Lifecycle!LifecycleNext]_(Lifecycle!axes)
<1>1. Standing /\ RecordInv /\ [PublicationNext]_publicationVars
        => [Lifecycle!LifecycleNext]_(Lifecycle!axes)
  BY DeliveryKeepsRecord DEF LifecycleMove
<1> QED BY <1>1, InitDelivery, NextDelivery, DeliveryStartsRecord, DeliveryKeepsRecord, PTL
        DEF PublicationSpec

=============================================================================
