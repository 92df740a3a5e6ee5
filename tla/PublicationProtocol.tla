------------------------ MODULE PublicationProtocol -------------------------
(***************************************************************************)
(* Delivering a result: publishers of the GitHub Integration claim the     *)
(* publication, walk its steps, and perform each step's side effect on     *)
(* GitHub, while Review Runs only sees what they record.  A publisher may  *)
(* crash, lose an answer, or go on after its lease ran out and somebody    *)
(* else took over.                                                         *)
(*                                                                         *)
(*   publishers  what each publisher has in memory: where it is, its claim *)
(*               token, the steps it still has to walk, the step in hand,  *)
(*               the error it is handling, and whether a heartbeat failed  *)
(*   github      the side effect of each step as GitHub holds it           *)
(*   stray       history: the steps whose effect was performed by someone  *)
(*               who no longer held the claim                              *)
(*                                                                         *)
(* GitHub applies a request before its sender gives up on it, or never.    *)
(***************************************************************************)
EXTENDS ReviewRunStore, TLC

CONSTANTS
    Publishers,
    Deliveries   \* the repository:delivery:* steps; the others are run by runPublicationStep

ASSUME DeliveriesAreSteps == Deliveries \subseteq Steps

VARIABLES publishers, github, stray

remoteVars == <<github, stray>>
publicationVars == <<runVars, publishers, remoteVars>>

(* For TLC.  Deliveries are not interchangeable with the other steps, so   *)
(* the steps are not permuted.                                             *)
Symmetry == Permutations(Tokens) \cup Permutations(Publishers)

(* classifyPublicationFailure: may another attempt differ, and what does   *)
(* the failure stop.  A retryable failure always stops the publication.    *)
Transient == [retry |-> "yes", scope |-> "publication"]
Rejected == [retry |-> "no", scope |-> "step"]
Unauthorized == [retry |-> "no", scope |-> "publication"]
Classification == {Transient, Rejected, Unauthorized}

IdlePublisher ==
    [pc |-> "idle", token |-> NoToken, todo |-> {}, step |-> {}, found |-> FALSE,
     error |-> Transient, lost |-> FALSE]

NewClaim == Fresh \ {publishers[p].token : p \in Publishers}

At(p, pc) == publishers[p].pc = pc

Owner(p) == OwnsPublication(publishers[p].token)

Goto(p, pc) == publishers' = [publishers EXCEPT ![p].pc = pc]

Stop(p) == publishers' = [publishers EXCEPT ![p] = IdlePublisher]

Err(p, error, pc) == publishers' = [publishers EXCEPT ![p].error = error, ![p].pc = pc]

(* After a step: the batch of deliveries or the summary goes on.           *)
StepDone(p, s) ==
    publishers' = [publishers EXCEPT
      ![p].pc = IF s \in Deliveries THEN "delivering" ELSE "summarizing",
      ![p].todo = @ \ {s}, ![p].step = {}, ![p].found = FALSE, ![p].error = Transient]

----------------------------------------------------------------------------
(* publishReviewRunsOnce and withPublicationHeartbeat.                     *)
ClaimWork(p) ==
    /\ At(p, "idle")
    /\ \E n \in NewClaim :
         /\ ClaimPublication(n)
         /\ publishers' = [publishers EXCEPT ![p].pc = "starting", ![p].token = n]
    /\ UNCHANGED remoteVars

(* renewSerially: once a renewal has failed, ownership is not believed     *)
(* again within this attempt, and nothing more is recorded under it.       *)
AssertOwned(p, pc) ==
    IF publishers[p].lost \/ ~Owner(p)
    THEN Stop(p) /\ UNCHANGED runVars
    ELSE RenewPublication(publishers[p].token) /\ Goto(p, pc)

Heartbeat(p) ==
    /\ ~At(p, "idle") /\ ~publishers[p].lost
    /\ Owner(p)
    /\ RenewPublication(publishers[p].token)
    /\ UNCHANGED <<publishers, remoteVars>>

HeartbeatFails(p) ==
    /\ ~At(p, "idle") /\ ~publishers[p].lost
    /\ publishers' = [publishers EXCEPT ![p].lost = TRUE]
    /\ UNCHANGED <<runVars, remoteVars>>

Begin(p) == At(p, "starting") /\ AssertOwned(p, "initializing") /\ UNCHANGED remoteVars

(* The stored result is invalid, or GitHub gives no installation.          *)
CannotBegin(p) ==
    /\ At(p, "initializing")
    /\ \E error \in Classification : Err(p, error, "failing")
    /\ UNCHANGED <<runVars, remoteVars>>

Initialize(p) ==
    /\ At(p, "initializing")
    /\ IF ~Owner(p) THEN Err(p, Transient, "failing") /\ UNCHANGED runVars
       ELSE /\ Goto(p, "listing")
            /\ IF \A s \in Steps : steps[s].status = "absent"
               THEN InitializePublicationSteps(publishers[p].token)
               ELSE UNCHANGED runVars
    /\ UNCHANGED remoteVars

----------------------------------------------------------------------------
(* publishDeliveryDraftPrs lists the steps once: what is decided by then   *)
(* is not looked at again.                                                 *)
List(p) ==
    /\ At(p, "listing")
    /\ publishers' = [publishers EXCEPT ![p].pc = "delivering",
         ![p].todo = {s \in Deliveries :
                        steps[s].status \notin {"succeeded", "terminal_failed"}}]
    /\ UNCHANGED <<runVars, remoteVars>>

Deliver(p) ==
    /\ At(p, "delivering")
    /\ \/ \E s \in publishers[p].todo :
            publishers' = [publishers EXCEPT ![p].pc = "claiming", ![p].step = {s}]
       \/ /\ publishers[p].todo = {}
          /\ publishers' = [publishers EXCEPT ![p].pc = "summarizing",
                                              ![p].todo = Steps \ Deliveries]
    /\ UNCHANGED <<runVars, remoteVars>>

(* runPublicationStep reads the step first: a succeeded one is not redone. *)
Summarize(p) ==
    /\ At(p, "summarizing")
    /\ \/ \E s \in publishers[p].todo :
            IF steps[s].status = "succeeded" THEN StepDone(p, s)
            ELSE publishers' = [publishers EXCEPT ![p].pc = "claiming", ![p].step = {s}]
       \/ publishers[p].todo = {} /\ Goto(p, "concluding")
    /\ UNCHANGED <<runVars, remoteVars>>

----------------------------------------------------------------------------
(* requirePublicationStepClaim.  The answer of a claim may be lost.        *)
ClaimStep(p) ==
    /\ At(p, "claiming")
    /\ \E s \in publishers[p].step :
         IF Owner(p) /\ ClaimableStep(publishers[p].token, s)
         THEN /\ ClaimPublicationStep(publishers[p].token, s)
              /\ \/ Goto(p, "asserting")
                 \/ Err(p, Transient, IF s \in Deliveries THEN "erring" ELSE "failing")
         ELSE Goto(p, "refused") /\ UNCHANGED runVars
    /\ UNCHANGED remoteVars

(* A mutant of RefuseClaim: a step that is not claimable is run anyway.    *)
RefuseClaim_GoesOn(p) ==
    /\ At(p, "refused")
    /\ \E s \in publishers[p].step : RefuseStepClaim(publishers[p].token, s)
    /\ Goto(p, "asserting")
    /\ UNCHANGED remoteVars

(* The second transaction: exhausted, or not claimable (HTTP 409).         *)
RefuseClaim(p) ==
    /\ At(p, "refused")
    /\ \E s \in publishers[p].step :
         /\ RefuseStepClaim(publishers[p].token, s)
         /\ IF NeedsReconciliation(publishers[p].token, s) THEN Goto(p, "reconciling")
            ELSE Err(p, Rejected, IF s \in Deliveries THEN "erring" ELSE "failing")
    /\ UNCHANGED remoteVars

(* The effect: assert the claim, look for what an earlier attempt left,    *)
(* assert the claim again, create.                                         *)
AssertClaim(p) == At(p, "asserting") /\ AssertOwned(p, "looking") /\ UNCHANGED remoteVars

(* A mutant of Look: nobody looks, and the effect is created anyway.       *)
Look_CreatesAnyway(p) ==
    /\ At(p, "looking")
    /\ Goto(p, "confirming")
    /\ UNCHANGED <<runVars, remoteVars>>

Look(p) ==
    /\ At(p, "looking")
    /\ \E s \in publishers[p].step :
         Goto(p, IF github[s] = "absent" THEN "confirming" ELSE "completing")
    /\ UNCHANGED <<runVars, remoteVars>>

Confirm(p) == At(p, "confirming") /\ AssertOwned(p, "creating") /\ UNCHANGED remoteVars

Create(p) ==
    /\ At(p, "creating")
    /\ \E s \in publishers[p].step :
         /\ github' = [github EXCEPT ![s] = IF @ = "absent" THEN "one" ELSE "several"]
         /\ stray' = IF Owner(p) THEN stray ELSE stray \cup {s}
         /\ Goto(p, "completing") \/ Err(p, Transient, "erring")
    /\ UNCHANGED runVars

GitHubFails(p) ==
    /\ At(p, "looking") \/ At(p, "creating")
    /\ \E error \in Classification : Err(p, error, "erring")
    /\ UNCHANGED <<runVars, remoteVars>>

Complete(p) ==
    /\ At(p, "completing")
    /\ \E s \in publishers[p].step :
         IF Owner(p) /\ steps[s].status = "running"
         THEN /\ CompletePublicationStep(publishers[p].token, s)
              /\ StepDone(p, s)
         ELSE Stop(p) /\ UNCHANGED runVars
    /\ UNCHANGED remoteVars

----------------------------------------------------------------------------
(* settleExhaustedStep: look at GitHub, then record what was found.  An    *)
(* error of the look is recorded by the delivery batch, and by nobody for  *)
(* a step of runPublicationStep.                                           *)
Reconcile(p) ==
    /\ At(p, "reconciling")
    /\ \E s \in publishers[p].step :
         \/ publishers' = [publishers EXCEPT ![p].pc = "settling",
                                             ![p].found = github[s] # "absent"]
         \/ \E error \in Classification :
              Err(p, error, IF s \in Deliveries THEN "erring" ELSE "failing")
    /\ UNCHANGED <<runVars, remoteVars>>

(* A mutant of Settle: an exhausted step is taken for delivered.           *)
Settle_Optimistic(p) ==
    /\ At(p, "settling")
    /\ \E s \in publishers[p].step :
         IF Owner(p) /\ steps[s].status = "uncertain" /\ steps[s].attempts >= MaxStep
         THEN SettleExhaustedStep(publishers[p].token, s, "succeeded") /\ StepDone(p, s)
         ELSE Err(p, Rejected, "failing") /\ UNCHANGED runVars
    /\ UNCHANGED remoteVars

Settle(p) ==
    /\ At(p, "settling")
    /\ \E s \in publishers[p].step :
         LET outcome == IF publishers[p].found THEN "succeeded" ELSE "terminal_failed"
             settled == /\ Owner(p)
                        /\ steps[s].status = "uncertain"
                        /\ steps[s].attempts >= MaxStep
         IN /\ IF settled THEN SettleExhaustedStep(publishers[p].token, s, outcome)
                          ELSE UNCHANGED runVars
            /\ IF settled /\ publishers[p].found THEN StepDone(p, s)
               ELSE Err(p, Rejected, IF s \in Deliveries THEN "erring" ELSE "failing")
    /\ UNCHANGED remoteVars

(* A mutant of RecordFailure: the batch goes on after every failure.       *)
RecordFailure_GoesOn(p) ==
    /\ At(p, "erring")
    /\ \E s \in publishers[p].step :
         /\ IF Owner(p) /\ steps[s].status \in {"running", "uncertain"}
            THEN IF publishers[p].error.retry = "no"
                 THEN FailPublicationStepTerminally(publishers[p].token, s)
                 ELSE FailPublicationStep(publishers[p].token, s, "yes")
            ELSE UNCHANGED runVars
         /\ IF s \in Deliveries THEN StepDone(p, s) ELSE Goto(p, "failing")
    /\ UNCHANGED remoteVars

(* The catch blocks.  A failed step of runPublicationStep is rethrown with *)
(* its classification.  The batch of deliveries goes on after a step's own *)
(* failure, and wraps any other in an error without a status, which the    *)
(* coordinator takes for a transient one.                                  *)
RecordFailure(p) ==
    /\ At(p, "erring")
    /\ \E s \in publishers[p].step :
         /\ IF Owner(p) /\ steps[s].status \in {"running", "uncertain"}
            THEN IF publishers[p].error.retry = "no"
                 THEN FailPublicationStepTerminally(publishers[p].token, s)
                 ELSE FailPublicationStep(publishers[p].token, s, "yes")
            ELSE UNCHANGED runVars
         /\ IF s \notin Deliveries THEN Goto(p, "failing")
            ELSE IF publishers[p].error.scope = "step" THEN StepDone(p, s)
            ELSE Err(p, Transient, "failing")
    /\ UNCHANGED remoteVars

----------------------------------------------------------------------------
Conclude(p) == At(p, "concluding") /\ AssertOwned(p, "finishing") /\ UNCHANGED remoteVars

Finish(p) ==
    /\ At(p, "finishing")
    /\ IF ~Owner(p) THEN UNCHANGED runVars
       ELSE IF \A s \in Steps : steps[s].status \in {"absent", "succeeded"}
            THEN CompletePublication(publishers[p].token)
            ELSE FailPublication(publishers[p].token, FALSE)
    /\ Stop(p)
    /\ UNCHANGED remoteVars

Fail(p) ==
    /\ At(p, "failing")
    /\ IF Owner(p)
       THEN FailPublication(publishers[p].token, publishers[p].error.retry = "yes")
       ELSE UNCHANGED runVars
    /\ Stop(p)
    /\ UNCHANGED remoteVars

PublisherCrash(p) ==
    /\ ~At(p, "idle")
    /\ Stop(p)
    /\ UNCHANGED <<runVars, remoteVars>>

OperatorDecides ==
    /\ ResumePublication \/ GiveUpPublication
    /\ UNCHANGED <<publishers, remoteVars>>

LeaseExpires == PublicationLeaseExpires /\ UNCHANGED <<publishers, remoteVars>>

----------------------------------------------------------------------------
(* The run has succeeded at the provider and waits for a publisher.        *)
PublicationInit ==
    /\ preparation = [status |-> "submitted", token |-> NoToken, lease |-> "expired",
                      attempts |-> 1, due |-> "now", input |-> "checkpointed"]
    /\ \E b \in Bundles :
         /\ execution = [status |-> "succeeded", token |-> NoToken, lease |-> "expired",
                         attempts |-> 0, input |-> b]
         /\ publication = [status |-> "pending", token |-> NoToken, lease |-> "expired",
                           input |-> b]
         /\ candidates = [o \in Bundles |-> IF o = b THEN "selected" ELSE "absent"]
    /\ steps = [s \in Steps |-> [status |-> "absent", by |-> NoToken,
                                 attempts |-> 0, recoveries |-> 0]]
    /\ notices = [axis \in Axis |-> [kind \in NoticeKind |-> "absent"]]
    /\ log = [preparation |-> [to |-> "submitted", edges |-> "joined"],
              execution |-> [to |-> "succeeded", edges |-> "joined"],
              publication |-> [to |-> "pending", edges |-> "joined"]]
    /\ publishers = [p \in Publishers |-> IdlePublisher]
    /\ github = [s \in Steps |-> "absent"] /\ stray = {}

PublisherStep(p) ==
    \/ Begin(p) \/ Initialize(p) \/ CannotBegin(p)
    \/ List(p) \/ Deliver(p) \/ Summarize(p)
    \/ ClaimStep(p) \/ RefuseClaim(p)
    \/ AssertClaim(p) \/ Look(p) \/ Confirm(p) \/ Create(p) \/ GitHubFails(p) \/ Complete(p)
    \/ Reconcile(p) \/ Settle(p) \/ RecordFailure(p)
    \/ Conclude(p) \/ Finish(p) \/ Fail(p)

PublicationNext ==
    \/ \E p \in Publishers :
         \/ ClaimWork(p) \/ PublisherStep(p)
         \/ Heartbeat(p) \/ HeartbeatFails(p) \/ PublisherCrash(p)
    \/ OperatorDecides
    \/ LeaseExpires

PublicationSpec == PublicationInit /\ [][PublicationNext]_publicationVars

----------------------------------------------------------------------------
(* What Review Runs calls delivered is on GitHub: a succeeded step has its *)
(* effect, and a published run has all of them, although Review Runs never *)
(* looks and every recorder may be a successor of the one that acted.      *)
PublishedIsDelivered ==
    /\ \A s \in Steps : steps[s].status = "succeeded" => github[s] # "absent"
    /\ publication.status = "published" => \A s \in Steps : github[s] # "absent"

(* What one step does in the name of an owner.                             *)
OwnStepPerformed ==
    \A p \in Publishers :
      At(p, "creating") /\ Owner(p) /\ github' # github
        => \E s \in publishers[p].step :
             steps[s].status = "running" /\ steps[s].by = publishers[p].token

(* A publisher that holds the claim performs an effect only for the step   *)
(* it has running: a step that is decided, or that the next owner has to   *)
(* reconcile, is not performed again under a valid claim.                  *)
OwnerPerformsItsOwnStep == [][OwnStepPerformed]_publicationVars

(* One step, one effect, through every crash, lost answer, takeover and    *)
(* retry, as long as nobody acts after losing the claim: a look by the     *)
(* owner before the act is enough to keep owners from repeating each other.*)
OwnersActOnce == \A s \in Steps : github[s] = "several" => s \in stray

(* What one step does to the effect of a summary step.                     *)
SummaryAfterDeliveries ==
    \A s \in Steps \ Deliveries :
      github'[s] # github[s] /\ stray' = stray
        => \A d \in Deliveries : steps[d].status \in {"succeeded", "terminal_failed"}

(* The summary comes last: the owner creates a summary step's effect only  *)
(* when every delivery is decided, so the summary never misses one that a  *)
(* later attempt of the same publication would still deliver.              *)
SummaryFollowsDeliveries == [][SummaryAfterDeliveries]_publicationVars

(* "Reconciliation cannot conclude within its budget, parking the step and *)
(* publication": an open publication with a parked step is parked itself,  *)
(* where the operator sees it.                                             *)
ParkedStepParksPublication ==
    StepIs("disconnected") /\ publication.status \notin {"published", "failed", "skipped"}
      => publication.status = "disconnected"

=============================================================================
