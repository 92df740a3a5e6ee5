-------------------------- MODULE SubmissionProofs --------------------------
(***************************************************************************)
(* Handing over the input, for any number of connectors, handlers,         *)
(* coordinators, bundles, tokens and attempts: one run is one input, what  *)
(* was handed over and what is recorded of it agree, a published bundle is *)
(* whole, and what is recorded of an execution is what became of it.       *)
(*                                                                         *)
(* The parties go on after their claims were taken over, so nothing can be *)
(* said of them that a claim would have to keep true.  The inductive       *)
(* invariant says only what no transaction takes back: an input that was   *)
(* saved is frozen, an uploaded bundle stays, and the provider does not    *)
(* forget what it accepted.                                                *)
(***************************************************************************)
EXTENDS SubmissionProtocol, RunClaimsProofs, InputBundles, ExecutionCalls

Accepted == {"queued", "running", "succeeded"}

Doubtful == {"uncertain", "disconnected"}

Uploaded == {"present", "selected"}

ConnectorPc ==
  {"idle", "recovering", "building", "uploading", "publishing", "ready", "calling"}

HandlerPc == {"idle", "saving", "unsaved", "submitting", "marking", "refused", "unknown"}

CoordinatorPc ==
  {"idle", "counting", "disconnecting", "claiming", "replaying", "completing",
   "recording", "refused"}

Replaying == {"replaying", "completing", "recording", "refused"}

ConnectorState ==
  [pc: ConnectorPc, token: Tokens \cup {NoToken}, bundle: Bundles \cup {NoBundle},
   loop: BOOLEAN]

HandlerState ==
  [pc: HandlerPc, token: Tokens \cup {NoToken}, bundle: Bundles \cup {NoBundle}]

CoordinatorState ==
  [pc: CoordinatorPc, token: Tokens \cup {NoToken}, bundle: Bundles \cup {NoBundle}]

(* What the parties have in memory.                                        *)
PartiesTyped ==
  /\ connectors \in [Connectors -> ConnectorState]
  /\ handlers \in [Handlers -> HandlerState]
  /\ coordinators \in [Coordinators -> CoordinatorState]

(* The bundle is the saved input of the run.                               *)
Saved(b) == b \in Bundles /\ execution.input = b

(* The bundle is the saved input, and the provider accepted it.            *)
Taken(b) == Saved(b) /\ provider = b /\ outcome # "none"

(* A connector asks for its bundle to be saved after uploading it.         *)
ConnectorIsSound(p) ==
  /\ connectors[p].pc \in {"building", "uploading"} => connectors[p].bundle \in Bundles
  /\ connectors[p].pc \in {"publishing", "ready", "calling"}
       => connectors[p].bundle \in objects

(* A handler submits what it has saved, and marks what was accepted.       *)
HandlerIsSound(h) ==
  /\ handlers[h].pc = "saving" => handlers[h].bundle \in objects
  /\ handlers[h].pc \in {"submitting", "marking", "refused", "unknown"}
       => Saved(handlers[h].bundle)
  /\ handlers[h].pc = "marking" => Taken(handlers[h].bundle)

(* A coordinator replays the saved input under a claim of its own, and     *)
(* completes what was accepted.                                            *)
CoordinatorIsSound(r) ==
  /\ coordinators[r].pc \in Replaying => coordinators[r].token \in Tokens
  /\ coordinators[r].pc # "idle" => Saved(coordinators[r].bundle)
  /\ coordinators[r].pc = "completing" => Taken(coordinators[r].bundle)

(* What was sent is the saved input, and candidates are uploaded before    *)
(* the rows call them present.                                             *)
WorldIsSound ==
  /\ objects \subseteq Bundles
  /\ \A b \in wire : Saved(b)
  /\ provider # NoBundle => Saved(provider)
  /\ \A b \in Bundles : candidates[b] \in Uploaded => b \in objects

(* What the rows say of the submission.                                    *)
RowsAreSound ==
  /\ publication.input = execution.input
  /\ execution.status \in Accepted => Taken(execution.input)
  /\ execution.status \in Doubtful => Saved(execution.input)

(* The inductive invariant, over what the stores keep by themselves.       *)
StoreInv == TypeOK /\ ClaimsInv /\ SelectedIsInput

HandingInv ==
  /\ PartiesTyped
  /\ \A p \in Connectors : ConnectorIsSound(p)
  /\ \A h \in Handlers : HandlerIsSound(h)
  /\ \A r \in Coordinators : CoordinatorIsSound(r)
  /\ WorldIsSound
  /\ RowsAreSound

----------------------------------------------------------------------------
(* What no step of anybody takes back.                                     *)
WorldKeeps ==
  /\ InputKept
  /\ objects \subseteq objects'
  /\ provider # NoBundle => provider' = provider
  /\ outcome # "none" => outcome' # "none"

(* A transaction that decides nothing about the submission.                *)
RowsKeep ==
  /\ execution'.input = execution.input
  /\ publication'.input = publication.input
  /\ execution'.status \in Accepted => execution.status \in Accepted
  /\ execution'.status \in Doubtful => execution.status \in Doubtful
  /\ \A b \in Bundles :
       candidates'[b] \in Uploaded => candidates[b] \in Uploaded \/ b \in objects

(* A connector that is not touched stays sound.                            *)
LEMMA ConnectorStaysSound ==
  ASSUME NEW p \in Connectors, ConnectorIsSound(p), WorldKeeps,
         connectors'[p] = connectors[p]
  PROVE  ConnectorIsSound(p)'
  BY DEF ConnectorIsSound, WorldKeeps

(* A handler that is not touched stays sound.                              *)
LEMMA HandlerStaysSound ==
  ASSUME NEW h \in Handlers, HandlerIsSound(h), WorldKeeps, handlers'[h] = handlers[h]
  PROVE  HandlerIsSound(h)'
  BY NullsAreNotValues DEF HandlerIsSound, Saved, Taken, WorldKeeps, InputKept

(* A coordinator that is not touched stays sound.                          *)
LEMMA CoordinatorStaysSound ==
  ASSUME NEW r \in Coordinators, CoordinatorIsSound(r), WorldKeeps,
         coordinators'[r] = coordinators[r]
  PROVE  CoordinatorIsSound(r)'
  BY NullsAreNotValues DEF CoordinatorIsSound, Saved, Taken, WorldKeeps, InputKept

(* What the rows say stays true when nothing is decided.                   *)
LEMMA RowsStaySound ==
  ASSUME RowsAreSound, WorldKeeps, RowsKeep
  PROVE  RowsAreSound'
  BY NullsAreNotValues DEF RowsAreSound, Saved, Taken, WorldKeeps, RowsKeep

(* Transactions do not change the world.                                   *)
LEMMA WorldStaysSound ==
  ASSUME WorldIsSound, RowsKeep, UNCHANGED worldVars
  PROVE  WorldIsSound' /\ WorldKeeps
  BY DEF WorldIsSound, Saved, WorldKeeps, RowsKeep, InputKept, worldVars

(* A step of the world does not change the rows.                           *)
LEMMA UnchangedRowsKeep ==
  ASSUME UNCHANGED runVars
  PROVE  RowsKeep /\ InputKept
  BY DEF RowsKeep, InputKept, runVars

----------------------------------------------------------------------------
(* The transactions that decide nothing about the submission.              *)
LEMMA AbandonKeeps ==
  ASSUME TypeOK, AbandonInFlightPublication
  PROVE  /\ publication'.input = publication.input
         /\ \A b \in Bundles : candidates'[b] \in Uploaded => candidates[b] \in Uploaded
  BY DEF TypeOK, PublicationRow, AbandonInFlightPublication, InFlightPublication, Uploaded

(* Skipping execution ends it without an input being sent.                 *)
LEMMA SkipKeeps ==
  ASSUME TypeOK, SkipExecution
  PROVE  RowsKeep
<1>1. execution'.status = "skipped" /\ execution'.input = execution.input
  BY DEF TypeOK, ExecutionRow, SkipExecution
<1> QED BY <1>1, AbandonKeeps DEF SkipExecution, RowsKeep, Accepted, Doubtful

(* Ending execution leaves its input.                                      *)
LEMMA EndKeeps ==
  ASSUME TypeOK, EndExecution
  PROVE  RowsKeep
<1>1. execution'.status = "failed" /\ execution'.input = execution.input
  BY DEF TypeOK, ExecutionRow, EndExecution, Released
<1> QED BY <1>1, AbandonKeeps DEF EndExecution, RowsKeep, Accepted, Doubtful

(* The transactions of preparation and of its bundles.                     *)
LEMMA PreparingKeeps ==
  ASSUME TypeOK, NEW t \in Tokens \cup {NoToken},
         \/ ClaimPreparation(t)
         \/ CheckpointInput(t)
         \/ ExpireStale
         \/ PreparationLeaseExpires \/ BackoffElapses
         \/ \E due \in {"now", "later"} : RetryPreparation(t, due)
         \/ FailPreparation(t)
         \/ \E b \in Bundles :
              ReserveBundle(t, b) \/ SettleBundle(t, b, "abandoned")
         \/ \E b \in Bundles \cap objects : SettleBundle(t, b, "present")
  PROVE  RowsKeep
<1>1. CASE ExhaustPreparation \/ FailPreparation(t)
  BY <1>1, SkipKeeps DEF ExhaustPreparation, FailPreparation
<1>2. CASE UNCHANGED <<execution, publication, candidates>>
  BY <1>2 DEF RowsKeep
<1>3. ASSUME NEW b \in Bundles, ReserveBundle(t, b) PROVE RowsKeep
  BY <1>3 DEF TypeOK, ReserveBundle, RowsKeep, Uploaded
<1>4. ASSUME NEW b \in Bundles, SettleBundle(t, b, "abandoned") PROVE RowsKeep
  BY <1>4 DEF TypeOK, SettleBundle, RowsKeep, Uploaded
<1>5. ASSUME NEW b \in Bundles \cap objects, SettleBundle(t, b, "present") PROVE RowsKeep
  BY <1>5 DEF TypeOK, SettleBundle, RowsKeep, Uploaded
<1> QED BY <1>1, <1>2, <1>3, <1>4, <1>5 DEF ClaimPreparation, CheckpointInput, ExpireStale,
       LapsePreparation, DisconnectPreparation, PreparationLeaseExpires, BackoffElapses,
       RetryPreparation

(* The transactions of submission recovery and of the operator, and what   *)
(* the provider reports of a run it accepted.                              *)
LEMMA ExecutingKeeps ==
  ASSUME TypeOK, NEW t \in Tokens \cup {NoToken},
         \/ ClaimSubmissionRecovery(t)
         \/ RecordUnknownRecoveryOutcome(t)
         \/ FailSubmissionRecovery(t)
         \/ DisconnectExhausted
         \/ MarkRunning \/ RecordExecutionSuccess \/ FailExecution
         \/ ResumeExecution \/ GiveUpExecution
         \/ RecoveryLeaseExpires
  PROVE  RowsKeep
<1>1. CASE FailSubmissionRecovery(t) \/ FailExecution \/ GiveUpExecution
  BY <1>1, EndKeeps DEF FailSubmissionRecovery, FailExecution, GiveUpExecution
<1> USE DEF TypeOK, ExecutionRow, RowsKeep, Accepted, Doubtful, Released
<1>2. CASE ClaimSubmissionRecovery(t)
  BY <1>2 DEF ClaimSubmissionRecovery, FreeRecovery
<1>3. CASE RecordUnknownRecoveryOutcome(t)
  BY <1>3 DEF RecordUnknownRecoveryOutcome
<1>4. CASE DisconnectExhausted
  BY <1>4 DEF DisconnectExhausted, FreeRecovery
<1>5. CASE MarkRunning
  BY <1>5 DEF MarkRunning
<1>6. CASE RecordExecutionSuccess
  BY <1>6 DEF RecordExecutionSuccess, ActiveExecution
<1>7. CASE ResumeExecution
  BY <1>7 DEF ResumeExecution
<1>8. CASE RecoveryLeaseExpires
  BY <1>8 DEF RecoveryLeaseExpires
<1> QED BY <1>1, <1>2, <1>3, <1>4, <1>5, <1>6, <1>7, <1>8

----------------------------------------------------------------------------
(* One party moves, and the world and the rows stay sound.                 *)
LEMMA NobodyMoves ==
  ASSUME HandingInv, WorldKeeps, WorldIsSound', RowsAreSound', UNCHANGED clientVars
  PROVE  HandingInv'
<1>1. PartiesTyped'
  BY DEF HandingInv, PartiesTyped, clientVars
<1>2. \A p \in Connectors : ConnectorIsSound(p)'
  BY ConnectorStaysSound DEF HandingInv, clientVars
<1>3. \A h \in Handlers : HandlerIsSound(h)'
  BY HandlerStaysSound DEF HandingInv, clientVars
<1>4. \A r \in Coordinators : CoordinatorIsSound(r)'
  BY CoordinatorStaysSound DEF HandingInv, clientVars
<1> QED BY <1>1, <1>2, <1>3, <1>4 DEF HandingInv

(* The connector p moves.                                                  *)
LEMMA ConnectorMoves ==
  ASSUME HandingInv, WorldKeeps, WorldIsSound', RowsAreSound',
         NEW p \in Connectors, NEW new \in ConnectorState,
         connectors' = [connectors EXCEPT ![p] = new], UNCHANGED <<handlers, coordinators>>,
         new.pc \in {"building", "uploading"} => new.bundle \in Bundles,
         new.pc \in {"publishing", "ready", "calling"} => new.bundle \in objects'
  PROVE  HandingInv'
<1>1. PartiesTyped' /\ connectors'[p] = new
  BY DEF HandingInv, PartiesTyped
<1>2. ASSUME NEW q \in Connectors \ {p} PROVE ConnectorIsSound(q)'
  <2>1. connectors'[q] = connectors[q]
    BY DEF HandingInv, PartiesTyped
  <2> QED BY <2>1, ConnectorStaysSound DEF HandingInv
<1>3. ConnectorIsSound(p)'
  BY <1>1 DEF ConnectorIsSound
<1>4. \A h \in Handlers : HandlerIsSound(h)'
  BY HandlerStaysSound DEF HandingInv
<1>5. \A r \in Coordinators : CoordinatorIsSound(r)'
  BY CoordinatorStaysSound DEF HandingInv
<1> QED BY <1>1, <1>2, <1>3, <1>4, <1>5 DEF HandingInv

(* The handler h moves.                                                    *)
LEMMA HandlerMoves ==
  ASSUME HandingInv, WorldKeeps, WorldIsSound', RowsAreSound',
         NEW h \in Handlers, NEW new \in HandlerState,
         handlers' = [handlers EXCEPT ![h] = new], UNCHANGED <<connectors, coordinators>>,
         new.pc = "saving" => new.bundle \in objects',
         new.pc \in {"submitting", "marking", "refused", "unknown"}
           => new.bundle \in Bundles /\ execution'.input = new.bundle,
         new.pc = "marking" => provider' = new.bundle /\ outcome' # "none"
  PROVE  HandingInv'
<1>1. PartiesTyped' /\ handlers'[h] = new
  BY DEF HandingInv, PartiesTyped
<1>2. ASSUME NEW g \in Handlers \ {h} PROVE HandlerIsSound(g)'
  <2>1. handlers'[g] = handlers[g]
    BY DEF HandingInv, PartiesTyped
  <2> QED BY <2>1, HandlerStaysSound DEF HandingInv
<1>3. HandlerIsSound(h)'
  BY <1>1 DEF HandlerIsSound, Saved, Taken
<1>4. \A p \in Connectors : ConnectorIsSound(p)'
  BY ConnectorStaysSound DEF HandingInv
<1>5. \A r \in Coordinators : CoordinatorIsSound(r)'
  BY CoordinatorStaysSound DEF HandingInv
<1> QED BY <1>1, <1>2, <1>3, <1>4, <1>5 DEF HandingInv

(* The coordinator r moves.                                                *)
LEMMA CoordinatorMoves ==
  ASSUME HandingInv, WorldKeeps, WorldIsSound', RowsAreSound',
         NEW r \in Coordinators, NEW new \in CoordinatorState,
         coordinators' = [coordinators EXCEPT ![r] = new], UNCHANGED <<connectors, handlers>>,
         new.pc \in Replaying => new.token \in Tokens,
         new.pc # "idle" => new.bundle \in Bundles /\ execution'.input = new.bundle,
         new.pc = "completing" => provider' = new.bundle /\ outcome' # "none"
  PROVE  HandingInv'
<1>1. PartiesTyped' /\ coordinators'[r] = new
  BY DEF HandingInv, PartiesTyped
<1>2. ASSUME NEW q \in Coordinators \ {r} PROVE CoordinatorIsSound(q)'
  <2>1. coordinators'[q] = coordinators[q]
    BY DEF HandingInv, PartiesTyped
  <2> QED BY <2>1, CoordinatorStaysSound DEF HandingInv
<1>3. CoordinatorIsSound(r)'
  BY <1>1 DEF CoordinatorIsSound, Saved, Taken
<1>4. \A p \in Connectors : ConnectorIsSound(p)'
  BY ConnectorStaysSound DEF HandingInv
<1>5. \A h \in Handlers : HandlerIsSound(h)'
  BY HandlerStaysSound DEF HandingInv
<1> QED BY <1>1, <1>2, <1>3, <1>4, <1>5 DEF HandingInv

(* A transaction that decides nothing leaves the world and the rows sound. *)
LEMMA QuietTransaction ==
  ASSUME HandingInv, RowsKeep, UNCHANGED worldVars
  PROVE  WorldKeeps /\ WorldIsSound' /\ RowsAreSound'
  BY WorldStaysSound, RowsStaySound DEF HandingInv

----------------------------------------------------------------------------
(* What fail does for a caller that does not report an uncertain outcome.  *)
LEMMA FailCallKeeps ==
  ASSUME TypeOK, NEW t \in Tokens \cup {NoToken}, NEW retry \in BOOLEAN,
         NEW due \in {"now", "later"}, FailPreparationCall(t, retry, FALSE, due)
  PROVE  RowsKeep
  BY PreparingKeeps, UnchangedRowsKeep DEF FailPreparationCall

(* The steps of a connector.                                               *)
LEMMA ConnectorStepHands ==
  ASSUME StoreInv, HandingInv, NEW p \in Connectors, ConnectorStep(p) \/ ConnectorCrash(p)
  PROVE  HandingInv'
<1> DEFINE c == connectors[p]
<1>0. /\ c \in ConnectorState /\ connectors \in [Connectors -> ConnectorState]
      /\ c.token \in Tokens \cup {NoToken} /\ c.bundle \in Bundles \cup {NoBundle}
      /\ objects \subseteq Bundles /\ TypeOK /\ ConnectorIsSound(p)
  BY DEF StoreInv, HandingInv, PartiesTyped, ConnectorState, WorldIsSound
<1>1. CASE Claim(p)
  <2>1. PICK n \in NewToken :
          /\ ClaimPreparation(n)
          /\ connectors' = [connectors EXCEPT ![p] =
               [pc |-> "recovering", token |-> n, bundle |-> NoBundle, loop |-> TRUE]]
    BY <1>1 DEF Claim
  <2>2. n \in Tokens
    BY DEF NewToken, Fresh
  <2>3. RowsKeep /\ UNCHANGED worldVars /\ UNCHANGED <<handlers, coordinators>>
    BY <1>0, <1>1, <2>1, <2>2, PreparingKeeps DEF Claim
  <2> DEFINE new == [pc |-> "recovering", token |-> n, bundle |-> NoBundle, loop |-> TRUE]
  <2>4. new \in ConnectorState /\ new.pc = "recovering"
    BY <2>2 DEF ConnectorState, ConnectorPc
  <2>5. connectors' = [connectors EXCEPT ![p] = new]
    BY <2>1
  <2> HIDE DEF new
  <2> QED BY <2>3, <2>4, <2>5, QuietTransaction, ConnectorMoves
<1>2. CASE RecoverSelected(p)
  <2>1. PICK b \in Selected \cap objects :
          connectors' = [connectors EXCEPT ![p].pc = "ready", ![p].bundle = b]
    BY <1>2 DEF RecoverSelected
  <2>2. RowsKeep /\ UNCHANGED worldVars /\ UNCHANGED <<handlers, coordinators>>
    BY <1>2, UnchangedRowsKeep DEF RecoverSelected
  <2> DEFINE new == [c EXCEPT !.pc = "ready", !.bundle = b]
  <2>3. new \in ConnectorState /\ new.pc = "ready" /\ new.bundle \in objects
    BY <1>0, <2>1 DEF ConnectorState, ConnectorPc
  <2>4. connectors' = [connectors EXCEPT ![p] = new]
    BY <1>0, <2>1 DEF ConnectorState
  <2>5. new.bundle \in objects'
    BY <2>2, <2>3 DEF worldVars
  <2> HIDE DEF new
  <2> QED BY <2>2, <2>3, <2>4, <2>5, QuietTransaction, ConnectorMoves
<1>3. CASE RecoverUploaded(p)
  <2>1. PICK b \in Open \cap objects :
          /\ SettleBundle(c.token, b, "present")
          /\ connectors' = [connectors EXCEPT ![p].pc = "ready", ![p].bundle = b]
    BY <1>3 DEF RecoverUploaded
  <2>2. RowsKeep /\ UNCHANGED worldVars /\ UNCHANGED <<handlers, coordinators>>
    BY <1>0, <1>3, <2>1, PreparingKeeps DEF RecoverUploaded
  <2> DEFINE new == [c EXCEPT !.pc = "ready", !.bundle = b]
  <2>3. new \in ConnectorState /\ new.pc = "ready" /\ new.bundle \in objects
    BY <1>0, <2>1 DEF ConnectorState, ConnectorPc
  <2>4. connectors' = [connectors EXCEPT ![p] = new]
    BY <1>0, <2>1 DEF ConnectorState
  <2>5. new.bundle \in objects'
    BY <2>2, <2>3 DEF worldVars
  <2> HIDE DEF new
  <2> QED BY <2>2, <2>3, <2>4, <2>5, QuietTransaction, ConnectorMoves
<1>4. CASE RecoverMissing(p)
  <2>1. RowsKeep /\ UNCHANGED worldVars /\ UNCHANGED clientVars
    BY <1>0, <1>4, PreparingKeeps DEF RecoverMissing, Open
  <2> QED BY <2>1, QuietTransaction, NobodyMoves
<1>5. CASE Build(p)
  <2>1. PICK b \in Bundles :
          connectors' = [connectors EXCEPT ![p].pc = "building", ![p].bundle = b]
    BY <1>5 DEF Build
  <2>2. RowsKeep /\ UNCHANGED worldVars /\ UNCHANGED <<handlers, coordinators>>
    BY <1>0, <1>5, PreparingKeeps DEF Build
  <2> DEFINE new == [c EXCEPT !.pc = "building", !.bundle = b]
  <2>3. new \in ConnectorState /\ new.pc = "building" /\ new.bundle \in Bundles
    BY <1>0, <2>1 DEF ConnectorState, ConnectorPc
  <2>4. connectors' = [connectors EXCEPT ![p] = new]
    BY <1>0, <2>1 DEF ConnectorState
  <2> HIDE DEF new
  <2> QED BY <2>2, <2>3, <2>4, QuietTransaction, ConnectorMoves
<1>6. CASE Reserve(p)
  <2>1. RowsKeep /\ UNCHANGED worldVars /\ UNCHANGED <<handlers, coordinators>>
    BY <1>0, <1>6, PreparingKeeps DEF Reserve, ConnectorIsSound
  <2> DEFINE new == [c EXCEPT !.pc = "uploading"]
  <2>2. new \in ConnectorState /\ new.pc = "uploading" /\ new.bundle \in Bundles
    BY <1>0, <1>6 DEF Reserve, ConnectorIsSound, ConnectorState, ConnectorPc
  <2>3. connectors' = [connectors EXCEPT ![p] = new]
    BY <1>0, <1>6 DEF Reserve, Goto, ConnectorState
  <2> HIDE DEF new
  <2> QED BY <2>1, <2>2, <2>3, QuietTransaction, ConnectorMoves
<1>7. CASE Upload(p)
  <2>1. /\ UNCHANGED <<wire, provider, outcome>> /\ UNCHANGED <<handlers, coordinators>>
        /\ UNCHANGED runVars /\ objects' = objects \cup {c.bundle}
    BY <1>7 DEF Upload
  <2> DEFINE new == [c EXCEPT !.pc = "publishing"]
  <2>2. new \in ConnectorState /\ new.pc = "publishing" /\ new.bundle \in objects'
        /\ c.bundle \in Bundles
    BY <1>0, <1>7, <2>1 DEF Upload, ConnectorIsSound, ConnectorState, ConnectorPc
  <2>3. connectors' = [connectors EXCEPT ![p] = new]
    BY <1>0, <1>7 DEF Upload, Goto, ConnectorState
  <2>4. WorldKeeps
    BY <2>1, UnchangedRowsKeep DEF WorldKeeps
  <2>5. WorldIsSound'
    BY <1>0, <2>1, <2>2 DEF HandingInv, WorldIsSound, Saved, runVars
  <2>6. RowsAreSound'
    BY <2>1, <2>4, RowsStaySound, UnchangedRowsKeep DEF HandingInv
  <2> HIDE DEF new
  <2> QED BY <2>1, <2>2, <2>3, <2>4, <2>5, <2>6, ConnectorMoves
<1>8. CASE Settle(p)
  <2>1. c.bundle \in objects /\ c.bundle \in Bundles
    BY <1>0, <1>8 DEF Settle, ConnectorIsSound
  <2>2. RowsKeep /\ UNCHANGED worldVars /\ UNCHANGED <<handlers, coordinators>>
    BY <1>0, <1>8, <2>1, PreparingKeeps DEF Settle
  <2> DEFINE new == [c EXCEPT !.pc = "ready"]
  <2>3. new \in ConnectorState /\ new.pc = "ready" /\ new.bundle \in objects'
    BY <1>0, <2>1, <2>2 DEF ConnectorState, ConnectorPc, worldVars
  <2>4. connectors' = [connectors EXCEPT ![p] = new]
    BY <1>0, <1>8 DEF Settle, Goto, ConnectorState
  <2> HIDE DEF new
  <2> QED BY <2>2, <2>3, <2>4, QuietTransaction, ConnectorMoves
<1>9. CASE Returned(p) \/ CallFailed(p) \/ PreparationError(p) \/ ConnectorCrash(p)
  <2>1. IdleConnector \in ConnectorState /\ IdleConnector.pc = "idle"
    BY DEF IdleConnector, ConnectorState, ConnectorPc
  <2>2. connectors' = [connectors EXCEPT ![p] = IdleConnector]
        /\ UNCHANGED worldVars /\ UNCHANGED <<handlers, coordinators>>
    BY <1>9 DEF Returned, CallFailed, PreparationError, ConnectorCrash
  <2>3. RowsKeep
    BY <1>0, <1>9, FailCallKeeps, UnchangedRowsKeep
       DEF Returned, CallFailed, PreparationError, ConnectorCrash
  <2> QED BY <2>1, <2>2, <2>3, QuietTransaction, ConnectorMoves
<1>10. CASE Call(p)
  <2>1. PICK h \in Handlers :
          handlers' = [handlers EXCEPT ![h] =
            [pc |-> "saving", token |-> c.token, bundle |-> c.bundle]]
    BY <1>10 DEF Call
  <2>2. UNCHANGED runVars /\ UNCHANGED worldVars /\ coordinators' = coordinators
        /\ connectors' = [connectors EXCEPT ![p] = [c EXCEPT !.pc = "calling"]]
        /\ c.bundle \in objects
    BY <1>0, <1>10 DEF Call, Goto, ConnectorState, ConnectorIsSound
  <2>3. WorldKeeps /\ WorldIsSound' /\ RowsAreSound'
    BY <2>2, QuietTransaction, UnchangedRowsKeep
  <2>4. PartiesTyped'
    BY <1>0, <2>1, <2>2 DEF HandingInv, PartiesTyped, ConnectorState, HandlerState,
         ConnectorPc, HandlerPc
  <2>5. ASSUME NEW q \in Connectors PROVE ConnectorIsSound(q)'
    <3>1. CASE q = p
      BY <1>0, <2>2, <3>1 DEF ConnectorIsSound, ConnectorState, worldVars
    <3>2. CASE q # p
      BY <1>0, <2>2, <2>3, <3>2, ConnectorStaysSound DEF HandingInv
    <3> QED BY <3>1, <3>2
  <2>6. ASSUME NEW g \in Handlers PROVE HandlerIsSound(g)'
    <3>1. CASE g = h
      BY <2>1, <2>2, <3>1 DEF HandingInv, PartiesTyped, HandlerIsSound, worldVars
    <3>2. CASE g # h
      BY <2>1, <2>3, <3>2, HandlerStaysSound DEF HandingInv, PartiesTyped
    <3> QED BY <3>1, <3>2
  <2>7. \A r \in Coordinators : CoordinatorIsSound(r)'
    BY <2>2, <2>3, CoordinatorStaysSound DEF HandingInv
  <2> QED BY <2>3, <2>4, <2>5, <2>6, <2>7 DEF HandingInv
<1> QED BY <1>1, <1>2, <1>3, <1>4, <1>5, <1>6, <1>7, <1>8, <1>9, <1>10 DEF ConnectorStep

----------------------------------------------------------------------------
(* What the provider does with the saved input.                            *)
LEMMA AcceptingIsSound ==
  ASSUME HandingInv, NEW b \in Bundles, Saved(b), Accept(b), UNCHANGED <<runVars, objects>>,
         wire' \subseteq wire
  PROVE  /\ WorldKeeps /\ WorldIsSound' /\ RowsAreSound'
         /\ provider' = b /\ outcome' # "none" /\ execution'.input = b
<1>1. WorldKeeps /\ provider' = b /\ outcome' # "none" /\ execution'.input = b
  BY UnchangedRowsKeep DEF WorldKeeps, Accept, Acceptable, Saved, runVars
<1>2. WorldIsSound'
  BY <1>1 DEF HandingInv, WorldIsSound, Saved, runVars
<1>3. RowsAreSound'
  BY <1>1, RowsStaySound, UnchangedRowsKeep DEF HandingInv
<1> QED BY <1>1, <1>2, <1>3

(* What becomes of a submission of the saved input.                        *)
LEMMA SendingIsSound ==
  ASSUME HandingInv, NEW b \in Bundles, Saved(b), NEW reply, Sent(b, reply),
         UNCHANGED <<runVars, objects>>
  PROVE  /\ WorldKeeps /\ WorldIsSound' /\ RowsAreSound'
         /\ execution'.input = b
         /\ reply = "accepted" => provider' = b /\ outcome' # "none"
<1>1. CASE Accept(b) /\ UNCHANGED wire
  BY <1>1, AcceptingIsSound
<1>2. CASE reply # "accepted" /\ wire' \subseteq wire \cup {b} /\ UNCHANGED <<provider, outcome>>
  <2>1. WorldKeeps /\ execution'.input = b
    BY <1>2, UnchangedRowsKeep DEF WorldKeeps, Saved, runVars
  <2>2. WorldIsSound'
    BY <1>2 DEF HandingInv, WorldIsSound, Saved, runVars
  <2>3. RowsAreSound'
    BY <2>1, RowsStaySound, UnchangedRowsKeep DEF HandingInv
  <2> QED BY <1>2, <2>1, <2>2, <2>3
<1> QED BY <1>1, <1>2 DEF Sent

(* The input is saved: at the first time, or again.                        *)
LEMMA SavingIsSound ==
  ASSUME StoreInv, HandingInv, NEW t, NEW b \in Bundles, SavePreparedSubmission(t, b),
         UNCHANGED worldVars
  PROVE  WorldKeeps /\ WorldIsSound' /\ RowsAreSound' /\ execution'.input = b
<1>1. /\ execution'.input = b /\ publication'.input = b
      /\ execution'.status = "pending" /\ execution.input \in {NoBundle, b}
      /\ candidates[b] \in Uploaded
      /\ \A o \in Bundles : candidates'[o] \in Uploaded => candidates[o] \in Uploaded
  BY DEF StoreInv, TypeOK, ExecutionRow, PublicationRow, SavePreparedSubmission, Uploaded
<1>2. WorldKeeps
  BY <1>1 DEF WorldKeeps, InputKept, worldVars
<1>3. WorldIsSound'
  BY <1>1, NullsAreNotValues DEF HandingInv, WorldIsSound, Saved, worldVars
<1>4. RowsAreSound'
  BY <1>1 DEF RowsAreSound, Accepted, Doubtful
<1> QED BY <1>1, <1>2, <1>3, <1>4

(* The acceptance of the saved input is recorded.                          *)
LEMMA MarkingIsSound ==
  ASSUME StoreInv, HandingInv, NEW t, NEW b \in Bundles, Taken(b), MarkQueued(t, b),
         UNCHANGED worldVars
  PROVE  WorldKeeps /\ WorldIsSound' /\ RowsAreSound'
<1>1. /\ execution'.input = b /\ publication'.input = b /\ execution'.status = "queued"
      /\ execution.input = b /\ candidates' = candidates
  BY DEF StoreInv, TypeOK, ExecutionRow, PublicationRow, MarkQueued, Taken, Saved
<1>2. WorldKeeps
  BY <1>1 DEF WorldKeeps, InputKept, worldVars
<1>3. WorldIsSound'
  BY <1>1 DEF HandingInv, WorldIsSound, Saved, worldVars
<1>4. RowsAreSound'
  BY <1>1 DEF RowsAreSound, Accepted, Doubtful, Taken, Saved, worldVars
<1> QED BY <1>2, <1>3, <1>4

(* The acceptance is recorded by a coordinator, which does not write the   *)
(* publish context: it is there since the input was saved.                 *)
LEMMA CompletingIsSound ==
  ASSUME StoreInv, HandingInv, NEW t, NEW b \in Bundles, Taken(b),
         CompleteSubmissionRecovery(t), UNCHANGED worldVars
  PROVE  WorldKeeps /\ WorldIsSound' /\ RowsAreSound'
<1>1. /\ execution'.input = b /\ publication' = publication /\ execution'.status = "queued"
      /\ execution.input = b /\ candidates' = candidates
  BY DEF StoreInv, TypeOK, ExecutionRow, CompleteSubmissionRecovery, Released, Taken, Saved
<1>2. WorldKeeps
  BY <1>1 DEF WorldKeeps, InputKept, worldVars
<1>3. WorldIsSound'
  BY <1>1 DEF HandingInv, WorldIsSound, Saved, worldVars
<1>4. RowsAreSound'
  BY <1>1 DEF HandingInv, RowsAreSound, Accepted, Doubtful, Taken, Saved, worldVars
<1> QED BY <1>2, <1>3, <1>4

(* An uncertain outcome is recorded of an input that was saved.            *)
LEMMA DoubtingIsSound ==
  ASSUME StoreInv, HandingInv, NEW t, NEW b \in Bundles, Saved(b),
         FailPreparationUncertain(t), UNCHANGED worldVars
  PROVE  WorldKeeps /\ WorldIsSound' /\ RowsAreSound'
<1>1. /\ execution'.input = b /\ publication' = publication /\ execution'.status = "uncertain"
      /\ execution.input = b /\ candidates' = candidates
  BY DEF StoreInv, TypeOK, ExecutionRow, FailPreparationUncertain, Saved
<1>2. WorldKeeps
  BY <1>1 DEF WorldKeeps, InputKept, worldVars
<1>3. WorldIsSound'
  BY <1>1 DEF HandingInv, WorldIsSound, Saved, worldVars
<1>4. RowsAreSound'
  BY <1>1 DEF HandingInv, RowsAreSound, Accepted, Doubtful, Saved
<1> QED BY <1>2, <1>3, <1>4

----------------------------------------------------------------------------
(* The steps of a handler.                                                 *)
LEMMA HandlerStepHands ==
  ASSUME StoreInv, HandingInv, NEW h \in Handlers, HandlerStep(h) \/ HandlerCrash(h)
  PROVE  HandingInv'
<1> DEFINE c == handlers[h]
<1>0. /\ c \in HandlerState /\ handlers \in [Handlers -> HandlerState]
      /\ c.token \in Tokens \cup {NoToken} /\ c.bundle \in Bundles \cup {NoBundle}
      /\ objects \subseteq Bundles /\ TypeOK /\ HandlerIsSound(h)
  BY DEF StoreInv, HandingInv, PartiesTyped, HandlerState, WorldIsSound
<1>i. IdleHandler \in HandlerState /\ IdleHandler.pc = "idle"
  BY DEF IdleHandler, HandlerState, HandlerPc
<1>1. CASE HandlerSaves(h)
  <2>1. c.bundle \in Bundles
    BY <1>0, <1>1 DEF HandlerSaves, HandlerIsSound
  <2>2. CASE SavePreparedSubmission(c.token, c.bundle) /\ HandlerGoto(h, "submitting")
    <3>1. /\ WorldKeeps /\ WorldIsSound' /\ RowsAreSound' /\ execution'.input = c.bundle
          /\ UNCHANGED <<connectors, coordinators>>
      BY <1>1, <2>1, <2>2, SavingIsSound DEF HandlerSaves
    <3> DEFINE new == [c EXCEPT !.pc = "submitting"]
    <3>2. new \in HandlerState /\ new.pc = "submitting" /\ new.bundle = c.bundle
      BY <1>0 DEF HandlerState, HandlerPc
    <3>3. handlers' = [handlers EXCEPT ![h] = new]
      BY <1>0, <2>2 DEF HandlerGoto, HandlerState
    <3> HIDE DEF new
    <3> QED BY <2>1, <3>1, <3>2, <3>3, HandlerMoves
  <2>3. CASE HandlerGoto(h, "unsaved") /\ UNCHANGED runVars
    <3>1. RowsKeep /\ UNCHANGED worldVars /\ UNCHANGED <<connectors, coordinators>>
      BY <1>1, <2>3, UnchangedRowsKeep DEF HandlerSaves
    <3> DEFINE new == [c EXCEPT !.pc = "unsaved"]
    <3>2. new \in HandlerState /\ new.pc = "unsaved"
      BY <1>0 DEF HandlerState, HandlerPc
    <3>3. handlers' = [handlers EXCEPT ![h] = new]
      BY <1>0, <2>3 DEF HandlerGoto, HandlerState
    <3> HIDE DEF new
    <3> QED BY <3>1, <3>2, <3>3, QuietTransaction, HandlerMoves
  <2> QED BY <1>1, <2>2, <2>3 DEF HandlerSaves
<1>2. CASE HandlerSubmits(h)
  <2>1. Saved(c.bundle) /\ c.bundle \in Bundles
    BY <1>0, <1>2 DEF HandlerSubmits, HandlerIsSound, Saved
  <2>2. PICK reply \in {"accepted", "refused", "unknown"} :
          /\ Sent(c.bundle, reply)
          /\ HandlerGoto(h, CASE reply = "accepted" -> "marking"
                              [] reply = "refused" -> "refused"
                              [] OTHER -> "unknown")
    BY <1>2 DEF HandlerSubmits
  <2>3. UNCHANGED <<runVars, objects>> /\ UNCHANGED <<connectors, coordinators>>
    BY <1>2 DEF HandlerSubmits
  <2>4. /\ WorldKeeps /\ WorldIsSound' /\ RowsAreSound' /\ execution'.input = c.bundle
        /\ reply = "accepted" => provider' = c.bundle /\ outcome' # "none"
    BY <2>1, <2>2, <2>3, SendingIsSound
  <2> DEFINE new == [c EXCEPT !.pc = CASE reply = "accepted" -> "marking"
                                       [] reply = "refused" -> "refused"
                                       [] OTHER -> "unknown"]
  <2>5. /\ new \in HandlerState /\ new.pc \in {"marking", "refused", "unknown"}
        /\ new.pc = "marking" => reply = "accepted"
        /\ new.bundle = c.bundle
    BY <1>0 DEF HandlerState, HandlerPc
  <2>6. handlers' = [handlers EXCEPT ![h] = new]
    BY <1>0, <2>2 DEF HandlerGoto, HandlerState
  <2> HIDE DEF new
  <2> QED BY <2>1, <2>3, <2>4, <2>5, <2>6, HandlerMoves
<1>3. CASE HandlerMarks(h)
  <2>1. Saved(c.bundle) /\ Taken(c.bundle) /\ c.bundle \in Bundles
    BY <1>0, <1>3 DEF HandlerMarks, HandlerIsSound, Saved
  <2>2. CASE MarkQueued(c.token, c.bundle) /\ handlers' = [handlers EXCEPT ![h] = IdleHandler]
    <3>1. /\ WorldKeeps /\ WorldIsSound' /\ RowsAreSound'
          /\ UNCHANGED <<connectors, coordinators>>
      BY <1>3, <2>1, <2>2, MarkingIsSound DEF HandlerMarks
    <3> QED BY <1>i, <2>2, <3>1, HandlerMoves
  <2>3. CASE HandlerGoto(h, "unknown") /\ UNCHANGED runVars
    <3>1. RowsKeep /\ UNCHANGED worldVars /\ UNCHANGED <<connectors, coordinators>>
      BY <1>3, <2>3, UnchangedRowsKeep DEF HandlerMarks
    <3> DEFINE new == [c EXCEPT !.pc = "unknown"]
    <3>2. new \in HandlerState /\ new.pc = "unknown" /\ new.bundle = c.bundle
      BY <1>0 DEF HandlerState, HandlerPc
    <3>3. handlers' = [handlers EXCEPT ![h] = new]
      BY <1>0, <2>3 DEF HandlerGoto, HandlerState
    <3>4. execution'.input = new.bundle
      BY <2>1, <3>1, <3>2 DEF Saved, RowsKeep
    <3> HIDE DEF new
    <3> QED BY <2>1, <3>1, <3>2, <3>3, <3>4, QuietTransaction, HandlerMoves
  <2> QED BY <1>3, <2>2, <2>3 DEF HandlerMarks
<1>4. CASE HandlerFails(h)
  <2>1. /\ handlers' = [handlers EXCEPT ![h] = IdleHandler]
        /\ UNCHANGED worldVars /\ UNCHANGED <<connectors, coordinators>>
    BY <1>4 DEF HandlerFails
  <2>2. CASE c.pc = "unknown" /\ FailPreparationUncertain(c.token)
    <3>1. Saved(c.bundle) /\ c.bundle \in Bundles
      BY <1>0, <2>2 DEF HandlerIsSound, Saved
    <3>2. WorldKeeps /\ WorldIsSound' /\ RowsAreSound'
      BY <2>1, <2>2, <3>1, DoubtingIsSound
    <3> QED BY <1>i, <2>1, <3>2, HandlerMoves
  <2>3. CASE ~(c.pc = "unknown" /\ FailPreparationUncertain(c.token))
    <3>1. RowsKeep
      BY <1>0, <1>4, <2>3, PreparingKeeps, UnchangedRowsKeep
         DEF HandlerFails, FailPreparationCall
    <3> QED BY <1>i, <2>1, <3>1, QuietTransaction, HandlerMoves
  <2> QED BY <2>2, <2>3
<1>5. CASE HandlerCrash(h)
  BY <1>i, <1>5, UnchangedRowsKeep, QuietTransaction, HandlerMoves DEF HandlerCrash
<1> QED BY <1>1, <1>2, <1>3, <1>4, <1>5 DEF HandlerStep

(* The steps of a coordinator.                                             *)
LEMMA CoordinatorStepHands ==
  ASSUME StoreInv, HandingInv, NEW r \in Coordinators,
         CoordinatorStep(r) \/ CoordinatorCrash(r)
  PROVE  HandingInv'
<1> DEFINE c == coordinators[r]
<1>0. /\ c \in CoordinatorState /\ coordinators \in [Coordinators -> CoordinatorState]
      /\ c.token \in Tokens \cup {NoToken} /\ c.bundle \in Bundles \cup {NoBundle}
      /\ TypeOK /\ CoordinatorIsSound(r)
  BY DEF StoreInv, HandingInv, PartiesTyped, CoordinatorState
<1>i. IdleCoordinator \in CoordinatorState /\ IdleCoordinator.pc = "idle"
      /\ "idle" \notin Replaying
  BY DEF IdleCoordinator, CoordinatorState, CoordinatorPc, Replaying
<1>s. c.pc # "idle" => Saved(c.bundle) /\ c.bundle \in Bundles /\ execution.input = c.bundle
  BY <1>0 DEF CoordinatorIsSound, Saved
<1>m. ASSUME NEW pc \in CoordinatorPc, NEW token \in Tokens \cup {NoToken}, c.pc # "idle",
             coordinators' = [coordinators EXCEPT ![r].pc = pc, ![r].token = token],
             UNCHANGED <<connectors, handlers>>, RowsKeep, UNCHANGED worldVars,
             pc # "completing", pc \in Replaying => token \in Tokens
      PROVE  HandingInv'
  <2> DEFINE new == [c EXCEPT !.pc = pc, !.token = token]
  <2>1. new \in CoordinatorState /\ new.pc = pc /\ new.bundle = c.bundle /\ new.token = token
    BY <1>0, <1>m DEF CoordinatorState
  <2>2. coordinators' = [coordinators EXCEPT ![r] = new]
    BY <1>0, <1>m DEF CoordinatorState
  <2>3. execution'.input = c.bundle /\ c.bundle \in Bundles
    BY <1>s, <1>m DEF RowsKeep
  <2> HIDE DEF new
  <2> QED BY <1>m, <2>1, <2>2, <2>3, QuietTransaction, CoordinatorMoves
<1>1. CASE ListRecovery(r)
  <2>1. RowsKeep /\ UNCHANGED worldVars /\ UNCHANGED <<connectors, handlers>>
    BY <1>1, UnchangedRowsKeep DEF ListRecovery
  <2>2. Saved(execution.input) /\ execution.input \in Bundles
    BY <1>1 DEF ListRecovery, FreeRecovery, HandingInv, RowsAreSound, Doubtful, Saved
  <2> DEFINE new == [c EXCEPT !.pc = "counting", !.bundle = execution.input]
  <2>3. new \in CoordinatorState /\ new.pc = "counting" /\ new.bundle = execution.input
        /\ new.pc \notin Replaying
    BY <1>0, <2>2 DEF CoordinatorState, CoordinatorPc, Replaying
  <2>4. coordinators' = [coordinators EXCEPT ![r] = new]
    BY <1>0, <1>1 DEF ListRecovery, CoordinatorState
  <2>5. execution'.input = new.bundle
    BY <2>1, <2>3 DEF RowsKeep
  <2> HIDE DEF new
  <2> QED BY <2>1, <2>2, <2>3, <2>4, <2>5, QuietTransaction, CoordinatorMoves
<1>2. CASE CountAttempts(r)
  <2>1. PICK pc \in {"disconnecting", "claiming"} :
          coordinators' = [coordinators EXCEPT ![r].pc = pc]
    BY <1>2 DEF CountAttempts, CoordinatorGoto
  <2>2. coordinators' = [coordinators EXCEPT ![r].pc = pc, ![r].token = c.token]
    BY <1>0, <2>1 DEF CoordinatorState
  <2>3. /\ RowsKeep /\ UNCHANGED worldVars /\ UNCHANGED <<connectors, handlers>>
        /\ c.pc # "idle" /\ pc \in CoordinatorPc /\ pc \notin Replaying
    BY <1>2, <2>1, UnchangedRowsKeep DEF CountAttempts, CoordinatorPc, Replaying
  <2> QED BY <1>0, <1>m, <2>1, <2>2, <2>3
<1>3. CASE Disconnect(r)
  <2>1. UNCHANGED worldVars /\ UNCHANGED <<connectors, handlers>> /\ c.pc # "idle"
    BY <1>3 DEF Disconnect
  <2>2. CASE DisconnectExhausted
             /\ coordinators' = [coordinators EXCEPT ![r] = IdleCoordinator]
    <3>1. RowsKeep
      BY <1>0, <2>2, ExecutingKeeps
    <3> QED BY <1>i, <2>1, <2>2, <3>1, QuietTransaction, CoordinatorMoves
  <2>3. CASE CoordinatorGoto(r, "claiming") /\ UNCHANGED runVars
    <3>1. coordinators' = [coordinators EXCEPT ![r].pc = "claiming", ![r].token = c.token]
      BY <1>0, <2>3 DEF CoordinatorGoto, CoordinatorState
    <3>2. RowsKeep /\ "claiming" \in CoordinatorPc \ Replaying
      BY <2>3, UnchangedRowsKeep DEF CoordinatorPc, Replaying
    <3> QED BY <1>0, <1>m, <2>1, <3>1, <3>2
  <2> QED BY <1>3, <2>2, <2>3 DEF Disconnect
<1>4. CASE ClaimRecovery(r)
  <2>1. UNCHANGED worldVars /\ UNCHANGED <<connectors, handlers>> /\ c.pc # "idle"
    BY <1>4 DEF ClaimRecovery
  <2>2. CASE coordinators' = [coordinators EXCEPT ![r] = IdleCoordinator] /\ UNCHANGED runVars
    BY <1>i, <2>1, <2>2, UnchangedRowsKeep, QuietTransaction, CoordinatorMoves
  <2>3. ASSUME NEW n \in NewToken, ClaimSubmissionRecovery(n),
               coordinators' = [coordinators EXCEPT ![r].pc = "replaying", ![r].token = n]
        PROVE  HandingInv'
    <3>1. n \in Tokens /\ "replaying" \in CoordinatorPc
      BY DEF NewToken, Fresh, CoordinatorPc
    <3>2. RowsKeep
      BY <1>0, <2>3, <3>1, ExecutingKeeps
    <3> QED BY <1>m, <2>1, <2>3, <3>1, <3>2
  <2> QED BY <1>4, <2>2, <2>3 DEF ClaimRecovery
<1>5. CASE Replay(r)
  <2>1. Saved(c.bundle) /\ c.bundle \in Bundles
    BY <1>5, <1>s DEF Replay
  <2>2. PICK reply \in {"accepted", "refused", "unknown"} :
          /\ Sent(c.bundle, reply)
          /\ CoordinatorGoto(r, CASE reply = "accepted" -> "completing"
                                  [] reply = "refused" -> "refused"
                                  [] OTHER -> "recording")
    BY <1>5 DEF Replay
  <2>3. UNCHANGED <<runVars, objects>> /\ UNCHANGED <<connectors, handlers>>
    BY <1>5 DEF Replay
  <2>4. /\ WorldKeeps /\ WorldIsSound' /\ RowsAreSound' /\ execution'.input = c.bundle
        /\ reply = "accepted" => provider' = c.bundle /\ outcome' # "none"
    BY <2>1, <2>2, <2>3, SendingIsSound
  <2> DEFINE new == [c EXCEPT !.pc = CASE reply = "accepted" -> "completing"
                                       [] reply = "refused" -> "refused"
                                       [] OTHER -> "recording"]
  <2>5. /\ new \in CoordinatorState /\ new.bundle = c.bundle /\ new.token \in Tokens
        /\ new.pc = "completing" => reply = "accepted"
    BY <1>0, <1>5 DEF CoordinatorState, CoordinatorPc, Replay, CoordinatorIsSound, Replaying
  <2>6. coordinators' = [coordinators EXCEPT ![r] = new]
    BY <1>0, <2>2 DEF CoordinatorGoto, CoordinatorState
  <2> HIDE DEF new
  <2> QED BY <2>1, <2>3, <2>4, <2>5, <2>6, CoordinatorMoves
<1>6. CASE RecordReplay(r)
  <2>1. /\ UNCHANGED worldVars /\ UNCHANGED <<connectors, handlers>>
        /\ coordinators' = [coordinators EXCEPT ![r] = IdleCoordinator]
    BY <1>6 DEF RecordReplay
  <2>2. CASE c.pc = "completing" /\ CompleteSubmissionRecovery(c.token)
    <3>1. Taken(c.bundle) /\ c.bundle \in Bundles
      BY <1>0, <2>2 DEF CoordinatorIsSound, Taken, Saved
    <3>2. WorldKeeps /\ WorldIsSound' /\ RowsAreSound'
      BY <2>1, <2>2, <3>1, CompletingIsSound
    <3> QED BY <1>i, <2>1, <3>2, CoordinatorMoves
  <2>3. CASE ~(c.pc = "completing" /\ CompleteSubmissionRecovery(c.token))
    <3>1. RowsKeep
      BY <1>0, <1>6, <2>3, ExecutingKeeps, UnchangedRowsKeep DEF RecordReplay
    <3> QED BY <1>i, <2>1, <3>1, QuietTransaction, CoordinatorMoves
  <2> QED BY <2>2, <2>3
<1>7. CASE CoordinatorCrash(r)
  BY <1>i, <1>7, UnchangedRowsKeep, QuietTransaction, CoordinatorMoves DEF CoordinatorCrash
<1> QED BY <1>1, <1>2, <1>3, <1>4, <1>5, <1>6, <1>7 DEF CoordinatorStep

(* What happens without a party: the expiry pass, what the provider        *)
(* reports, the operator, the clock and the provider itself.               *)
LEMMA WorldStepHands ==
  ASSUME StoreInv, HandingInv,
         ExpirePass \/ Observe \/ Operator \/ Time \/ LateDelivery \/ ProviderFinishes
  PROVE  HandingInv'
<1>0. TypeOK
  BY DEF StoreInv
<1>1. CASE ExpirePass \/ Observe \/ Operator \/ Time
  <2>1. RowsKeep
    BY <1>0, <1>1, PreparingKeeps, ExecutingKeeps DEF ExpirePass, Observe, Operator, Time
  <2>2. UNCHANGED worldVars /\ UNCHANGED clientVars
    BY <1>1 DEF ExpirePass, Observe, Operator, Time
  <2> QED BY <2>1, <2>2, QuietTransaction, NobodyMoves
<1>2. CASE LateDelivery
  <2>1. PICK b \in wire :
          /\ wire' = wire \ {b}
          /\ IF Acceptable(b) THEN Accept(b) ELSE UNCHANGED <<provider, outcome>>
          /\ UNCHANGED <<runVars, clientVars, objects>>
    BY <1>2 DEF LateDelivery
  <2>2. b \in Bundles /\ Saved(b)
    BY DEF HandingInv, WorldIsSound, Saved
  <2>3. CASE Accept(b)
    BY <2>1, <2>2, <2>3, AcceptingIsSound, NobodyMoves
  <2>4. CASE UNCHANGED <<provider, outcome>>
    <3>1. WorldKeeps
      BY <2>1, <2>4, UnchangedRowsKeep DEF WorldKeeps
    <3>2. WorldIsSound'
      BY <2>1, <2>4 DEF HandingInv, WorldIsSound, Saved, runVars
    <3>3. RowsAreSound'
      BY <2>1, <3>1, RowsStaySound, UnchangedRowsKeep DEF HandingInv
    <3> QED BY <2>1, <3>1, <3>2, <3>3, NobodyMoves
  <2> QED BY <2>1, <2>3, <2>4
<1>3. CASE ProviderFinishes
  <2>1. WorldKeeps
    BY <1>3, UnchangedRowsKeep DEF ProviderFinishes, WorldKeeps
  <2>2. WorldIsSound'
    BY <1>3 DEF ProviderFinishes, HandingInv, WorldIsSound, Saved, runVars
  <2>3. RowsAreSound'
    BY <1>3, <2>1, RowsStaySound, UnchangedRowsKeep DEF ProviderFinishes, HandingInv
  <2> QED BY <1>3, <2>1, <2>2, <2>3, NobodyMoves DEF ProviderFinishes
<1> QED BY <1>1, <1>2, <1>3

----------------------------------------------------------------------------
(* Whoever may act on the preparation has a token.                         *)
LEMMA PreparerHasToken ==
  ASSUME StoreInv, NEW t, OwnsPreparation(t)
  PROVE  t \in Tokens
  BY DEF StoreInv, TypeOK, PreparationRow, ClaimsInv, ClaimsMatchStatus, OwnsPreparation

(* A failure that is reported is a transaction of the preparation store.   *)
LEMMA FailCallUsesTheStore ==
  ASSUME StoreInv, NEW t, NEW retry \in BOOLEAN, NEW uncertain \in BOOLEAN,
         NEW due \in {"now", "later"}, FailPreparationCall(t, retry, uncertain, due)
  PROVE  PreparationStep \/ UNCHANGED runVars
<1>1. CASE OwnsPreparation(t)
  <2>1. t \in Tokens
    BY <1>1, PreparerHasToken
  <2> QED BY <2>1 DEF FailPreparationCall, PreparationStep
<1>2. CASE ~OwnsPreparation(t)
  BY <1>2 DEF FailPreparationCall
<1> QED BY <1>1, <1>2

(* The parties change the rows through the stores only.  The bound of the  *)
(* stores' own model on recorded replays does not apply here.              *)
LEMMA PartiesUseTheStores ==
  ASSUME StoreInv, HandingInv, ProtocolNext
  PROVE  [Next]_runVars \/ \E t \in Tokens : RecordUnknownRecoveryOutcome(t)
<1>0. /\ PartiesTyped /\ objects \subseteq Bundles
      /\ \A p \in Connectors : ConnectorIsSound(p)
      /\ \A h \in Handlers : HandlerIsSound(h)
      /\ \A r \in Coordinators : CoordinatorIsSound(r)
  BY DEF HandingInv, WorldIsSound
<1>1. ASSUME NEW p \in Connectors, ConnectorStep(p) \/ ConnectorCrash(p)
      PROVE  PreparationStep \/ UNCHANGED runVars
  <2> DEFINE t == connectors[p].token
  <2>1. CASE Claim(p)
    BY <2>1 DEF Claim, NewToken, PreparationStep
  <2>2. CASE \/ RecoverSelected(p) \/ Upload(p) \/ Call(p) \/ Returned(p) \/ ConnectorCrash(p)
    BY <2>2 DEF RecoverSelected, Upload, Call, Returned, ConnectorCrash
  <2>3. CASE CallFailed(p) \/ PreparationError(p)
    BY <2>3, FailCallUsesTheStore DEF CallFailed, PreparationError
  <2>4. CASE RecoverUploaded(p)
    <3>1. PICK b \in Open \cap objects : SettleBundle(t, b, "present")
      BY <2>4 DEF RecoverUploaded
    <3>2. t \in Tokens
      BY <3>1, PreparerHasToken DEF SettleBundle, PreparationClaim
    <3> QED BY <3>1, <3>2 DEF PreparationStep, Open
  <2>5. CASE RecoverMissing(p)
    <3>1. PICK b \in Open \ objects : SettleBundle(t, b, "abandoned")
      BY <2>5 DEF RecoverMissing
    <3>2. t \in Tokens
      BY <3>1, PreparerHasToken DEF SettleBundle, PreparationClaim
    <3> QED BY <3>1, <3>2 DEF PreparationStep, Open
  <2>6. CASE Build(p)
    <3>1. CheckpointInput(t) /\ t \in Tokens
      BY <2>6, PreparerHasToken DEF Build, CheckpointInput
    <3> QED BY <3>1 DEF PreparationStep
  <2>7. CASE Reserve(p)
    <3>1. ReserveBundle(t, connectors[p].bundle) /\ connectors[p].bundle \in Bundles
      BY <1>0, <2>7 DEF Reserve, ConnectorIsSound
    <3>2. t \in Tokens
      BY <3>1, PreparerHasToken DEF ReserveBundle, PreparationClaim
    <3> QED BY <3>1, <3>2 DEF PreparationStep
  <2>8. CASE Settle(p)
    <3>1. SettleBundle(t, connectors[p].bundle, "present") /\ connectors[p].bundle \in Bundles
      BY <1>0, <2>8 DEF Settle, ConnectorIsSound
    <3>2. t \in Tokens
      BY <3>1, PreparerHasToken DEF SettleBundle, PreparationClaim
    <3> QED BY <3>1, <3>2 DEF PreparationStep
  <2> QED BY <1>1, <2>1, <2>2, <2>3, <2>4, <2>5, <2>6, <2>7, <2>8 DEF ConnectorStep
<1>2. ASSUME NEW h \in Handlers, HandlerStep(h) \/ HandlerCrash(h)
      PROVE  PreparationStep \/ SubmissionStep \/ UNCHANGED runVars
  <2> DEFINE t == handlers[h].token
  <2>1. CASE HandlerSaves(h)
    <3>1. CASE SavePreparedSubmission(t, handlers[h].bundle)
      <4>1. handlers[h].bundle \in Bundles
        BY <1>0, <2>1 DEF HandlerSaves, HandlerIsSound
      <4>2. t \in Tokens
        BY <3>1, PreparerHasToken DEF SavePreparedSubmission, PreparationClaim
      <4> QED BY <3>1, <4>1, <4>2 DEF SubmissionStep
    <3> QED BY <2>1, <3>1 DEF HandlerSaves
  <2>2. CASE HandlerSubmits(h) \/ HandlerCrash(h)
    BY <2>2 DEF HandlerSubmits, HandlerCrash
  <2>3. CASE HandlerMarks(h)
    <3>1. CASE MarkQueued(t, handlers[h].bundle)
      <4>1. handlers[h].bundle \in Bundles
        BY <1>0, <2>3 DEF HandlerMarks, HandlerIsSound, Taken, Saved
      <4>2. t \in Tokens
        BY <3>1, PreparerHasToken DEF MarkQueued
      <4> QED BY <3>1, <4>1, <4>2 DEF SubmissionStep
    <3> QED BY <2>3, <3>1 DEF HandlerMarks
  <2>4. CASE HandlerFails(h)
    BY <2>4, FailCallUsesTheStore DEF HandlerFails
  <2> QED BY <1>2, <2>1, <2>2, <2>3, <2>4 DEF HandlerStep
<1>3. ASSUME NEW r \in Coordinators, CoordinatorStep(r) \/ CoordinatorCrash(r)
      PROVE  \/ SubmissionStep \/ UNCHANGED runVars
             \/ \E t \in Tokens : RecordUnknownRecoveryOutcome(t)
  <2> DEFINE t == coordinators[r].token
  <2>1. CASE ListRecovery(r) \/ CountAttempts(r) \/ Replay(r) \/ CoordinatorCrash(r)
    BY <2>1 DEF ListRecovery, CountAttempts, Replay, CoordinatorCrash
  <2>2. CASE Disconnect(r)
    BY <2>2 DEF Disconnect, SubmissionStep
  <2>3. CASE ClaimRecovery(r)
    BY <2>3 DEF ClaimRecovery, NewToken, SubmissionStep
  <2>4. CASE RecordReplay(r)
    <3>1. t \in Tokens
      BY <1>0, <2>4 DEF RecordReplay, CoordinatorIsSound, Replaying
    <3>2. \/ CompleteSubmissionRecovery(t) \/ FailSubmissionRecovery(t)
          \/ RecordUnknownRecoveryOutcome(t) \/ UNCHANGED runVars
      BY <2>4 DEF RecordReplay
    <3> QED BY <3>1, <3>2 DEF SubmissionStep
  <2> QED BY <1>3, <2>1, <2>2, <2>3, <2>4 DEF CoordinatorStep
<1>4. CASE ExpirePass
  BY <1>4 DEF ExpirePass, Next, PreparationStep
<1>5. CASE Observe
  BY <1>5 DEF Observe, Next, ObservationStep
<1>6. CASE Operator
  BY <1>6 DEF Operator, Next, OperatorStep
<1>7. CASE Time
  BY <1>7 DEF Time, Next, Clock
<1>8. CASE LateDelivery \/ ProviderFinishes
  BY <1>8 DEF LateDelivery, ProviderFinishes
<1>9. CASE Crash
  BY <1>1, <1>2, <1>3, <1>9 DEF Crash, Next
<1> QED BY <1>1, <1>2, <1>3, <1>4, <1>5, <1>6, <1>7, <1>8, <1>9 DEF ProtocolNext, Next

(* Recording an unknown outcome changes a count.                           *)
LEMMA UnknownOutcomeKeepsStores ==
  ASSUME StoreInv, NEW t \in Tokens, RecordUnknownRecoveryOutcome(t)
  PROVE  StoreInv'
<1>1. /\ execution' \in ExecutionRow
      /\ execution'.status = execution.status /\ execution'.token = execution.token
      /\ execution'.lease = execution.lease /\ execution'.input = execution.input
      /\ UNCHANGED <<preparation, publication, steps, candidates, notices, log>>
  BY DEF StoreInv, TypeOK, ExecutionRow, RecordUnknownRecoveryOutcome
<1>2. TypeOK'
  BY <1>1 DEF StoreInv, TypeOK
<1>3. ClaimsInv'
  BY <1>1 DEF StoreInv, ClaimsInv, ClaimsMatchStatus
<1>4. SelectedIsInput'
  BY <1>1 DEF StoreInv, SelectedIsInput
<1> QED BY <1>2, <1>3, <1>4 DEF StoreInv

(* Every step of every party, and stuttering.                              *)
LEMMA NextHands ==
  StoreInv /\ HandingInv /\ [ProtocolNext]_vars => StoreInv' /\ HandingInv'
<1> SUFFICES ASSUME StoreInv, HandingInv, [ProtocolNext]_vars PROVE StoreInv' /\ HandingInv'
  OBVIOUS
<1>1. [Next]_runVars \/ \E t \in Tokens : RecordUnknownRecoveryOutcome(t)
  BY PartiesUseTheStores DEF vars
<1>2. StoreInv'
  BY <1>1, NextType, NextClaims, NextSelection, UnknownOutcomeKeepsStores DEF StoreInv
<1>3. CASE UNCHANGED vars
  BY <1>2, <1>3, UnchangedRowsKeep, QuietTransaction, NobodyMoves DEF vars
<1>4. CASE ProtocolNext
  BY <1>2, <1>4, ConnectorStepHands, HandlerStepHands, CoordinatorStepHands, WorldStepHands
     DEF ProtocolNext, Crash
<1> QED BY <1>2, <1>3, <1>4

(* Nothing is handed over when the run is admitted.                        *)
LEMMA InitHands == ProtocolInit => StoreInv /\ HandingInv
<1> SUFFICES ASSUME ProtocolInit PROVE StoreInv /\ HandingInv
  OBVIOUS
<1>1. Init
  BY DEF ProtocolInit, Init
<1>2. StoreInv
  BY <1>1, InitType, InitClaims, InitSelection DEF StoreInv
<1>3. PICK t \in Tokens, p \in Connectors :
        /\ InsertedRun(t)
        /\ connectors = [q \in Connectors |->
             IF q = p THEN [pc |-> "recovering", token |-> t, bundle |-> NoBundle, loop |-> FALSE]
                      ELSE IdleConnector]
  BY DEF ProtocolInit
<1>4. PartiesTyped
  BY <1>3 DEF ProtocolInit, PartiesTyped, ConnectorState, HandlerState, CoordinatorState,
       ConnectorPc, HandlerPc, CoordinatorPc, IdleConnector, IdleHandler, IdleCoordinator
<1>5. \A q \in Connectors : ConnectorIsSound(q)
  BY <1>3 DEF ConnectorIsSound, IdleConnector
<1>6. \A h \in Handlers : HandlerIsSound(h)
  <2>1. \A h \in Handlers : handlers[h].pc = "idle"
    BY DEF ProtocolInit, IdleHandler
  <2> QED BY <2>1 DEF HandlerIsSound
<1>7. \A r \in Coordinators : CoordinatorIsSound(r)
  <2>1. \A r \in Coordinators : coordinators[r].pc = "idle"
    BY DEF ProtocolInit, IdleCoordinator
  <2> QED BY <2>1 DEF CoordinatorIsSound, Replaying
<1>8. WorldIsSound
  BY <1>3 DEF ProtocolInit, InsertedRun, WorldIsSound, Uploaded
<1>9. RowsAreSound
  BY <1>3 DEF InsertedRun, RowsAreSound, Accepted, Doubtful
<1> QED BY <1>2, <1>4, <1>5, <1>6, <1>7, <1>8, <1>9 DEF HandingInv

----------------------------------------------------------------------------
(* One run is one input, for any number of preparers, handlers and         *)
(* recovery loops, whatever they lose and whenever they are taken over:    *)
(* everything sent, accepted or on its way is the input of the row.        *)
THEOREM OneInputAlways == ProtocolSpec => []OneInput
<1>1. StoreInv /\ HandingInv => OneInput
  <2> SUFFICES ASSUME StoreInv, HandingInv PROVE OneInput
    OBVIOUS
  <2>1. provider \in {NoBundle, execution.input} /\ wire \subseteq {execution.input}
    BY DEF HandingInv, WorldIsSound, Saved
  <2>2. ASSUME NEW h \in Handlers,
               handlers[h].pc \in {"submitting", "marking", "refused", "unknown"}
        PROVE  handlers[h].bundle = execution.input
    BY <2>2 DEF HandingInv, HandlerIsSound, Saved
  <2> QED BY <2>1, <2>2 DEF OneInput
<1> QED BY <1>1, InitHands, NextHands, PTL DEF ProtocolSpec

(* What was handed over and what is recorded of it agree: nothing is sent  *)
(* before its upload has ended, an accepted run was accepted with the      *)
(* input and the context of the rows, and a submission in doubt can be     *)
(* replayed.                                                               *)
THEOREM SubmissionsAreAlwaysSound == ProtocolSpec => []SubmissionsAreSound
<1>1. StoreInv /\ HandingInv => SubmissionsAreSound
  <2> SUFFICES ASSUME StoreInv, HandingInv PROVE SubmissionsAreSound
    OBVIOUS
  <2>1. ASSUME NEW b, Saved(b) PROVE b \in objects
    BY <2>1 DEF StoreInv, SelectedIsInput, HandingInv, WorldIsSound, Saved, Uploaded
  <2>2. (provider # NoBundle => provider \in objects) /\ wire \subseteq objects
    BY <2>1 DEF HandingInv, WorldIsSound
  <2>3. execution.status \in {"queued", "running", "succeeded"}
          => /\ provider = execution.input /\ publication.input = execution.input
             /\ outcome # "none"
    BY DEF HandingInv, RowsAreSound, Accepted, Taken
  <2>4. execution.status \in {"uncertain", "disconnected"} => execution.input # NoBundle
    BY NullsAreNotValues DEF HandingInv, RowsAreSound, Doubtful, Saved
  <2> QED BY <2>2, <2>3, <2>4 DEF SubmissionsAreSound
<1> QED BY <1>1, InitHands, NextHands, PTL DEF ProtocolSpec

----------------------------------------------------------------------------
(* Counting an unknown outcome tells nothing new and moves no axis.        *)
LEMMA UnknownOutcomeKeepsRecord ==
  ASSUME StoreInv, RecordInv, NEW t \in Tokens, RecordUnknownRecoveryOutcome(t)
  PROVE  RecordInv' /\ LifecycleMove
<1>1. /\ execution'.status = execution.status
      /\ UNCHANGED <<preparation, publication, steps, notices, log>>
  BY DEF StoreInv, TypeOK, ExecutionRow, RecordUnknownRecoveryOutcome
<1>2. AxesInv' /\ DoubtInv'
  BY <1>1 DEF RecordInv, AxesInv, PreparationNeverContradicted, AxesAgree, DoubtInv, StepIs
<1>3. TellingInv' /\ TrailInv'
  BY <1>1 DEF RecordInv, TellingInv, TrailInv, Told, Ends
<1>4. LifecycleMove
  BY <1>1 DEF LifecycleMove, Lifecycle!axes
<1> QED BY <1>2, <1>3, <1>4, UnknownOutcomeKeepsStores DEF StoreInv, RecordInv

(* Every step of every party keeps the record of the run and follows the   *)
(* lifecycle.                                                              *)
LEMMA HandingKeepsRecord ==
  StoreInv /\ HandingInv /\ RecordInv /\ [ProtocolNext]_vars => RecordInv' /\ LifecycleMove
<1> SUFFICES ASSUME StoreInv, HandingInv, RecordInv, [ProtocolNext]_vars
             PROVE  RecordInv' /\ LifecycleMove
  OBVIOUS
<1>1. [Next]_runVars \/ \E t \in Tokens : RecordUnknownRecoveryOutcome(t)
  BY PartiesUseTheStores DEF vars
<1>2. CASE [Next]_runVars
  BY <1>2, NextRecords DEF StoreInv
<1> QED BY <1>1, <1>2, UnknownOutcomeKeepsRecord

(* A run that is being handed over starts as every run does.               *)
LEMMA HandingStartsRecord == ProtocolInit => RecordInv /\ Lifecycle!LifecycleInit
<1>1. ProtocolInit => Init
  BY DEF ProtocolInit, Init
<1>2. Init => Lifecycle!LifecycleInit
  BY DEF Init, InsertedRun, Lifecycle!LifecycleInit
<1> QED BY <1>1, <1>2, InitClaims, InitAxes, InitTold, InitTrail, InitDoubt DEF RecordInv

(* What the stores promise of the rows holds with the parties around them: *)
(* whatever preparers, handlers and recovery loops do with claims they     *)
(* lost, the axes agree, the claims match, the trail is complete and an    *)
(* ending is told.                                                         *)
THEOREM HandingOverIsRecorded == ProtocolSpec => []RecordStands
  BY RecordIsEnough, InitHands, NextHands, HandingStartsRecord, HandingKeepsRecord, PTL
     DEF ProtocolSpec

(* The composition implements the lifecycle of a run as well: no order of  *)
(* the parties' steps moves an axis where the contract has no edge.        *)
THEOREM HandingOverFollowsLifecycle == ProtocolSpec => FollowsLifecycle
<1>1. StoreInv /\ HandingInv /\ RecordInv /\ [ProtocolNext]_vars
        => [Lifecycle!LifecycleNext]_(Lifecycle!axes)
  BY HandingKeepsRecord DEF LifecycleMove
<1> QED BY <1>1, InitHands, NextHands, HandingStartsRecord, HandingKeepsRecord, PTL
        DEF ProtocolSpec, FollowsLifecycle, Lifecycle!LifecycleSpec

-----------------------------------------------------------------------------
(***************************************************************************)
(* Bundles.  S3 takes the sender's word for the digest, so that an object  *)
(* has the content its key names rests on the staged archive: it is whole, *)
(* its digest is the one computed from it, and it stays as it is as long   *)
(* as anybody may still send it, a put that outlives its sender included.  *)
(***************************************************************************)
AttemptState ==
  [pc: {"idle", "recovering", "building", "archiving", "archived", "publishing", "copying",
        "verifying", "linking", "confirming", "putting", "published", "failed"},
   content: Contents \cup {0}, digest: Contents \cup {0}, copy: Archive \cup {NoFile}]

BundlesTyped ==
  /\ backend \in {"file", "s3"}
  /\ staging \in [Preparers -> Archive \cup {NoFile}]
  /\ bucket \in [Contents -> Stored \cup {NoFile}]
  /\ uploads \subseteq [from: Preparers, digest: Contents]
  /\ reserved \subseteq Contents \ Oversized
  /\ attempts \in [Preparers -> AttemptState]

ObjectsAreNamed == \A key \in Contents : bucket[key] # NoFile => bucket[key].content = key

(* What an attempt may rely on, by how far it is.                          *)
AttemptIsSound(p) ==
  LET pc == attempts[p].pc
      digest == attempts[p].digest
  IN /\ pc # "idle" => attempts[p].content \in Contents
     /\ pc = "archived" => staging[p] = File(attempts[p].content, TRUE)
     /\ pc \in {"publishing", "copying", "verifying", "linking", "confirming", "putting",
                "published"} => digest \in Contents \ Oversized
     /\ pc \in {"publishing", "copying", "verifying", "linking", "putting"} =>
          staging[p] = File(digest, TRUE)
     /\ pc = "linking" => attempts[p].copy = File(digest, TRUE)
     /\ pc = "published" => bucket[digest] # NoFile /\ bucket[digest].whole

(* A put that outlives its sender sends what the digest names.             *)
UploadsAreSound ==
  \A put \in uploads : attempts[put.from].pc = "failed" /\ staging[put.from] = File(put.digest, TRUE)

(* The inductive invariant.                                                *)
BundlesAreSound ==
  /\ BundlesTyped
  /\ ObjectsAreNamed
  /\ \A p \in Preparers : AttemptIsSound(p)
  /\ UploadsAreSound

(* One attempt moves; the store keeps what it has.                         *)
LEMMA AttemptMoves ==
  ASSUME BundlesAreSound, NEW p \in Preparers, NEW new \in AttemptState,
         attempts[p].pc # "failed", attempts' = [attempts EXCEPT ![p] = new],
         UNCHANGED backend,
         staging' \in [Preparers -> Archive \cup {NoFile}],
         \A q \in Preparers \ {p} : staging'[q] = staging[q],
         bucket' \in [Contents -> Stored \cup {NoFile}],
         \A key \in Contents : bucket[key] # NoFile => bucket'[key] = bucket[key],
         ObjectsAreNamed',
         reserved' \subseteq Contents \ Oversized,
         uploads' \subseteq [from: Preparers, digest: Contents],
         \A put \in uploads' : \/ put \in uploads
                               \/ /\ put.from = p /\ new.pc = "failed"
                                  /\ staging'[p] = File(put.digest, TRUE),
         AttemptIsSound(p)'
  PROVE  BundlesAreSound'
<1>1. attempts'[p] = new /\ \A q \in Preparers \ {p} : attempts'[q] = attempts[q]
  BY DEF BundlesAreSound, BundlesTyped
<1>2. BundlesTyped'
  BY DEF BundlesAreSound, BundlesTyped
<1>3. ASSUME NEW q \in Preparers, q # p PROVE AttemptIsSound(q)'
  <2>1. attempts'[q] = attempts[q] /\ staging'[q] = staging[q] /\ AttemptIsSound(q)
    BY <1>1, <1>3 DEF BundlesAreSound
  <2> QED BY <2>1 DEF AttemptIsSound
<1>4. UploadsAreSound'
  <2>1. ASSUME NEW put \in uploads'
        PROVE  attempts'[put.from].pc = "failed" /\ staging'[put.from] = File(put.digest, TRUE)
    <3>1. CASE put \in uploads
      <4>1. /\ attempts[put.from].pc = "failed" /\ staging[put.from] = File(put.digest, TRUE)
            /\ put.from \in Preparers
        BY <3>1 DEF BundlesAreSound, UploadsAreSound, BundlesTyped
      <4> QED BY <1>1, <4>1
    <3>2. CASE put.from = p /\ new.pc = "failed" /\ staging'[p] = File(put.digest, TRUE)
      BY <1>1, <3>2
    <3> QED BY <2>1, <3>1, <3>2
  <2> QED BY <2>1 DEF UploadsAreSound
<1> QED BY <1>2, <1>3, <1>4 DEF BundlesAreSound

(* An attempt moves and touches nothing but its own state, its archive and *)
(* the ledger of candidates.                                               *)
LEMMA AttemptGoesOn ==
  ASSUME BundlesAreSound, NEW p \in Preparers, NEW new \in AttemptState,
         attempts[p].pc # "failed", attempts' = [attempts EXCEPT ![p] = new],
         UNCHANGED <<backend, bucket, uploads>>,
         staging' \in [Preparers -> Archive \cup {NoFile}],
         \A q \in Preparers \ {p} : staging'[q] = staging[q],
         reserved' \subseteq Contents \ Oversized,
         AttemptIsSound(p)'
  PROVE  BundlesAreSound'
<1>1. ObjectsAreNamed' /\ bucket' \in [Contents -> Stored \cup {NoFile}]
  BY DEF BundlesAreSound, ObjectsAreNamed, BundlesTyped
<1>2. uploads' \subseteq [from: Preparers, digest: Contents]
  BY DEF BundlesAreSound, BundlesTyped
<1> QED BY <1>1, <1>2, AttemptMoves

(* An attempt ends, however far it is.                                     *)
LEMMA AttemptFails ==
  ASSUME BundlesAreSound, NEW p \in Preparers, attempts[p].pc \notin {"idle", "failed"},
         attempts' = [attempts EXCEPT ![p].pc = "failed"],
         UNCHANGED <<backend, bucket, uploads, staging, reserved>>
  PROVE  BundlesAreSound'
<1> DEFINE new == [attempts[p] EXCEPT !.pc = "failed"]
<1>1. attempts[p] \in AttemptState /\ AttemptIsSound(p)
  BY DEF BundlesAreSound, BundlesTyped
<1>2. attempts' = [attempts EXCEPT ![p] = new]
  OBVIOUS
<1>3. new \in AttemptState /\ new.pc = "failed" /\ new.content = attempts[p].content
  BY <1>1 DEF AttemptState
<1> HIDE DEF new
<1>4. attempts'[p] = new
  BY <1>2 DEF BundlesAreSound, BundlesTyped
<1>5. AttemptIsSound(p)'
  BY <1>1, <1>3, <1>4 DEF AttemptIsSound
<1>6. staging' \in [Preparers -> Archive \cup {NoFile}] /\ reserved' \subseteq Contents \ Oversized
  BY DEF BundlesAreSound, BundlesTyped
<1> QED BY <1>2, <1>3, <1>5, <1>6, AttemptGoesOn

(* A bundle that is found is there, whole.                                 *)
LEMMA FoundIsWhole ==
  ASSUME NEW digest \in Contents, Found(digest) = "true"
  PROVE  bucket[digest] # NoFile /\ bucket[digest].whole
  BY DEF Found, LocalBundle, existingObjectMatches, matchesReference, inputObjectKey

(* An attempt starts, and builds its archive.                              *)
LEMMA ArchivingIsSound ==
  ASSUME BundlesAreSound, NEW p \in Preparers,
         \/ StartAttempt(p) \/ StartArchive(p) \/ FinishArchive(p)
         \/ archiveInputBundleAndBuildInput(p)
  PROVE  BundlesAreSound'
<1> DEFINE old == attempts[p]
<1>0. /\ old \in AttemptState /\ AttemptIsSound(p)
      /\ staging \in [Preparers -> Archive \cup {NoFile}] /\ reserved \subseteq Contents \ Oversized
  BY DEF BundlesAreSound, BundlesTyped
<1>1. CASE StartAttempt(p)
  <2>1. PICK content \in Contents :
          attempts' = [attempts EXCEPT ![p].pc = "recovering", ![p].content = content]
    BY <1>1 DEF StartAttempt
  <2> DEFINE new == [old EXCEPT !.pc = "recovering", !.content = content]
  <2>2. attempts' = [attempts EXCEPT ![p] = new]
    BY <1>0, <2>1 DEF BundlesAreSound, BundlesTyped, AttemptState
  <2>3. new \in AttemptState /\ new.pc = "recovering" /\ new.content = content
    BY <1>0 DEF AttemptState
  <2>4. /\ UNCHANGED <<backend, bucket, uploads, staging, reserved>> /\ old.pc = "idle"
    BY <1>1 DEF StartAttempt
  <2> HIDE DEF new
  <2>5. attempts'[p] = new
    BY <2>2 DEF BundlesAreSound, BundlesTyped
  <2>6. AttemptIsSound(p)'
    BY <2>3, <2>5 DEF AttemptIsSound
  <2> QED BY <1>0, <2>2, <2>3, <2>4, <2>6, AttemptGoesOn
<1>2. CASE StartArchive(p)
  <2> DEFINE new == [old EXCEPT !.pc = "archiving"]
             file == File(old.content, FALSE)
  <2>1. /\ attempts' = [attempts EXCEPT ![p] = new] /\ old.pc = "building"
        /\ staging' = [staging EXCEPT ![p] = file]
        /\ UNCHANGED <<backend, bucket, uploads, reserved>>
    BY <1>2 DEF StartArchive, Moves, createInputBundleRoot
  <2>2. new \in AttemptState /\ new.pc = "archiving" /\ new.content = old.content
    BY <1>0 DEF AttemptState
  <2>3. file \in Archive
    BY <1>0, <2>1 DEF AttemptIsSound, File, Archive
  <2> HIDE DEF new, file
  <2>4. attempts'[p] = new
    BY <2>1 DEF BundlesAreSound, BundlesTyped
  <2>5. AttemptIsSound(p)'
    BY <1>0, <2>1, <2>2, <2>4 DEF AttemptIsSound
  <2>6. /\ staging' \in [Preparers -> Archive \cup {NoFile}]
        /\ \A q \in Preparers \ {p} : staging'[q] = staging[q]
    BY <1>0, <2>1, <2>3
  <2> QED BY <1>0, <2>1, <2>2, <2>5, <2>6, AttemptGoesOn
<1>3. CASE FinishArchive(p)
  <2> DEFINE new == [old EXCEPT !.pc = "archived"]
             file == File(old.content, TRUE)
  <2>1. /\ attempts' = [attempts EXCEPT ![p] = new] /\ old.pc = "archiving"
        /\ staging' = [staging EXCEPT ![p] = file]
        /\ UNCHANGED <<backend, bucket, uploads, reserved>>
    BY <1>3 DEF FinishArchive, Moves, createInputBundleRoot
  <2>2. new \in AttemptState /\ new.pc = "archived" /\ new.content = old.content
    BY <1>0 DEF AttemptState
  <2>3. file \in Archive
    BY <1>0, <2>1 DEF AttemptIsSound, File, Archive
  <2> HIDE DEF new
  <2>4. attempts'[p] = new /\ staging'[p] = File(old.content, TRUE)
    BY <1>0, <2>1 DEF BundlesAreSound, BundlesTyped
  <2> HIDE DEF file
  <2>5. AttemptIsSound(p)'
    BY <1>0, <2>1, <2>2, <2>4 DEF AttemptIsSound
  <2>6. /\ staging' \in [Preparers -> Archive \cup {NoFile}]
        /\ \A q \in Preparers \ {p} : staging'[q] = staging[q]
    BY <1>0, <2>1, <2>3
  <2> QED BY <1>0, <2>1, <2>2, <2>5, <2>6, AttemptGoesOn
<1>4. CASE archiveInputBundleAndBuildInput(p)
  <2> DEFINE digest == old.content
  <2>1. /\ old.pc = "archived" /\ staging[p] = File(digest, TRUE) /\ staging[p].content = digest
        /\ digest \in Contents /\ UNCHANGED <<backend, staging, bucket, uploads>>
    BY <1>0, <1>4 DEF archiveInputBundleAndBuildInput, AttemptIsSound, File
  <2>2. CASE digest \notin Oversized
    <3> DEFINE new == [old EXCEPT !.pc = "publishing", !.digest = digest]
    <3>1. attempts' = [attempts EXCEPT ![p] = new] /\ reserved' = reserved \cup {digest}
      BY <1>0, <1>4, <2>1, <2>2 DEF archiveInputBundleAndBuildInput, assertWorkflowInputFits,
         createInputBundleRoot, BundlesAreSound, BundlesTyped, AttemptState
    <3>2. /\ new \in AttemptState /\ new.pc = "publishing" /\ new.digest = digest
          /\ new.content = digest
      BY <1>0, <2>1 DEF AttemptState
    <3> HIDE DEF new
    <3>3. attempts'[p] = new
      BY <3>1 DEF BundlesAreSound, BundlesTyped
    <3>4. AttemptIsSound(p)'
      BY <2>1, <2>2, <3>2, <3>3 DEF AttemptIsSound
    <3>5. reserved' \subseteq Contents \ Oversized
      BY <1>0, <2>1, <2>2, <3>1
    <3> QED BY <1>0, <2>1, <3>1, <3>2, <3>4, <3>5, AttemptGoesOn
  <2>3. CASE digest \in Oversized
    <3>1. attempts' = [attempts EXCEPT ![p].pc = "failed"] /\ UNCHANGED reserved
      BY <1>4, <2>1, <2>3 DEF archiveInputBundleAndBuildInput, assertWorkflowInputFits,
         createInputBundleRoot
    <3> QED BY <2>1, <3>1, AttemptFails
  <2> QED BY <2>2, <2>3
<1> QED BY <1>1, <1>2, <1>3, <1>4

(* An attempt looks, and goes where what it found allows.                  *)
LEMMA AttemptLooks ==
  ASSUME BundlesAreSound, NEW p \in Preparers,
         attempts[p].pc \notin {"idle", "published", "failed"},
         NEW digest \in Contents \cup {0}, digest = attempts[p].digest \/ attempts[p].pc = "recovering",
         NEW pc \in {"building", "copying", "putting", "linking", "confirming", "published"},
         attempts' = [attempts EXCEPT ![p] = [attempts[p] EXCEPT !.pc = pc, !.digest = digest]],
         UNCHANGED <<backend, bucket, uploads, staging, reserved>>,
         pc \in {"copying", "putting"} => attempts[p].pc = "publishing",
         pc = "linking" =>
           attempts[p].pc = "verifying" /\ attempts[p].copy = File(attempts[p].digest, TRUE),
         pc = "confirming" => attempts[p].pc = "linking",
         pc = "published" => digest \in Contents \ Oversized /\ Found(digest) = "true"
  PROVE  BundlesAreSound'
<1> DEFINE new == [attempts[p] EXCEPT !.pc = pc, !.digest = digest]
<1>1. /\ attempts[p] \in AttemptState /\ AttemptIsSound(p)
      /\ staging \in [Preparers -> Archive \cup {NoFile}] /\ reserved \subseteq Contents \ Oversized
  BY DEF BundlesAreSound, BundlesTyped
<1>2. /\ new \in AttemptState /\ new.pc = pc /\ new.content = attempts[p].content
      /\ new.digest = digest /\ new.copy = attempts[p].copy
  BY <1>1 DEF AttemptState
<1>3. attempts' = [attempts EXCEPT ![p] = new]
  OBVIOUS
<1> HIDE DEF new
<1>4. attempts'[p] = new
  BY <1>3 DEF BundlesAreSound, BundlesTyped
<1>5. pc = "published" => bucket[digest] # NoFile /\ bucket[digest].whole
  BY FoundIsWhole
<1>6. AttemptIsSound(p)'
  BY <1>1, <1>2, <1>4, <1>5 DEF AttemptIsSound
<1> QED BY <1>1, <1>2, <1>3, <1>6, AttemptGoesOn

(* A later attempt asks for the candidates of the earlier ones.            *)
LEMMA RecoveryIsSound ==
  ASSUME BundlesAreSound, NEW p \in Preparers, inputBundleExists(p)
  PROVE  BundlesAreSound'
<1>0. /\ attempts[p] \in AttemptState /\ attempts[p].pc = "recovering"
      /\ UNCHANGED <<backend, staging, bucket, uploads>>
      /\ reserved \subseteq Contents \ Oversized
  BY DEF BundlesAreSound, BundlesTyped, inputBundleExists
<1>1. CASE attempts' = [attempts EXCEPT ![p].pc = "building"] /\ UNCHANGED reserved
  <2>1. attempts' = [attempts EXCEPT ![p] = [attempts[p] EXCEPT !.pc = "building",
                                                              !.digest = attempts[p].digest]]
    BY <1>0, <1>1 DEF AttemptState, BundlesAreSound, BundlesTyped
  <2>2. attempts[p].digest \in Contents \cup {0}
    BY <1>0 DEF AttemptState
  <2> QED BY <1>0, <1>1, <2>1, <2>2, AttemptLooks
<1>2. ASSUME NEW digest \in reserved, Found(digest) = "true", UNCHANGED reserved,
             attempts' = [attempts EXCEPT ![p].pc = "published", ![p].digest = digest]
      PROVE  BundlesAreSound'
  <2>1. attempts' = [attempts EXCEPT ![p] = [attempts[p] EXCEPT !.pc = "published",
                                                              !.digest = digest]]
    BY <1>0, <1>2 DEF AttemptState, BundlesAreSound, BundlesTyped
  <2>2. digest \in Contents \ Oversized
    BY <1>0, <1>2
  <2> QED BY <1>0, <1>2, <2>1, <2>2, AttemptLooks
<1>3. ASSUME NEW digest \in reserved, reserved' = reserved \ {digest}, UNCHANGED attempts
      PROVE  BundlesAreSound'
  <2>1. BundlesTyped'
    BY <1>0, <1>3 DEF BundlesAreSound, BundlesTyped
  <2>2. ObjectsAreNamed' /\ UploadsAreSound' /\ \A q \in Preparers : AttemptIsSound(q)'
    BY <1>0, <1>3 DEF BundlesAreSound, ObjectsAreNamed, UploadsAreSound, AttemptIsSound
  <2> QED BY <2>1, <2>2 DEF BundlesAreSound
<1>4. CASE attempts' = [attempts EXCEPT ![p].pc = "failed"] /\ UNCHANGED reserved
  BY <1>0, <1>4, AttemptFails
<1>5. CASE reserved = {}
  BY <1>1, <1>5 DEF inputBundleExists
<1>6. CASE reserved # {}
  <2>1. PICK digest \in reserved :
          \/ /\ Found(digest) = "true" /\ UNCHANGED reserved
             /\ attempts' = [attempts EXCEPT ![p].pc = "published", ![p].digest = digest]
          \/ reserved' = reserved \ {digest} /\ UNCHANGED attempts
          \/ attempts' = [attempts EXCEPT ![p].pc = "failed"] /\ UNCHANGED reserved
    BY <1>6 DEF inputBundleExists
  <2> QED BY <1>2, <1>3, <1>4, <2>1
<1> QED BY <1>5, <1>6

(* What is at a key stays, and what is new there has the key's content.    *)
LEMMA PutIsSound ==
  ASSUME BundlesAreSound, NEW from \in Preparers, NEW digest \in Contents,
         staging[from] = File(digest, TRUE), Put([from |-> from, digest |-> digest])
  PROVE  /\ bucket' \in [Contents -> Stored \cup {NoFile}]
         /\ \A key \in Contents : bucket[key] # NoFile => bucket'[key] = bucket[key]
         /\ ObjectsAreNamed'
         /\ bucket[digest] = NoFile => bucket'[digest] # NoFile /\ bucket'[digest].whole
<1> DEFINE object == Object(digest, TRUE, digest)
<1>1. /\ object \in Stored /\ object # NoFile /\ object.content = digest /\ object.whole
  <2>1. object \in Stored
    BY DEF Stored, Object
  <2>2. object.content = digest /\ object.whole
    BY DEF Object
  <2>3. object # NoFile
    <3> HIDE DEF object
    <3> QED BY <2>1, NoFileIsNone
  <2> QED BY <2>1, <2>2, <2>3
<1>2. staging[from].whole /\ staging[from].content = digest
  BY DEF File
<1>3. bucket' = IF bucket[digest] # NoFile THEN bucket ELSE [bucket EXCEPT ![digest] = object]
  BY <1>2 DEF Put, inputObjectKey
<1>4. bucket \in [Contents -> Stored \cup {NoFile}] /\ ObjectsAreNamed
  BY DEF BundlesAreSound, BundlesTyped
<1> HIDE DEF object
<1> QED BY <1>1, <1>3, <1>4 DEF ObjectsAreNamed

(* An attempt publishes: it looks, copies and links a file, or sends it.   *)
LEMMA PublishingIsSound ==
  ASSUME BundlesAreSound, NEW p \in Preparers,
         \/ LookFirst(p) \/ CopyFile(p) \/ VerifyCopy(p) \/ LinkFile(p) \/ Confirm(p)
         \/ PutObject(p) \/ PutUnanswered(p)
  PROVE  BundlesAreSound'
<1> DEFINE old == attempts[p]
           Going(pc) == [old EXCEPT !.pc = pc, !.digest = old.digest]
           digest == old.digest
<1>0. /\ old \in AttemptState /\ AttemptIsSound(p)
      /\ staging \in [Preparers -> Archive \cup {NoFile}]
      /\ bucket \in [Contents -> Stored \cup {NoFile}] /\ ObjectsAreNamed
      /\ reserved \subseteq Contents \ Oversized
      /\ uploads \subseteq [from: Preparers, digest: Contents]
      /\ digest \in Contents \cup {0}
      /\ attempts \in [Preparers -> AttemptState]
  BY DEF BundlesAreSound, BundlesTyped, AttemptState
<1>1. ASSUME NEW pc, attempts' = [attempts EXCEPT ![p].pc = pc]
      PROVE  attempts' = [attempts EXCEPT ![p] = Going(pc)]
  BY <1>0, <1>1 DEF AttemptState
<1> HIDE DEF Going
<1>2. CASE LookFirst(p)
  <2>1. old.pc = "publishing" /\ UNCHANGED <<backend, staging, bucket, uploads, reserved>>
    BY <1>2 DEF LookFirst
  <2>2. PICK pc \in {"published", "copying", "putting", "failed"} :
          /\ attempts' = [attempts EXCEPT ![p].pc = pc]
          /\ pc = "published" => Found(digest) = "true"
    BY <1>2 DEF LookFirst
  <2>3. digest \in Contents \ Oversized
    BY <1>0, <2>1 DEF AttemptIsSound
  <2>4. CASE pc = "failed"
    BY <2>1, <2>2, <2>4, AttemptFails
  <2>5. CASE pc # "failed"
    <3>1. attempts' = [attempts EXCEPT ![p] = Going(pc)]
      BY <1>1, <2>2
    <3>2. /\ pc \in {"copying", "putting", "published"}
          /\ pc = "published" => Found(digest) = "true"
      BY <2>2, <2>5
    <3> QED BY <1>0, <2>1, <2>3, <3>1, <3>2, AttemptLooks DEF Going
  <2> QED BY <2>4, <2>5
<1>3. CASE CopyFile(p)
  <2> DEFINE new == [old EXCEPT !.copy = staging[p], !.pc = "verifying"]
  <2>1. /\ attempts' = [attempts EXCEPT ![p] = new] /\ old.pc = "copying"
        /\ UNCHANGED <<backend, staging, bucket, uploads, reserved>>
    BY <1>0, <1>3 DEF CopyFile, createInputBundleRoot, AttemptState
  <2>2. /\ new \in AttemptState /\ new.pc = "verifying" /\ new.digest = digest
        /\ new.content = old.content
    BY <1>0 DEF AttemptState
  <2> HIDE DEF new
  <2>3. attempts'[p] = new
    BY <1>0, <2>1
  <2>4. AttemptIsSound(p)'
    BY <1>0, <2>1, <2>2, <2>3 DEF AttemptIsSound
  <2> QED BY <1>0, <2>1, <2>2, <2>4, AttemptGoesOn
<1>4. CASE VerifyCopy(p)
  <2>1. old.pc = "verifying" /\ UNCHANGED <<backend, staging, bucket, uploads, reserved>>
    BY <1>4 DEF VerifyCopy
  <2>2. CASE old.copy = File(digest, TRUE)
    <3>1. attempts' = [attempts EXCEPT ![p] = Going("linking")]
      BY <1>1, <1>4, <2>2 DEF VerifyCopy
    <3> QED BY <1>0, <2>1, <2>2, <3>1, AttemptLooks DEF Going
  <2>3. CASE old.copy # File(digest, TRUE)
    BY <1>4, <2>1, <2>3, AttemptFails DEF VerifyCopy
  <2> QED BY <2>2, <2>3
<1>5. CASE LinkFile(p)
  <2> DEFINE new == [old EXCEPT !.pc = "confirming"]
             object == Object(digest, TRUE, NoFile)
  <2>1. /\ attempts' = [attempts EXCEPT ![p] = new] /\ old.pc = "linking"
        /\ UNCHANGED <<backend, staging, uploads, reserved>>
    BY <1>5 DEF LinkFile, Moves
  <2>2. /\ new \in AttemptState /\ new.pc = "confirming" /\ new.digest = digest
        /\ new.content = old.content
    BY <1>0 DEF AttemptState
  <2>3. /\ digest \in Contents \ Oversized /\ old.copy = File(digest, TRUE)
        /\ old.copy.content = digest /\ old.copy.whole = TRUE
    BY <1>0, <2>1 DEF AttemptIsSound, File
  <2>4. bucket' = IF bucket[digest] # NoFile THEN bucket ELSE [bucket EXCEPT ![digest] = object]
    BY <1>5, <2>3 DEF LinkFile, inputObjectKey
  <2>5. object \in Stored /\ object.content = digest
    BY <2>3 DEF Stored, Object
  <2> HIDE DEF new, object
  <2>6. attempts'[p] = new
    BY <1>0, <2>1
  <2>7. AttemptIsSound(p)'
    BY <1>0, <2>1, <2>2, <2>3, <2>6 DEF AttemptIsSound
  <2>8. /\ bucket' \in [Contents -> Stored \cup {NoFile}]
        /\ \A key \in Contents : bucket[key] # NoFile => bucket'[key] = bucket[key]
        /\ ObjectsAreNamed'
    BY <1>0, <2>3, <2>4, <2>5 DEF ObjectsAreNamed
  <2> QED BY <1>0, <2>1, <2>2, <2>7, <2>8, AttemptMoves
<1>6. CASE Confirm(p)
  <2>1. old.pc = "confirming" /\ UNCHANGED <<backend, staging, bucket, uploads, reserved>>
    BY <1>6 DEF Confirm
  <2>2. digest \in Contents \ Oversized
    BY <1>0, <2>1 DEF AttemptIsSound
  <2>3. CASE Found(digest) = "true"
    <3>1. attempts' = [attempts EXCEPT ![p] = Going("published")]
      BY <1>1, <1>6, <2>3 DEF Confirm
    <3> QED BY <1>0, <2>1, <2>2, <2>3, <3>1, AttemptLooks DEF Going
  <2>4. CASE Found(digest) # "true"
    BY <1>6, <2>1, <2>4, AttemptFails DEF Confirm
  <2> QED BY <2>3, <2>4
<1>7. CASE PutObject(p) \/ PutUnanswered(p)
  <2>0. old.pc = "putting" /\ UNCHANGED <<backend, staging, reserved>>
    BY <1>7 DEF PutObject, PutUnanswered, Moves
  <2>1. /\ digest \in Contents \ Oversized /\ staging[p] = File(digest, TRUE)
        /\ staging[p].whole = TRUE /\ PutOf(p) = [from |-> p, digest |-> digest]
    BY <1>0, <2>0 DEF AttemptIsSound, File, PutOf, createInputBundleRoot
  <2>2. \E pc \in {"confirming", "published", "failed"} :
          /\ attempts' = [attempts EXCEPT ![p].pc = pc]
          /\ pc = "published" => Put(PutOf(p)) /\ bucket[digest] = NoFile
          /\ \/ Put(PutOf(p)) /\ UNCHANGED uploads
             \/ pc = "failed" /\ uploads' = uploads \cup {PutOf(p)} /\ UNCHANGED bucket
    BY <1>7, <2>1 DEF PutObject, PutUnanswered, Moves, createInputBundleRoot, inputObjectKey
  <2>3. PICK pc \in {"confirming", "published", "failed"} :
          /\ attempts' = [attempts EXCEPT ![p].pc = pc]
          /\ pc = "published" => Put(PutOf(p)) /\ bucket[digest] = NoFile
          /\ \/ Put(PutOf(p)) /\ UNCHANGED uploads
             \/ pc = "failed" /\ uploads' = uploads \cup {PutOf(p)} /\ UNCHANGED bucket
    BY <2>2
  <2>4. /\ Going(pc) \in AttemptState /\ Going(pc).pc = pc /\ Going(pc).digest = digest
        /\ Going(pc).content = old.content
    BY <1>0 DEF Going, AttemptState
  <2>5. attempts' = [attempts EXCEPT ![p] = Going(pc)] /\ attempts'[p] = Going(pc)
    BY <1>0, <1>1, <2>3
  <2>6. Put(PutOf(p)) =>
          /\ bucket' \in [Contents -> Stored \cup {NoFile}]
          /\ \A key \in Contents : bucket[key] # NoFile => bucket'[key] = bucket[key]
          /\ ObjectsAreNamed'
          /\ bucket[digest] = NoFile => bucket'[digest] # NoFile /\ bucket'[digest].whole
    BY <2>1, PutIsSound
  <2>7. /\ bucket' \in [Contents -> Stored \cup {NoFile}]
        /\ \A key \in Contents : bucket[key] # NoFile => bucket'[key] = bucket[key]
        /\ ObjectsAreNamed'
    <3>1. CASE UNCHANGED bucket
      BY <1>0, <3>1 DEF ObjectsAreNamed
    <3> QED BY <2>3, <2>6, <3>1
  <2>8. AttemptIsSound(p)'
    BY <1>0, <2>0, <2>1, <2>3, <2>4, <2>5, <2>6 DEF AttemptIsSound
  <2>9. /\ uploads' \subseteq [from: Preparers, digest: Contents]
        /\ \A put \in uploads' : \/ put \in uploads
                                 \/ /\ put.from = p /\ pc = "failed"
                                    /\ staging'[p] = File(put.digest, TRUE)
    <3>1. /\ PutOf(p) \in [from: Preparers, digest: Contents]
          /\ PutOf(p).from = p /\ PutOf(p).digest = digest
      BY <2>1
    <3>2. UNCHANGED uploads \/ (pc = "failed" /\ uploads' = uploads \cup {PutOf(p)})
      BY <2>3
    <3>3. staging'[p] = File(digest, TRUE)
      BY <2>0, <2>1
    <3> QED BY <1>0, <3>1, <3>2, <3>3
  <2> QED BY <1>0, <2>0, <2>4, <2>5, <2>7, <2>8, <2>9, AttemptMoves
<1> QED BY <1>2, <1>3, <1>4, <1>5, <1>6, <1>7

(* A put arrives after its sender stopped waiting.                         *)
LEMMA LatePutIsSound ==
  ASSUME BundlesAreSound, LatePut PROVE BundlesAreSound'
<1>1. PICK put \in uploads : Put(put) /\ uploads' = uploads \ {put}
  BY DEF LatePut
<1>2. UNCHANGED <<backend, staging, reserved, attempts>>
  BY DEF LatePut
<1>3. /\ put.from \in Preparers /\ put.digest \in Contents
      /\ put = [from |-> put.from, digest |-> put.digest]
      /\ staging[put.from] = File(put.digest, TRUE)
  BY DEF BundlesAreSound, BundlesTyped, UploadsAreSound
<1>4. /\ bucket' \in [Contents -> Stored \cup {NoFile}]
      /\ \A key \in Contents : bucket[key] # NoFile => bucket'[key] = bucket[key]
      /\ ObjectsAreNamed'
  <2> DEFINE from == put.from
             digest == put.digest
  <2>1. from \in Preparers /\ digest \in Contents /\ staging[from] = File(digest, TRUE)
    BY <1>3
  <2>2. Put([from |-> from, digest |-> digest])
    BY <1>1, <1>3
  <2> HIDE DEF from, digest
  <2> QED BY <2>1, <2>2, PutIsSound
<1>5. BundlesTyped' /\ UploadsAreSound'
  BY <1>1, <1>2, <1>4 DEF BundlesAreSound, BundlesTyped, UploadsAreSound
<1>6. ASSUME NEW p \in Preparers PROVE AttemptIsSound(p)'
  BY <1>2, <1>4 DEF BundlesAreSound, AttemptIsSound
<1> QED BY <1>4, <1>5, <1>6 DEF BundlesAreSound

(* A published bundle is in the store, whole and with the content its      *)
(* digest names, for any number of attempts and contents, whichever of     *)
(* them race, die or leave an upload behind (input-storage.ts).            *)
THEOREM BundlesStayWhole == BundlesSpec => []BundlesAreWhole
<1>1. BundlesInit => BundlesAreSound
  <2> SUFFICES ASSUME BundlesInit PROVE BundlesAreSound
    OBVIOUS
  <2>1. PICK damaged \in SUBSET Contents :
          bucket = [key \in Contents |-> IF key \in damaged THEN Object(key, FALSE, key)
                                                            ELSE NoFile]
    BY DEF BundlesInit
  <2>2. bucket \in [Contents -> Stored \cup {NoFile}] /\ ObjectsAreNamed
    BY <2>1 DEF Object, Stored, ObjectsAreNamed
  <2>3. BundlesTyped
    BY <2>2 DEF BundlesInit, BundlesTyped, AttemptState
  <2>4. \A p \in Preparers : AttemptIsSound(p)
    BY DEF BundlesInit, AttemptIsSound
  <2>5. UploadsAreSound
    BY DEF BundlesInit, UploadsAreSound
  <2> QED BY <2>2, <2>3, <2>4, <2>5 DEF BundlesAreSound
<1>2. BundlesAreSound /\ [BundlesNext]_bundleVars => BundlesAreSound'
  <2> SUFFICES ASSUME BundlesAreSound, [BundlesNext]_bundleVars PROVE BundlesAreSound'
    OBVIOUS
  <2>1. ASSUME NEW p \in Preparers, AttemptDies(p) PROVE BundlesAreSound'
    BY <2>1, AttemptFails DEF AttemptDies
  <2>2. CASE UNCHANGED bundleVars
    BY <2>2 DEF bundleVars, BundlesAreSound, BundlesTyped, ObjectsAreNamed, AttemptIsSound,
                UploadsAreSound
  <2> QED BY <2>1, <2>2, ArchivingIsSound, RecoveryIsSound, PublishingIsSound, LatePutIsSound
          DEF BundlesNext
<1>3. BundlesAreSound => BundlesAreWhole
  BY DEF BundlesAreSound, BundlesAreWhole, ObjectsAreNamed, AttemptIsSound, inputObjectKey
<1> QED BY <1>1, <1>2, <1>3, PTL DEF BundlesSpec

-----------------------------------------------------------------------------
(***************************************************************************)
(* The requests between Review Runs and the execution gateway              *)
(***************************************************************************)
ExchangeFields == {"at", "op", "run", "submission", "asked", "tries", "reply", "todo", "seen", "missing"}

RowFields == {"status", "valid", "code", "submissions", "bundle"}

Reported == {"running", "succeeded", "failed"}

\* A submission, wherever it is, carries what was prepared.
CarriesThePrepared(s) ==
    /\ s.run \in RunIds /\ s.workflow = Prepared[s.run].workflow /\ s.valid = rows[s.run].valid
    /\ canonicalValue(s.input) = canonicalValue(Prepared[s.run].input)

\* An answer about a run says what its execution has come to.
OwnAnswer(run, body) ==
    /\ executions[run] # None /\ body.status \in Reported
    /\ body.status = "succeeded" => Succeeded(run) /\ body.storage.run = run

\* What may have been answered to the request under way.
SubmissionReply(x) ==
    \/ x.reply.text = "none" \/ x.reply.status \in {500, 503}
    \/ x.reply.status = 400 /\ ~x.submission.valid
    \/ x.reply.status = 202 /\ executions[x.run] # None

Faults == {NoReply, Unreachable, InternalFault}

StatusReply(x) ==
    \A run \in RunIds : x.run = run =>
        \/ x.reply \in Faults \cup {NotFound(run)}
        \/ /\ x.reply.status = 200 /\ x.reply.text \in {"json", "oversized"}
           /\ x.reply.body.run_id = run => OwnAnswer(run, x.reply.body)

StatusesReply(x) ==
    \/ x.reply \in Faults
    \/ \A run \in RunIds \cap DOMAIN x.reply.body.runs :
          executions[run] # None /\ x.reply.body.runs[run] \in Reported

ExecutionsTyped ==
    /\ executions \in [RunIds -> ExecutionTypes \cup {None}]
    /\ DOMAIN rows = RunIds
    /\ \A run \in RunIds : DOMAIN rows[run] = RowFields /\ rows[run].valid \in BOOLEAN
    /\ DOMAIN exchange = ExchangeFields

\* Nothing runs but what was prepared, and nothing of an invalid input.
StartedAsPrepared ==
    \A run \in RunIds :
        executions[run] # None =>
            /\ executions[run].memo.request_fingerprint = fingerprint(Prepared[run])
            /\ rows[run].valid

RowsAreTrue ==
    \A run \in RunIds :
        /\ rows[run].status = "refused" => ~rows[run].valid
        /\ rows[run].status \in {"queued", "running", "succeeded"} => executions[run] # None
        /\ rows[run].status = "succeeded" => Succeeded(run) /\ rows[run].bundle.run = run

ExchangeIsSound(x) ==
    /\ x.op = "submit" /\ x.at \in {"sending", "answered"} =>
          CarriesThePrepared(x.submission) /\ x.submission.run = x.run
    /\ x.at = "answered" =>
          /\ x.op = "submit" => SubmissionReply(x)
          /\ x.op = "status" => StatusReply(x)
          /\ x.op = "statuses" => StatusesReply(x)
    /\ \A run \in RunIds \cap DOMAIN x.seen : executions[run] # None /\ x.seen[run] \in Reported

ExecutionInv ==
    /\ ExecutionsTyped /\ StartedAsPrepared /\ RowsAreTrue /\ ExchangeIsSound(exchange)
    /\ \A s \in late : CarriesThePrepared(s)

\* What Temporal holds is never taken back, and an ended execution stays as
\* it is.
ExecutionsGoOn ==
    \A run \in RunIds : executions[run] # None =>
        /\ executions'[run] # None
        /\ executions[run].status # "RUNNING" => executions'[run] = executions[run]

\* Reversing the members of an input does not change what they are.
LEMMA OrderDoesNotMatter ==
  ASSUME NEW input, input \in Seq(canonicalValue(input))
  PROVE  canonicalValue([i \in DOMAIN input |-> input[Len(input) + 1 - i]]) = canonicalValue(input)
<1> DEFINE n == Len(input)
           stored == [i \in DOMAIN input |-> input[n + 1 - i]]
<1>1. n \in Nat /\ DOMAIN input = 1 .. n /\ DOMAIN stored = 1 .. n
  OBVIOUS
<1>2. \A i \in 1 .. n : n + 1 - i \in 1 .. n /\ n + 1 - (n + 1 - i) = i
  BY <1>1
<1>3. \A i \in 1 .. n : stored[i] = input[n + 1 - i]
  BY <1>1
<1> HIDE DEF stored, n
<1>4. \A i \in 1 .. n : stored[n + 1 - i] = input[i]
  BY <1>2, <1>3
<1>5. canonicalValue(stored) = canonicalValue(input)
  BY <1>1, <1>2, <1>3, <1>4 DEF canonicalValue
<1> QED
  BY <1>5 DEF stored, n

\* What the gateway reports of an execution it has.
LEMMA ReportsAreSound ==
  ASSUME ExecutionsTyped, NEW run \in RunIds, executions[run] # None
  PROVE  /\ get(run).run_id = run /\ get(run).status \in Reported
         /\ get(run).status = "succeeded" => Ended(run) /\ get(run).storage.run = run
<1> DEFINE w == executions[run].memo.workflow
           response == executions[run].response
<1>1. executions[run].status \in {"RUNNING", "COMPLETED", "TIMED_OUT"}
  BY DEF ExecutionsTyped, ExecutionTypes
<1>2. CASE executions[run].status = "RUNNING"
  <2>1. get(run) = ExecutionRecord(run, w, "running")
    BY <1>2 DEF get
  <2> QED BY <2>1 DEF ExecutionRecord, Reported
<1>3. CASE executions[run].status = "TIMED_OUT"
  <2>1. get(run) = FailedRecord(run, w, ErrorOf("EXECUTION_FAILED"), Storage("unavailable"))
    BY <1>3 DEF get
  <2>2. get(run).run_id = run /\ get(run).status = "failed"
    BY <2>1 DEF FailedRecord, ExecutionRecord
  <2> QED BY <2>2 DEF Reported
<1>4. CASE executions[run].status = "COMPLETED"
  <2> DEFINE unusable == FailedRecord(run, w, ErrorOf("EXECUTION_RESPONSE_INVALID"), Storage("unavailable"))
             done == [ExecutionRecord(run, w, "succeeded") EXCEPT !.result = TRUE, !.storage = response.storage]
  <2>1. get(run) = CompletedRecord(run, w, response)
    BY <1>4 DEF get
  <2>2. /\ unusable.run_id = run /\ unusable.status = "failed"
        /\ [unusable EXCEPT !.storage = Storage("failed")].run_id = run
        /\ [unusable EXCEPT !.storage = Storage("failed")].status = "failed"
        /\ [unusable EXCEPT !.error = response.error].run_id = run
        /\ [unusable EXCEPT !.error = response.error].status = "failed"
    BY DEF FailedRecord, ExecutionRecord
  <2>3. done.run_id = run /\ done.status = "succeeded" /\ done.storage = response.storage
    BY DEF ExecutionRecord
  <2>4. \/ get(run) \in {unusable, [unusable EXCEPT !.storage = Storage("failed")],
                         [unusable EXCEPT !.error = response.error]}
        \/ get(run) = done /\ response.storage.run = run
    BY <2>1 DEF CompletedRecord, parseRunDiagnosticArtifact, parseDiagnosticArtifactUri
  <2>5. Ended(run)
    BY <1>4 DEF Ended
  <2> HIDE DEF unusable, done
  <2> QED BY <2>2, <2>3, <2>4, <2>5 DEF Reported
<1> QED
  BY <1>1, <1>2, <1>3, <1>4

\* What an execution came to depends on nothing but itself.
LEMMA SuccessStays ==
  ASSUME NEW run, executions'[run] = executions[run], Succeeded(run)
  PROVE  Succeeded(run)'
<1>1. get(run)' = get(run)
  BY DEF get
<1> QED
  BY <1>1 DEF Succeeded, Ended

\* Starting a prepared submission starts what was prepared, and only if
\* nothing is there yet.
LEMMA HandlingGoesOn ==
  ASSUME ExecutionInv, NEW s, CarriesThePrepared(s), Handle(s)
  PROVE  /\ ExecutionsGoOn /\ executions' \in [RunIds -> ExecutionTypes \cup {None}]
         /\ s.valid => executions'[s.run] # None
         /\ \A run \in RunIds : executions'[run] # None =>
               /\ executions'[run].memo.request_fingerprint = fingerprint(Prepared[run])
               /\ rows[run].valid
<1>1. /\ executions \in [RunIds -> ExecutionTypes \cup {None}] /\ StartedAsPrepared
      /\ s.run \in RunIds /\ s.workflow = Prepared[s.run].workflow /\ s.valid = rows[s.run].valid
  BY DEF ExecutionInv, ExecutionsTyped, CarriesThePrepared
<1>2. fingerprint(s) = fingerprint(Prepared[s.run])
  BY DEF CarriesThePrepared, fingerprint
<1>3. /\ Started(s) \in ExecutionTypes /\ Started(s) # None
      /\ Started(s).memo.request_fingerprint = fingerprint(Prepared[s.run])
  <2>1. Started(s) \in ExecutionTypes
    BY <1>1, <1>2 DEF Started, ExecutionTypes
  <2>2. Started(s).memo.request_fingerprint = fingerprint(Prepared[s.run])
    BY <1>2 DEF Started
  <2> QED BY <2>1, <2>2, NoneIsNothing
<1>4. CASE executions' = executions
  <2>1. s.valid => executions[s.run] # None
    BY <1>1, <1>3, <1>4 DEF Handle, start
  <2> QED BY <1>1, <1>4, <2>1 DEF StartedAsPrepared, ExecutionsGoOn
<1>5. CASE s.valid /\ executions[s.run] = None /\ executions' = [executions EXCEPT ![s.run] = Started(s)]
  <2>1. executions' \in [RunIds -> ExecutionTypes \cup {None}] /\ executions'[s.run] = Started(s)
    BY <1>1, <1>3, <1>5
  <2>2. \A run \in RunIds \ {s.run} : executions'[run] = executions[run]
    BY <1>1, <1>5
  <2> QED BY <1>1, <1>3, <1>5, <2>1, <2>2 DEF StartedAsPrepared, ExecutionsGoOn
<1> QED
  BY <1>4, <1>5 DEF Handle, start

\* What is known of an execution stays known.
LEMMA KnowledgeStays ==
  ASSUME ExecutionsGoOn, \A run \in RunIds : rows'[run].valid = rows[run].valid, NEW x, ExchangeIsSound(x)
  PROVE  ExchangeIsSound(x)'
<1>1. ASSUME NEW run \in RunIds, NEW body, OwnAnswer(run, body)
      PROVE  OwnAnswer(run, body)'
  <2>1. executions[run] # None /\ executions'[run] # None
    BY <1>1 DEF OwnAnswer, ExecutionsGoOn
  <2>2. body.status = "succeeded" => Succeeded(run)'
    <3> SUFFICES ASSUME body.status = "succeeded" PROVE Succeeded(run)'
      OBVIOUS
    <3>1. Succeeded(run) /\ executions[run].status # "RUNNING"
      BY <1>1 DEF OwnAnswer, Succeeded, Ended
    <3>2. executions'[run] = executions[run]
      BY <2>1, <3>1 DEF ExecutionsGoOn
    <3> QED BY <3>1, <3>2, SuccessStays
  <2> QED BY <1>1, <2>1, <2>2 DEF OwnAnswer
<1>2. \A run \in RunIds : executions[run] # None => executions'[run] # None
  BY DEF ExecutionsGoOn
<1>3. CarriesThePrepared(x.submission) => CarriesThePrepared(x.submission)'
  BY DEF CarriesThePrepared
<1>4. CarriesThePrepared(x.submission) /\ x.submission.run = x.run /\ SubmissionReply(x) => SubmissionReply(x)'
  BY <1>2 DEF CarriesThePrepared, SubmissionReply
<1>5. StatusReply(x) => StatusReply(x)'
  BY <1>1 DEF StatusReply
<1>6. StatusesReply(x) => StatusesReply(x)'
  BY <1>2 DEF StatusesReply
<1> QED
  BY <1>2, <1>3, <1>4, <1>5, <1>6 DEF ExchangeIsSound

\* The rows stay true while executions go on.
LEMMA RowsStayTrue ==
  ASSUME ExecutionsGoOn, rows' = rows, RowsAreTrue
  PROVE  RowsAreTrue'
<1> SUFFICES ASSUME NEW run \in RunIds
             PROVE  /\ rows'[run].status = "refused" => ~rows'[run].valid
                    /\ rows'[run].status \in {"queued", "running", "succeeded"} => executions'[run] # None
                    /\ rows'[run].status = "succeeded" => Succeeded(run)' /\ rows'[run].bundle.run = run
  BY DEF RowsAreTrue
<1>1. rows[run].status = "succeeded" => Succeeded(run)'
  <2> SUFFICES ASSUME rows[run].status = "succeeded" PROVE Succeeded(run)'
    OBVIOUS
  <2>1. Succeeded(run) /\ executions[run] # None /\ executions[run].status # "RUNNING"
    BY DEF RowsAreTrue, Succeeded, Ended
  <2>2. executions'[run] = executions[run]
    BY <2>1 DEF ExecutionsGoOn
  <2> QED BY <2>1, <2>2, SuccessStays
<1> QED
  BY <1>1 DEF RowsAreTrue, ExecutionsGoOn

\* What a step has to keep.
LEMMA ExecutionStep ==
  ASSUME ExecutionInv, ExecutionsGoOn, ExecutionsTyped', StartedAsPrepared', RowsAreTrue',
         \A run \in RunIds : rows'[run].valid = rows[run].valid,
         NEW x, exchange' = x, ExchangeIsSound(x), \A s \in late' : CarriesThePrepared(s)
  PROVE  ExecutionInv'
<1>1. ExchangeIsSound(x)'
  BY KnowledgeStays
<1>2. ExchangeIsSound(exchange)'
  BY <1>1 DEF ExchangeIsSound, CarriesThePrepared, SubmissionReply, StatusReply, StatusesReply, OwnAnswer
<1>3. \A s \in late' : CarriesThePrepared(s)'
  BY DEF CarriesThePrepared
<1> QED
  BY <1>2, <1>3 DEF ExecutionInv

\* A step that only moves the exchange, or what is on its way.
LEMMA ExchangeMoves ==
  ASSUME ExecutionInv, executions' = executions, rows' = rows,
         NEW x, exchange' = x, DOMAIN x = ExchangeFields, ExchangeIsSound(x),
         \A s \in late' : CarriesThePrepared(s)
  PROVE  ExecutionInv'
<1>1. ExecutionsGoOn
  BY DEF ExecutionsGoOn
<1>2. RowsAreTrue'
  BY <1>1, RowsStayTrue DEF ExecutionInv
<1>3. ExecutionsTyped' /\ StartedAsPrepared'
  BY DEF ExecutionInv, ExecutionsTyped, StartedAsPrepared
<1> QED
  BY <1>1, <1>2, <1>3, ExecutionStep

\* An answer reaches the exchange that asked.
LEMMA AnswerReaches ==
  ASSUME ExecutionsTyped, NEW reply, Answered(reply)
  PROVE  \E x : /\ exchange' = x /\ DOMAIN x = ExchangeFields /\ x.at = "answered" /\ x.reply = reply
                /\ x.op = exchange.op /\ x.run = exchange.run /\ x.submission = exchange.submission
                /\ x.seen = exchange.seen
<1>1. PICK x : x = exchange'
  OBVIOUS
<1>2. DOMAIN exchange = ExchangeFields
  BY DEF ExecutionsTyped
<1>3. /\ DOMAIN x = ExchangeFields /\ x.at = "answered" /\ x.reply = reply
      /\ x.op = exchange.op /\ x.run = exchange.run /\ x.submission = exchange.submission
      /\ x.seen = exchange.seen
  BY <1>1, <1>2 DEF Answered, ExchangeFields
<1> QED
  BY <1>1, <1>3

\* What the answers look like that are not about an execution.
LEMMA FaultsHaveFields ==
  /\ NoReply.text = "none" /\ NoReply.status = 0
  /\ Unreachable.text = "empty" /\ Unreachable.status = 503
  /\ InternalFault.text = "json" /\ InternalFault.status = 500
  /\ InternalFault.body.error = ErrorOf("EXECUTION_FAILED")
  /\ \A run : /\ NotFound(run).text = "json" /\ NotFound(run).status = 404
              /\ NotFound(run).body.error = ErrorOf("EXECUTION_RUN_NOT_FOUND")
<1>1. NoReply.text = "none" /\ NoReply.status = 0
  BY DEF NoReply, Reply
<1>2. Unreachable.text = "empty" /\ Unreachable.status = 503
  BY DEF Unreachable, Reply
<1>3. /\ InternalFault.text = "json" /\ InternalFault.status = 500
      /\ InternalFault.body.error = ErrorOf("EXECUTION_FAILED")
  BY DEF InternalFault, Refusal, Reply, ExecutionRecord
<1>4. ASSUME NEW run
      PROVE  /\ NotFound(run).text = "json" /\ NotFound(run).status = 404
             /\ NotFound(run).body.error = ErrorOf("EXECUTION_RUN_NOT_FOUND")
  BY DEF NotFound, Refusal, Reply, ExecutionRecord
<1> QED
  BY <1>1, <1>2, <1>3, <1>4

\* A submission without an answer leaves everything open.
LEMMA FaultySubmissionIsSound ==
  ASSUME ExecutionInv, SubmissionFaulty
  PROVE  ExecutionInv'
<1>1. /\ exchange.at = "sending" /\ exchange.op = "submit" /\ executions' = executions /\ rows' = rows
      /\ ExecutionsTyped /\ ExchangeIsSound(exchange)
  BY DEF SubmissionFaulty, Sending, ExecutionInv
<1>2. PICK reply \in Faults : Answered(reply)
  BY DEF SubmissionFaulty, Faults
<1>3. PICK x : /\ exchange' = x /\ DOMAIN x = ExchangeFields /\ x.at = "answered" /\ x.reply = reply
               /\ x.op = exchange.op /\ x.run = exchange.run /\ x.submission = exchange.submission
               /\ x.seen = exchange.seen
  BY <1>1, <1>2, AnswerReaches
<1>4. reply.text = "none" \/ reply.status \in {500, 503}
  BY FaultsHaveFields DEF Faults
<1>5. ExchangeIsSound(x)
  BY <1>1, <1>3, <1>4 DEF ExchangeIsSound, SubmissionReply
<1>6. CarriesThePrepared(exchange.submission)
  BY <1>1 DEF ExchangeIsSound
<1>7. \A s \in late' : CarriesThePrepared(s)
  BY <1>6 DEF SubmissionFaulty, ExecutionInv
<1> QED
  BY <1>1, <1>3, <1>5, <1>7, ExchangeMoves

\* A poll without an answer says nothing.
LEMMA FaultyPollIsSound ==
  ASSUME ExecutionInv, PollFaulty
  PROVE  ExecutionInv'
<1>1. /\ exchange.at = "sending" /\ exchange.op \in {"status", "statuses"} /\ executions' = executions
      /\ rows' = rows /\ late' = late /\ ExecutionsTyped /\ ExchangeIsSound(exchange)
  BY DEF PollFaulty, ExecutionInv
<1>2. PICK reply \in Faults : Answered(reply)
  BY DEF PollFaulty, Faults
<1>3. PICK x : /\ exchange' = x /\ DOMAIN x = ExchangeFields /\ x.at = "answered" /\ x.reply = reply
               /\ x.op = exchange.op /\ x.run = exchange.run /\ x.submission = exchange.submission
               /\ x.seen = exchange.seen
  BY <1>1, <1>2, AnswerReaches
<1>4. ExchangeIsSound(x)
  BY <1>1, <1>2, <1>3 DEF ExchangeIsSound, StatusReply, StatusesReply
<1> QED
  BY <1>1, <1>3, <1>4, ExchangeMoves DEF ExecutionInv

\* The gateway's answer about a run is about its execution.
LEMMA AnswersAreOwn ==
  ASSUME ExecutionsTyped, NEW run \in RunIds, executions[run] # None
  PROVE  /\ Answering(run).status = 200 /\ Answering(run).text \in {"json", "oversized"}
         /\ Answering(run).body.run_id = run /\ OwnAnswer(run, Answering(run).body)
<1>1. Answering(run).status = 200 /\ Answering(run).text \in {"json", "oversized"} /\ Answering(run).body = get(run)
  BY DEF Answering, Json200, Reply
<1>2. OwnAnswer(run, get(run))
  BY ReportsAreSound DEF OwnAnswer, Succeeded
<1> QED
  BY <1>1, <1>2, ReportsAreSound

\* Answers to polls, the gateway's own and one that was kept for another run.
LEMMA ReportingIsSound ==
  ASSUME ExecutionInv, GatewayReports \/ AnswerMisdelivered
  PROVE  ExecutionInv'
<1>1. /\ exchange.at = "sending" /\ exchange.op \in {"status", "statuses"} /\ executions' = executions
      /\ rows' = rows /\ late' = late /\ ExecutionsTyped /\ ExchangeIsSound(exchange)
  BY DEF GatewayReports, AnswerMisdelivered, Sending, ExecutionInv
<1>2. CASE exchange.op = "status"
  <2>1. PICK reply :
          /\ Answered(reply)
          /\ \/ reply = getRun(exchange.run)
             \/ \E run \in RunIds \ {exchange.run} : executions[run] # None /\ reply = Answering(run)
    BY <1>2 DEF GatewayReports, AnswerMisdelivered
  <2>2. PICK x : /\ exchange' = x /\ DOMAIN x = ExchangeFields /\ x.at = "answered" /\ x.reply = reply
                 /\ x.op = exchange.op /\ x.run = exchange.run /\ x.submission = exchange.submission
                 /\ x.seen = exchange.seen
    BY <1>1, <2>1, AnswerReaches
  <2>3. StatusReply(x)
    <3> SUFFICES ASSUME NEW run \in RunIds, x.run = run
                 PROVE  \/ reply \in Faults \cup {NotFound(run)}
                        \/ /\ reply.status = 200 /\ reply.text \in {"json", "oversized"}
                           /\ reply.body.run_id = run => OwnAnswer(run, reply.body)
      BY <2>2 DEF StatusReply
    <3>1. CASE reply = getRun(run)
      BY <1>1, <3>1, AnswersAreOwn DEF getRun
    <3>2. CASE \E q \in RunIds \ {run} : executions[q] # None /\ reply = Answering(q)
      BY <1>1, <3>2, AnswersAreOwn
    <3> QED BY <2>1, <2>2, <3>1, <3>2
  <2>4. ExchangeIsSound(x)
    BY <1>1, <1>2, <2>2, <2>3 DEF ExchangeIsSound
  <2> QED BY <1>1, <2>2, <2>4, ExchangeMoves DEF ExecutionInv
<1>3. CASE exchange.op = "statuses"
  <2>1. PICK reply : Answered(reply) /\ reply = getRunStatuses(exchange.asked)
    BY <1>3 DEF GatewayReports, AnswerMisdelivered, Sending
  <2>2. PICK x : /\ exchange' = x /\ DOMAIN x = ExchangeFields /\ x.at = "answered" /\ x.reply = reply
                 /\ x.op = exchange.op /\ x.run = exchange.run /\ x.submission = exchange.submission
                 /\ x.seen = exchange.seen
    BY <1>1, <2>1, AnswerReaches
  <2>3. StatusesReply(x)
    <3> DEFINE known == {run \in exchange.asked : executions[run] # None}
               runs == [run \in known |-> get(run).status]
    <3>1. reply.body.runs = runs
      BY <2>1 DEF getRunStatuses, Reply
    <3>2. \A run \in RunIds \cap known : executions[run] # None /\ get(run).status \in Reported
      BY <1>1, ReportsAreSound
    <3>3. DOMAIN runs = known /\ \A run \in known : runs[run] = get(run).status
      OBVIOUS
    <3> HIDE DEF known, runs
    <3> QED BY <2>2, <3>1, <3>2, <3>3 DEF StatusesReply
  <2>4. ExchangeIsSound(x)
    BY <1>1, <1>3, <2>2, <2>3 DEF ExchangeIsSound
  <2> QED BY <1>1, <2>2, <2>4, ExchangeMoves DEF ExecutionInv
<1> QED
  BY <1>1, <1>2, <1>3

\* A request is sent again as it was.
LEMMA RetryingIsSound ==
  ASSUME ExecutionInv, Retry
  PROVE  ExecutionInv'
<1>1. /\ exchange.at = "answered" /\ executions' = executions /\ rows' = rows /\ late' = late
      /\ exchange' = [exchange EXCEPT !.at = "sending", !.tries = exchange.tries + 1]
      /\ DOMAIN exchange = ExchangeFields /\ ExchangeIsSound(exchange)
  BY DEF Retry, ExecutionInv, ExecutionsTyped
<1>2. PICK x : x = exchange'
  OBVIOUS
<1>3. /\ DOMAIN x = ExchangeFields /\ x.at = "sending" /\ x.op = exchange.op /\ x.run = exchange.run
      /\ x.submission = exchange.submission /\ x.seen = exchange.seen
  BY <1>1, <1>2 DEF ExchangeFields
<1>4. ExchangeIsSound(x)
  BY <1>1, <1>3 DEF ExchangeIsSound
<1> QED
  BY <1>1, <1>2, <1>3, <1>4, ExchangeMoves DEF ExecutionInv

\* Nothing is known while nothing is asked.
LEMMA RestingIsSound ==
  DOMAIN Resting = ExchangeFields /\ ExchangeIsSound(Resting) /\ Resting.at = "idle" /\ DOMAIN Resting.seen = {}
<1>1. DOMAIN Resting = ExchangeFields /\ Resting.at = "idle" /\ Resting.seen = << >>
  BY DEF Resting, ExchangeFields
<1> QED
  BY <1>1 DEF ExchangeIsSound

\* The next request of a pass keeps what the pass has seen.
LEMMA BatchesKeepWhatIsSeen ==
  ASSUME NEW pass, DOMAIN pass = ExchangeFields
  PROVE  /\ DOMAIN NextBatch(pass) = ExchangeFields /\ NextBatch(pass).seen = pass.seen
         /\ \/ NextBatch(pass).at = "observing"
            \/ NextBatch(pass).at = "sending" /\ NextBatch(pass).op = "statuses"
<1>1. CASE pass.todo = << >>
  <2>1. NextBatch(pass) = [pass EXCEPT !.at = "observing", !.todo = ActiveRuns]
    BY <1>1 DEF NextBatch
  <2> QED BY <2>1 DEF ExchangeFields
<1>2. CASE pass.todo # << >>
  <2>1. PICK asked, todo :
          NextBatch(pass) = [pass EXCEPT !.at = "sending", !.op = "statuses", !.tries = 0, !.reply = NoReply,
                                         !.asked = asked, !.todo = todo]
    BY <1>2 DEF NextBatch
  <2> QED BY <2>1 DEF ExchangeFields
<1> QED
  BY <1>1, <1>2

\* A pass begins.
LEMMA StartingAPassIsSound ==
  ASSUME ExecutionInv, StartPass
  PROVE  ExecutionInv'
<1> DEFINE pass == [Resting EXCEPT !.todo = ActiveRuns]
<1>1. executions' = executions /\ rows' = rows /\ late' = late /\ exchange' = NextBatch(pass)
  BY DEF StartPass
<1>2. DOMAIN pass = ExchangeFields /\ DOMAIN pass.seen = {}
  BY RestingIsSound DEF ExchangeFields
<1> HIDE DEF pass
<1>3. PICK x : x = exchange'
  OBVIOUS
<1>4. /\ DOMAIN x = ExchangeFields /\ x.seen = pass.seen
      /\ x.at = "observing" \/ (x.at = "sending" /\ x.op = "statuses")
  BY <1>1, <1>2, <1>3, BatchesKeepWhatIsSeen
<1>5. ExchangeIsSound(x)
  BY <1>2, <1>4 DEF ExchangeIsSound
<1> QED
  BY <1>1, <1>3, <1>4, <1>5, ExchangeMoves DEF ExecutionInv

\* A batch of statuses is kept, or the pass ends with nothing concluded.
LEMMA ConcludingStatusesIsSound ==
  ASSUME ExecutionInv, ConcludeStatuses
  PROVE  ExecutionInv'
<1>1. /\ exchange.at = "answered" /\ exchange.op = "statuses" /\ executions' = executions /\ rows' = rows
      /\ late' = late /\ DOMAIN exchange = ExchangeFields /\ ExchangeIsSound(exchange)
  BY DEF ConcludeStatuses, Concludes, ExecutionInv, ExecutionsTyped
<1> DEFINE runs == exchange.reply.body.runs
           seen == [run \in DOMAIN exchange.seen \cup DOMAIN runs |->
                       IF run \in DOMAIN runs THEN runs[run] ELSE exchange.seen[run]]
           missing == exchange.missing \cup exchange.reply.body.missing
           pass == [exchange EXCEPT !.seen = seen, !.missing = missing]
<1>2. CASE exchange' = Resting
  <2>1. PICK x : x = exchange' /\ x = Resting
    BY <1>2
  <2> QED BY <1>1, <2>1, RestingIsSound, ExchangeMoves DEF ExecutionInv
<1>3. CASE exchange.reply.text = "json" /\ ~(exchange.reply.status >= 400) /\ exchange' = NextBatch(pass)
  <2>1. exchange.reply \notin Faults
    BY <1>3, FaultsHaveFields DEF Faults
  <2>2. \A run \in RunIds \cap DOMAIN runs : executions[run] # None /\ runs[run] \in Reported
    BY <1>1, <2>1 DEF ExchangeIsSound, StatusesReply
  <2>3. \A run \in RunIds \cap DOMAIN exchange.seen : executions[run] # None /\ exchange.seen[run] \in Reported
    BY <1>1 DEF ExchangeIsSound
  <2>4. \A run \in RunIds \cap DOMAIN seen : executions[run] # None /\ seen[run] \in Reported
    BY <2>2, <2>3
  <2> HIDE DEF seen, missing
  <2>5. DOMAIN pass = ExchangeFields /\ pass.seen = seen
    BY <1>1 DEF ExchangeFields
  <2> HIDE DEF pass
  <2>6. PICK x : x = exchange'
    OBVIOUS
  <2>7. /\ DOMAIN x = ExchangeFields /\ x.seen = seen
        /\ x.at = "observing" \/ (x.at = "sending" /\ x.op = "statuses")
    BY <1>3, <2>5, <2>6, BatchesKeepWhatIsSeen
  <2>8. ExchangeIsSound(x)
    BY <2>4, <2>7 DEF ExchangeIsSound
  <2> QED BY <1>1, <2>6, <2>7, <2>8, ExchangeMoves DEF ExecutionInv
<1> QED
  BY <1>2, <1>3 DEF ConcludeStatuses

\* A run is asked for on its own.
LEMMA ReadingARecordIsSound ==
  ASSUME ExecutionInv, ReadRunRecord
  PROVE  ExecutionInv'
<1>1. /\ executions' = executions /\ rows' = rows /\ late' = late
      /\ exchange' = [exchange EXCEPT !.at = "sending", !.op = "status", !.run = Observed, !.tries = 0]
      /\ DOMAIN exchange = ExchangeFields /\ ExchangeIsSound(exchange)
  BY DEF ReadRunRecord, ExecutionInv, ExecutionsTyped
<1>2. PICK x : x = exchange'
  OBVIOUS
<1>3. DOMAIN x = ExchangeFields /\ x.at = "sending" /\ x.op = "status" /\ x.seen = exchange.seen
  BY <1>1, <1>2 DEF ExchangeFields
<1>4. ExchangeIsSound(x)
  BY <1>1, <1>3 DEF ExchangeIsSound
<1> QED
  BY <1>1, <1>2, <1>3, <1>4, ExchangeMoves DEF ExecutionInv

\* A submission starts out with what was prepared, in either order.
LEMMA SubmittingCarriesThePrepared ==
  ASSUME ExecutionInv, NEW run \in RunIds, Submit(run)
  PROVE  ExecutionInv'
<1> DEFINE prepared == Prepared[run]
           replayed == [i \in DOMAIN prepared.input |-> prepared.input[Len(prepared.input) + 1 - i]]
           submission == [run |-> run, workflow |-> prepared.workflow, valid |-> rows[run].valid,
                          input |-> IF rows[run].status = "preparing" THEN prepared.input ELSE replayed]
<1>1. /\ executions' = executions /\ late' = late /\ rows' = [rows EXCEPT ![run].submissions = @ + 1]
      /\ exchange' = [Resting EXCEPT !.at = "sending", !.op = "submit", !.run = run, !.submission = submission]
      /\ ExecutionsTyped /\ StartedAsPrepared /\ RowsAreTrue
  BY DEF Submit, ExecutionInv
<1>2. CarriesThePrepared(submission)
  <2>1. canonicalValue(replayed) = canonicalValue(prepared.input)
    BY OrderDoesNotMatter, InputsAreLists DEF canonicalValue
  <2> HIDE DEF replayed
  <2> QED BY <2>1 DEF CarriesThePrepared
<1> HIDE DEF submission
<1>3. submission.run = run
  BY DEF submission
<1>4. PICK x : x = exchange'
  OBVIOUS
<1>5. /\ DOMAIN x = ExchangeFields /\ x.at = "sending" /\ x.op = "submit" /\ x.run = run
      /\ x.submission = submission /\ DOMAIN x.seen = {}
  BY <1>1, <1>4, RestingIsSound DEF ExchangeFields
<1>6. ExchangeIsSound(x)
  BY <1>2, <1>3, <1>5 DEF ExchangeIsSound
<1>7. /\ DOMAIN rows' = RunIds
      /\ \A r \in RunIds : /\ DOMAIN rows'[r] = RowFields /\ rows'[r].valid = rows[r].valid
                           /\ rows'[r].status = rows[r].status /\ rows'[r].bundle = rows[r].bundle
  BY <1>1 DEF ExecutionsTyped, RowFields
<1>8. ExecutionsTyped' /\ StartedAsPrepared' /\ ExecutionsGoOn
  BY <1>1, <1>4, <1>5, <1>7 DEF ExecutionsTyped, StartedAsPrepared, ExecutionsGoOn
<1>9. RowsAreTrue'
  <2>1. \A r \in RunIds : Succeeded(r) => Succeeded(r)'
    BY <1>1, SuccessStays
  <2> QED BY <1>1, <1>7, <2>1 DEF RowsAreTrue
<1>10. \A s \in late' : CarriesThePrepared(s)
  BY <1>1 DEF ExecutionInv
<1> QED
  BY <1>4, <1>6, <1>7, <1>8, <1>9, <1>10, ExecutionStep

\* What the gateway answers to a submission of what was prepared: it never
\* meets a conflict.
LEMMA CreatingIsAnswered ==
  ASSUME ExecutionInv, NEW s, CarriesThePrepared(s)
  PROVE  \/ createRunReply(s).status = 400 /\ ~s.valid
         \/ createRunReply(s).status = 202 /\ s.valid
<1>1. /\ s.run \in RunIds /\ s.valid \in BOOLEAN /\ ExecutionsTyped /\ StartedAsPrepared
  BY DEF ExecutionInv, CarriesThePrepared, ExecutionsTyped
<1>2. fingerprint(s) = fingerprint(Prepared[s.run])
  BY DEF CarriesThePrepared, fingerprint
<1>3. ~Conflicts(s)
  BY <1>1, <1>2 DEF Conflicts, StartedAsPrepared
<1>4. CASE ~s.valid
  <2>1. createRunReply(s) = Refusal(400, s.run, ErrorOf("EXECUTION_REQUEST_INVALID"))
    BY <1>4 DEF createRunReply
  <2>2. \A run, error : Refusal(400, run, error).status = 400
    <3> SUFFICES ASSUME NEW run, NEW error PROVE Refusal(400, run, error).status = 400
      OBVIOUS
    <3>1. PICK body : Refusal(400, run, error) = Reply(400, "json", body)
      BY Zenon DEF Refusal
    <3> QED BY <3>1 DEF Reply
  <2>3. createRunReply(s).status = 400
    BY <2>1, <2>2
  <2> QED BY <1>4, <2>3
<1>5. CASE s.valid /\ executions[s.run] = None
  <2>1. createRunReply(s) = Reply(202, "json", ExecutionRecord(s.run, s.workflow, "running"))
    BY <1>3, <1>5 DEF createRunReply
  <2> QED BY <1>5, <2>1 DEF Reply
<1>6. CASE s.valid /\ executions[s.run] # None
  <2>1. createRunReply(s) = [Answering(s.run) EXCEPT !.status = 202]
    BY <1>3, <1>6 DEF createRunReply
  <2>2. DOMAIN Answering(s.run) = {"status", "text", "body"}
    BY DEF Answering, Json200, Reply
  <2> QED BY <1>6, <2>1, <2>2
<1> QED
  BY <1>1, <1>4, <1>5, <1>6

\* The gateway starts a submission, and its answer may get lost.
LEMMA CreatingIsSound ==
  ASSUME ExecutionInv, GatewayCreates
  PROVE  ExecutionInv'
<1>1. /\ exchange.at = "sending" /\ exchange.op = "submit" /\ rows' = rows /\ late' = late
      /\ Handle(exchange.submission) /\ ExecutionsTyped /\ ExchangeIsSound(exchange)
  BY DEF GatewayCreates, Sending, ExecutionInv
<1>2. PICK s : s = exchange.submission
  OBVIOUS
<1>3. CarriesThePrepared(s) /\ Handle(s) /\ s.run = exchange.run
  BY <1>1, <1>2 DEF ExchangeIsSound
<1>4. /\ ExecutionsGoOn /\ executions' \in [RunIds -> ExecutionTypes \cup {None}]
      /\ s.valid => executions'[s.run] # None
      /\ \A run \in RunIds : executions'[run] # None =>
            /\ executions'[run].memo.request_fingerprint = fingerprint(Prepared[run])
            /\ rows[run].valid
  BY <1>3, HandlingGoesOn
<1>5. PICK reply : Answered(reply) /\ reply \in {createRunReply(s), InternalFault, NoReply}
  BY <1>2 DEF GatewayCreates
<1>6. PICK x : /\ exchange' = x /\ DOMAIN x = ExchangeFields /\ x.at = "answered" /\ x.reply = reply
               /\ x.op = exchange.op /\ x.run = exchange.run /\ x.submission = exchange.submission
               /\ x.seen = exchange.seen
  BY <1>1, <1>5, AnswerReaches
<1>7. \/ reply.text = "none" \/ reply.status = 500
      \/ reply.status = 400 /\ ~s.valid
      \/ reply.status = 202 /\ s.valid
  BY <1>3, <1>5, FaultsHaveFields, CreatingIsAnswered
<1>8. ExchangeIsSound(x)'
  <2>1. CarriesThePrepared(x.submission)'
    <3>1. CarriesThePrepared(x.submission)
      BY <1>2, <1>3, <1>6
    <3> QED BY <1>1, <3>1 DEF CarriesThePrepared
  <2>2. SubmissionReply(x)'
    <3>1. x.reply.status = 202 /\ s.valid => executions'[x.run] # None
      BY <1>3, <1>4, <1>6
    <3> QED BY <1>2, <1>6, <1>7, <3>1 DEF SubmissionReply
  <2>3. \A run \in RunIds \cap DOMAIN x.seen : executions'[run] # None /\ x.seen[run] \in Reported
    BY <1>1, <1>4, <1>6 DEF ExchangeIsSound, ExecutionsGoOn
  <2> QED BY <1>1, <1>2, <1>3, <1>6, <2>1, <2>2, <2>3 DEF ExchangeIsSound
<1>9. ExchangeIsSound(exchange)'
  BY <1>6, <1>8 DEF ExchangeIsSound, CarriesThePrepared, SubmissionReply, StatusReply, StatusesReply, OwnAnswer
<1>10. RowsAreTrue'
  BY <1>1, <1>4, RowsStayTrue DEF ExecutionInv
<1>11. ExecutionsTyped' /\ StartedAsPrepared'
  BY <1>1, <1>4, <1>6 DEF ExecutionsTyped, StartedAsPrepared
<1>12. \A t \in late' : CarriesThePrepared(t)'
  BY <1>1 DEF ExecutionInv, CarriesThePrepared
<1> QED
  BY <1>9, <1>10, <1>11, <1>12 DEF ExecutionInv

\* A submission whose sender gave up is handled all the same.
LEMMA LateHandlingIsSound ==
  ASSUME ExecutionInv, LateSubmission
  PROVE  ExecutionInv'
<1>1. PICK s \in late : Handle(s) /\ late' = late \ {s}
  BY DEF LateSubmission
<1>2. CarriesThePrepared(s) /\ rows' = rows /\ exchange' = exchange /\ ExecutionsTyped /\ ExchangeIsSound(exchange)
  BY DEF LateSubmission, ExecutionInv
<1>3. /\ ExecutionsGoOn /\ executions' \in [RunIds -> ExecutionTypes \cup {None}]
      /\ \A run \in RunIds : executions'[run] # None =>
            /\ executions'[run].memo.request_fingerprint = fingerprint(Prepared[run])
            /\ rows[run].valid
  BY <1>1, <1>2, HandlingGoesOn
<1>4. RowsAreTrue'
  BY <1>2, <1>3, RowsStayTrue DEF ExecutionInv
<1>5. ExecutionsTyped' /\ StartedAsPrepared'
  BY <1>2, <1>3 DEF ExecutionsTyped, StartedAsPrepared
<1>6. PICK x : x = exchange' /\ x = exchange
  BY <1>2
<1>7. ExchangeIsSound(x) /\ \A t \in late' : CarriesThePrepared(t)
  BY <1>1, <1>2, <1>6 DEF ExecutionInv
<1> QED
  BY <1>2, <1>3, <1>4, <1>5, <1>6, <1>7, ExecutionStep

\* An execution ends once.
LEMMA EndingIsSound ==
  ASSUME ExecutionInv, NEW run \in RunIds, ExecutionEnds(run)
  PROVE  ExecutionInv'
<1>1. /\ executions[run] # None /\ executions[run].status = "RUNNING" /\ late' = late /\ rows' = rows
      /\ exchange' = exchange /\ ExecutionsTyped /\ StartedAsPrepared /\ ExchangeIsSound(exchange)
  BY DEF ExecutionEnds, ExecutionInv
<1>2. PICK e \in ExecutionTypes : /\ executions' = [executions EXCEPT ![run] = e]
                                  /\ e.memo = executions[run].memo
  <2>1. executions \in [RunIds -> ExecutionTypes \cup {None}] /\ executions[run] \in ExecutionTypes
    BY <1>1 DEF ExecutionsTyped
  <2>2. CASE executions' = [executions EXCEPT ![run].status = "TIMED_OUT"]
    <3> DEFINE e == [executions[run] EXCEPT !.status = "TIMED_OUT"]
    <3>1. e \in ExecutionTypes /\ e.memo = executions[run].memo
      BY <2>1 DEF ExecutionTypes
    <3>2. executions' = [executions EXCEPT ![run] = e]
      BY <2>1, <2>2
    <3> QED BY <3>1, <3>2
  <2>3. CASE \E response \in Responses : executions' = [executions EXCEPT ![run].status = "COMPLETED",
                                                                         ![run].response = response]
    <3>1. PICK response \in Responses : executions' = [executions EXCEPT ![run].status = "COMPLETED",
                                                                        ![run].response = response]
      BY <2>3
    <3> DEFINE d == [executions[run] EXCEPT !.status = "COMPLETED"]
               e == [d EXCEPT !.response = response]
    <3>2. d \in ExecutionTypes /\ d.memo = executions[run].memo
      BY <2>1 DEF ExecutionTypes
    <3>3. e \in ExecutionTypes /\ e.memo = d.memo
      <4> HIDE DEF d
      <4> QED BY <3>2 DEF ExecutionTypes
    <3>4. executions' = [executions EXCEPT ![run] = e]
      BY <2>1, <3>1
    <3> QED BY <3>2, <3>3, <3>4
  <2> QED BY <2>2, <2>3 DEF ExecutionEnds
<1>3. e # None
  BY NoneIsNothing
<1>4. /\ executions' \in [RunIds -> ExecutionTypes \cup {None}] /\ executions'[run] = e
      /\ \A r \in RunIds \ {run} : executions'[r] = executions[r]
  BY <1>1, <1>2 DEF ExecutionsTyped
<1>5. ExecutionsGoOn
  BY <1>1, <1>3, <1>4 DEF ExecutionsGoOn
<1>6. ExecutionsTyped' /\ StartedAsPrepared'
  BY <1>1, <1>2, <1>3, <1>4 DEF ExecutionsTyped, StartedAsPrepared
<1>7. RowsAreTrue'
  BY <1>1, <1>5, RowsStayTrue DEF ExecutionInv
<1>8. PICK x : x = exchange' /\ x = exchange
  BY <1>1
<1>9. ExchangeIsSound(x) /\ \A t \in late' : CarriesThePrepared(t)
  BY <1>1, <1>8 DEF ExecutionInv
<1> QED
  BY <1>1, <1>5, <1>6, <1>7, <1>8, <1>9, ExecutionStep

\* What a submission is concluded to be follows from its answer.
LEMMA ConcludingASubmissionIsSound ==
  ASSUME ExecutionInv, ConcludeSubmission
  PROVE  ExecutionInv'
<1> DEFINE run == exchange.run
           told == submitExecutionRun(exchange.reply, run, exchange.submission.workflow)
           status == IF told = "accepted" THEN "queued" ELSE told
<1>1. /\ exchange.at = "answered" /\ exchange.op = "submit" /\ executions' = executions /\ late' = late
      /\ rows' = [rows EXCEPT ![run].status = status] /\ exchange' = Resting
      /\ ExecutionsTyped /\ ExchangeIsSound(exchange) /\ StartedAsPrepared /\ RowsAreTrue
  BY DEF ConcludeSubmission, Concludes, ExecutionInv
<1>2. CarriesThePrepared(exchange.submission) /\ exchange.submission.run = run /\ SubmissionReply(exchange)
  BY <1>1 DEF ExchangeIsSound
<1>3. run \in RunIds /\ exchange.submission.valid = rows[run].valid
  BY <1>2 DEF CarriesThePrepared
<1>4. \/ told = "uncertain"
      \/ told = "refused" /\ ~rows[run].valid
      \/ told = "accepted" /\ executions[run] # None
  <2>1. CASE exchange.reply.text = "none" \/ exchange.reply.status \in {500, 503}
    BY <2>1 DEF submitExecutionRun, isRetryableStatus
  <2>2. CASE exchange.reply.text # "none" /\ exchange.reply.status = 400 /\ ~exchange.submission.valid
    BY <1>3, <2>2 DEF submitExecutionRun, isRetryableStatus
  <2>3. CASE exchange.reply.text # "none" /\ exchange.reply.status = 202 /\ executions[run] # None
    BY <2>3 DEF submitExecutionRun, isRetryableStatus
  <2> QED BY <1>2, <2>1, <2>2, <2>3 DEF SubmissionReply
<1>5. \/ status = "uncertain"
      \/ status = "refused" /\ ~rows[run].valid
      \/ status = "queued" /\ executions[run] # None
  BY <1>4
<1> HIDE DEF status, told
<1>6. /\ DOMAIN rows' = RunIds
      /\ \A r \in RunIds : /\ DOMAIN rows'[r] = RowFields /\ rows'[r].valid = rows[r].valid
                           /\ rows'[r].bundle = rows[r].bundle
                           /\ rows'[r].status = IF r = run THEN status ELSE rows[r].status
  BY <1>1, <1>3 DEF ExecutionsTyped, RowFields
<1>7. PICK x : x = exchange' /\ x = Resting
  BY <1>1
<1>8. ExchangeIsSound(x) /\ DOMAIN x = ExchangeFields
  BY <1>7, RestingIsSound
<1>9. ExecutionsTyped' /\ StartedAsPrepared' /\ ExecutionsGoOn
  BY <1>1, <1>6, <1>7, <1>8 DEF ExecutionsTyped, StartedAsPrepared, ExecutionsGoOn
<1>10. RowsAreTrue'
  <2>1. \A r \in RunIds : Succeeded(r) => Succeeded(r)'
    BY <1>1, SuccessStays
  <2> QED BY <1>1, <1>3, <1>5, <1>6, <2>1 DEF RowsAreTrue
<1>11. \A s \in late' : CarriesThePrepared(s)
  BY <1>1 DEF ExecutionInv
<1> QED
  BY <1>6, <1>7, <1>8, <1>9, <1>10, <1>11, ExecutionStep

\* A pass goes on to its next run, or ends.
LEMMA ProceedingIsSound ==
  ASSUME ExecutionInv, Proceed
  PROVE  \E x : x = exchange' /\ DOMAIN x = ExchangeFields /\ ExchangeIsSound(x)
<1>1. DOMAIN exchange = ExchangeFields /\ ExchangeIsSound(exchange)
  BY DEF ExecutionInv, ExecutionsTyped
<1>2. PICK x : x = exchange'
  OBVIOUS
<1>3. CASE x = Resting
  BY <1>2, <1>3, RestingIsSound
<1>4. CASE x = [exchange EXCEPT !.at = "observing", !.todo = Tail(exchange.todo)]
  <2>1. DOMAIN x = ExchangeFields /\ x.at = "observing" /\ x.seen = exchange.seen
    BY <1>1, <1>4 DEF ExchangeFields
  <2>2. ExchangeIsSound(x)
    BY <1>1, <2>1 DEF ExchangeIsSound
  <2> QED BY <1>2, <2>1, <2>2
<1> QED
  BY <1>2, <1>3, <1>4 DEF Proceed

\* A row that a pass writes says what the execution has come to.
LEMMA RecordingIsSound ==
  ASSUME ExecutionInv, Proceed, executions' = executions, late' = late, NEW run,
         DOMAIN rows' = RunIds,
         \A r \in RunIds : /\ DOMAIN rows'[r] = RowFields /\ rows'[r].valid = rows[r].valid
                           /\ r # run => rows'[r] = rows[r],
         run \in RunIds =>
            /\ rows'[run].status \in {"running", "failed", "succeeded"} \/ rows'[run] = rows[run]
            /\ rows'[run].status \in {"running", "succeeded"} => executions[run] # None
            /\ rows'[run].status = "succeeded" => Succeeded(run) /\ rows'[run].bundle.run = run
  PROVE  ExecutionInv'
<1>1. PICK x : x = exchange' /\ DOMAIN x = ExchangeFields /\ ExchangeIsSound(x)
  BY ProceedingIsSound
<1>2. ExecutionsTyped /\ StartedAsPrepared /\ RowsAreTrue
  BY DEF ExecutionInv
<1>3. ExecutionsTyped' /\ StartedAsPrepared' /\ ExecutionsGoOn
  BY <1>1, <1>2 DEF ExecutionsTyped, StartedAsPrepared, ExecutionsGoOn
<1>4. RowsAreTrue'
  <2>1. \A r \in RunIds : Succeeded(r) => Succeeded(r)'
    BY SuccessStays
  <2> SUFFICES ASSUME NEW r \in RunIds
               PROVE  /\ rows'[r].status = "refused" => ~rows'[r].valid
                      /\ rows'[r].status \in {"queued", "running", "succeeded"} => executions'[r] # None
                      /\ rows'[r].status = "succeeded" => Succeeded(r)' /\ rows'[r].bundle.run = r
    BY DEF RowsAreTrue
  <2>2. CASE rows'[r] = rows[r]
    BY <1>2, <2>1, <2>2 DEF RowsAreTrue
  <2>3. CASE r = run /\ rows'[r] # rows[r]
    BY <2>1, <2>3
  <2> QED BY <2>2, <2>3
<1>5. \A s \in late' : CarriesThePrepared(s)
  BY DEF ExecutionInv
<1> QED
  BY <1>1, <1>3, <1>4, <1>5, ExecutionStep

\* An unfinished run of a batch is one that was started.
LEMMA ObservingIsSound ==
  ASSUME ExecutionInv, ObserveUnfinished
  PROVE  ExecutionInv'
<1>1. PICK run, status :
        /\ run \in DOMAIN exchange.seen /\ status = exchange.seen[run]
        /\ status \notin {"succeeded", "failed"} /\ rows' = [rows EXCEPT ![run].status = status]
  BY DEF ObserveUnfinished, STATUSES_NEEDING_RUN_RECORD
<1>2. Proceed /\ executions' = executions /\ late' = late /\ ExecutionsTyped /\ ExchangeIsSound(exchange)
  BY DEF ObserveUnfinished, ExecutionInv
<1>3. run \in RunIds => status = "running" /\ executions[run] # None
  BY <1>1, <1>2 DEF ExchangeIsSound, Reported
<1>4. /\ DOMAIN rows' = RunIds
      /\ \A r \in RunIds : /\ DOMAIN rows'[r] = RowFields /\ rows'[r].valid = rows[r].valid
                           /\ r # run => rows'[r] = rows[r]
      /\ run \in RunIds => rows'[run].status = status
  BY <1>1, <1>2 DEF ExecutionsTyped, RowFields
<1> QED
  BY <1>2, <1>3, <1>4, RecordingIsSound

\* What is read out of an answer about a run is an error, or the record of
\* that run.
LEMMA ReadingIsSound ==
  ASSUME NEW run \in RunIds, NEW workflow, NEW x, x.run = run, StatusReply(x)
  PROVE  LET read == getExecutionRunStatus(x.reply, run, workflow) IN
         \/ read.error # None
         \/ read.error = None /\ read.record = x.reply.body /\ OwnAnswer(run, x.reply.body)
<1> DEFINE reply == x.reply
           read == getExecutionRunStatus(reply, run, workflow)
<1>0. \A e \in ErrorTypes : Read(e, None).error # None
  BY NoneIsNothing DEF Read
<1>1. CASE reply = NoReply
  <2>1. TransportError \in ErrorTypes
    BY DEF TransportError, ErrorTypes
  <2>2. read = Read(TransportError, None)
    BY <1>1, FaultsHaveFields DEF getExecutionRunStatus
  <2> QED BY <1>0, <2>1, <2>2
<1>2. CASE reply \in {Unreachable, InternalFault, NotFound(run)}
  <2>1. reply.text # "none" /\ reply.status \in {404, 500, 503}
    BY <1>2, FaultsHaveFields
  <2>2. read = Read(executionError(reply), None)
    BY <2>1 DEF getExecutionRunStatus
  <2>3. \/ executionError(reply) = ServiceError("EXECUTION_API_ERROR", isRetryableStatus(reply.status))
        \/ executionError(reply) = ServiceError(reply.body.error.code, reply.body.error.retryable)
           /\ reply.text = "json"
    BY DEF executionError
  <2>4. reply.text = "json" => /\ reply.body.error.code \in {"EXECUTION_FAILED", "EXECUTION_RUN_NOT_FOUND"}
                               /\ reply.body.error.retryable = FALSE
    BY <1>2, FaultsHaveFields DEF ErrorOf
  <2>5. isRetryableStatus(reply.status) \in BOOLEAN
    BY DEF isRetryableStatus
  <2>6. \A b \in BOOLEAN, code \in {"EXECUTION_FAILED", "EXECUTION_API_ERROR", "EXECUTION_RUN_NOT_FOUND"} :
          ServiceError(code, b) \in ErrorTypes
    BY DEF ServiceError, ErrorTypes
  <2>7. executionError(reply) \in ErrorTypes
    <3> HIDE DEF reply
    <3> QED BY <2>3, <2>4, <2>5, <2>6
  <2> QED BY <1>0, <2>2, <2>7
<1>3. CASE /\ reply.status = 200 /\ reply.text \in {"json", "oversized"}
           /\ reply.body.run_id = run => OwnAnswer(run, reply.body)
  <2>1. \A code \in ProtocolCodes : ProtocolError(code) \in ErrorTypes
    BY DEF ProtocolError, ErrorTypes
  <2>2. CASE reply.text = "oversized"
    <3>1. read = Read(ProtocolError("EXECUTION_RESPONSE_TOO_LARGE"), None)
      BY <1>3, <2>2 DEF getExecutionRunStatus, bodyParseError
    <3> QED BY <1>0, <2>1, <3>1 DEF ProtocolCodes
  <2>3. CASE reply.text = "json"
    <3> DEFINE parsed == parseResponse(reply.body, run, workflow)
    <3>1. parsed = "ok" => reply.body.run_id = run
      BY DEF parseResponse
    <3>2. parsed # "ok" => parsed \in ProtocolCodes
      BY DEF parseResponse, ProtocolCodes
    <3>3. \/ parsed # "ok" /\ read = Read(ProtocolError(parsed), None)
          \/ read = Read(ProtocolError("EXECUTION_INVALID_ARTIFACT_STORAGE"), None)
          \/ parsed = "ok" /\ read = Read(None, reply.body)
      BY <1>3, <2>3 DEF getExecutionRunStatus
    <3>4. "EXECUTION_INVALID_ARTIFACT_STORAGE" \in ProtocolCodes
      BY DEF ProtocolCodes
    <3>5. Read(None, reply.body).error = None /\ Read(None, reply.body).record = reply.body
      BY DEF Read
    <3> HIDE DEF parsed, read
    <3> QED BY <1>0, <1>3, <2>1, <3>1, <3>2, <3>3, <3>4, <3>5 DEF read
  <2> QED BY <1>3, <2>2, <2>3
<1> QED
  BY <1>1, <1>2, <1>3 DEF StatusReply, Faults

\* What is concluded of a run is what became of its execution.
LEMMA ConcludingAStatusIsSound ==
  ASSUME ExecutionInv, ConcludeStatus
  PROVE  ExecutionInv'
<1> DEFINE read == getExecutionRunStatus(exchange.reply, exchange.run, Prepared[exchange.run].workflow)
           record == read.record
<1>1. /\ Proceed /\ executions' = executions /\ late' = late /\ ExecutionsTyped
      /\ exchange.at = "answered" /\ exchange.op = "status" /\ StatusReply(exchange)
  BY DEF ConcludeStatus, Concludes, ExecutionInv, ExchangeIsSound
<1>2. PICK run : run = exchange.run
  OBVIOUS
<1>3. \/ rows' = rows
      \/ \E code : Record(run, "failed", code, None)
      \/ read.error = None /\ record.status = "running" /\ Record(run, "running", None, None)
      \/ read.error = None /\ record.status = "succeeded" /\ Record(run, "succeeded", None, record.storage)
  BY <1>2 DEF ConcludeStatus
<1>4. run \in RunIds /\ read.error = None => record = exchange.reply.body /\ OwnAnswer(run, record)
  BY <1>1, <1>2, ReadingIsSound
<1>5. run \in RunIds /\ read.error = None =>
        /\ executions[run] # None
        /\ record.status = "succeeded" => Succeeded(run) /\ record.storage.run = run
  BY <1>4 DEF OwnAnswer
<1> HIDE DEF read, record
<1>6. CASE rows' = rows
  BY <1>1, <1>6, RecordingIsSound DEF ExecutionsTyped, RowsAreTrue, ExecutionInv
<1>7. ASSUME NEW status, NEW code, NEW bundle, Record(run, status, code, bundle)
      PROVE  /\ DOMAIN rows' = RunIds
             /\ \A r \in RunIds : /\ DOMAIN rows'[r] = RowFields /\ rows'[r].valid = rows[r].valid
                                  /\ r # run => rows'[r] = rows[r]
             /\ run \in RunIds => rows'[run].status = status /\ rows'[run].bundle = bundle
  BY <1>1, <1>7 DEF Record, ExecutionsTyped, RowFields
<1>8. CASE \E code : Record(run, "failed", code, None)
  <2>1. PICK code : Record(run, "failed", code, None)
    BY <1>8
  <2> QED BY <1>1, <1>7, <2>1, RecordingIsSound
<1>9. CASE read.error = None /\ Record(run, "running", None, None)
  BY <1>1, <1>5, <1>7, <1>9, RecordingIsSound
<1>10. CASE /\ read.error = None /\ record.status = "succeeded"
            /\ Record(run, "succeeded", None, record.storage)
  BY <1>1, <1>5, <1>7, <1>10, RecordingIsSound
<1> QED
  BY <1>3, <1>6, <1>8, <1>9, <1>10

\* What Review Runs records of an execution is what happened to it: a refused
\* submission started nothing and never will, an accepted run is under way
\* with the request that was prepared, and a run counts as succeeded only
\* with a result and a bundle of its own, for any number of runs, retries,
\* late submissions and lost or misdelivered answers
\* (execution-client.ts submitExecutionRun, getExecutionRunStatus;
\* temporal-execution-client.ts start, get).
THEOREM ExecutionsAreRecordedAsTheyAre ==
  ASSUME NEW accepted \in SUBSET RunIds
  PROVE  ExecutionSpec(accepted) => []RecordedIsTrue
<1>1. ExecutionInit(accepted) => ExecutionInv
  <2> SUFFICES ASSUME ExecutionInit(accepted) PROVE ExecutionInv
    OBVIOUS
  <2>1. PICK valid \in [RunIds \ accepted -> BOOLEAN] :
          rows = [run \in RunIds |-> IF run \in accepted THEN Row("queued", TRUE) ELSE Row("preparing", valid[run])]
    BY DEF ExecutionInit
  <2>2. /\ executions = [run \in RunIds |-> IF run \in accepted THEN Started(Prepared[run]) ELSE None]
        /\ late = {} /\ exchange = Resting
    BY DEF ExecutionInit
  <2>3. \A run \in RunIds : /\ Started(Prepared[run]) \in ExecutionTypes
                            /\ Started(Prepared[run]).memo.request_fingerprint = fingerprint(Prepared[run])
    BY DEF Started, ExecutionTypes
  <2>4. \A run \in RunIds : Started(Prepared[run]) # None
    BY <2>3, NoneIsNothing
  <2>5. \A status, v : /\ DOMAIN Row(status, v) = RowFields /\ Row(status, v).status = status
                       /\ Row(status, v).valid = v
    BY DEF Row, RowFields
  <2>6. \A run \in RunIds : /\ run \in accepted => rows[run].status = "queued" /\ rows[run].valid = TRUE
                            /\ run \notin accepted => /\ rows[run].status = "preparing"
                                                      /\ rows[run].valid \in BOOLEAN
                            /\ DOMAIN rows[run] = RowFields
    BY <2>1, <2>5, ZenonT(30)
  <2>7. ExecutionsTyped
    BY <2>1, <2>2, <2>3, <2>6, RestingIsSound DEF ExecutionsTyped
  <2>8. StartedAsPrepared
    BY <2>2, <2>3, <2>6 DEF StartedAsPrepared
  <2>9. RowsAreTrue
    BY <2>2, <2>4, <2>6 DEF RowsAreTrue
  <2> QED BY <2>2, <2>7, <2>8, <2>9, RestingIsSound DEF ExecutionInv
<1>2. ExecutionInv /\ [ExecutionNext]_executionVars => ExecutionInv'
  <2> SUFFICES ASSUME ExecutionInv, [ExecutionNext]_executionVars PROVE ExecutionInv'
    OBVIOUS
  <2>1. CASE UNCHANGED executionVars
    <3>1. executions' = executions /\ late' = late /\ rows' = rows /\ exchange' = exchange
      BY <2>1 DEF executionVars
    <3>2. PICK x : x = exchange' /\ x = exchange
      BY <3>1
    <3>3. DOMAIN x = ExchangeFields /\ ExchangeIsSound(x) /\ \A s \in late' : CarriesThePrepared(s)
      BY <3>1, <3>2 DEF ExecutionInv, ExecutionsTyped
    <3> QED BY <3>1, <3>2, <3>3, ExchangeMoves
  <2>2. CASE ExecutionNext
    BY <2>2, SubmittingCarriesThePrepared, EndingIsSound, CreatingIsSound, FaultySubmissionIsSound,
       LateHandlingIsSound, ReportingIsSound, FaultyPollIsSound, RetryingIsSound,
       ConcludingASubmissionIsSound, StartingAPassIsSound, ConcludingStatusesIsSound, ObservingIsSound,
       ReadingARecordIsSound, ConcludingAStatusIsSound DEF ExecutionNext
  <2> QED BY <2>1, <2>2
<1>3. ExecutionInv => RecordedIsTrue
  BY DEF ExecutionInv, StartedAsPrepared, RowsAreTrue, CarriesThePrepared, RecordedIsTrue
<1> QED
  BY <1>1, <1>2, <1>3, PTL DEF ExecutionSpec

=============================================================================
