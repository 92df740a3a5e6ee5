-------------------------- MODULE OperatorDecisions -------------------------
(***************************************************************************)
(* operator-decision-store.ts: what an operator may do with a parked run.  *)
(* resumeDisconnectedRun and giveUpDisconnectedRun read the run and then   *)
(* call the decision of one axis, which compares only that axis.           *)
(***************************************************************************)
EXTENDS PublicationStore

(* A mutant of ResumePreparation: the spent budget is kept.                *)
ResumePreparation_KeepsCount ==
    /\ preparation.status = "disconnected"
    /\ execution.status = "pending"
    /\ preparation' = [preparation EXCEPT !.status = "uncertain", !.due = "now"]
    /\ notices' = SupersedeRunAttentionNotices("preparation")
    /\ log' = [log EXCEPT !.preparation = Logged(@, "disconnected", "uncertain")]
    /\ UNCHANGED <<execution, publication, steps, candidates>>

(* resumeDisconnectedRun refuses a parked preparation whose execution has  *)
(* moved on; the read and the decision are taken as one step.              *)
ResumePreparation ==
    /\ preparation.status = "disconnected"
    /\ execution.status = "pending"
    /\ preparation' = [preparation EXCEPT !.status = "uncertain", !.attempts = 0,
                                          !.due = "now"]
    /\ notices' = SupersedeRunAttentionNotices("preparation")
    /\ log' = [log EXCEPT !.preparation = Logged(@, "disconnected", "uncertain")]
    /\ UNCHANGED <<execution, publication, steps, candidates>>

ResumeExecution ==
    /\ execution.status = "disconnected"
    /\ execution' = [Released(execution, "uncertain") EXCEPT !.attempts = 0]
    /\ notices' = SupersedeRunAttentionNotices("execution")
    /\ log' = [log EXCEPT !.execution = Logged(@, "disconnected", "uncertain")]
    /\ UNCHANGED <<preparation, publication, steps, candidates>>

ResumePublication ==
    /\ publication.status = "disconnected"
    /\ publication' = Released(publication, "pending")
    /\ steps' = [s \in Steps |->
                   IF steps[s].status = "disconnected"
                   THEN [status |-> "pending", by |-> NoToken, attempts |-> 0, recoveries |-> 0]
                   ELSE steps[s]]
    /\ notices' = SupersedeRunAttentionNotices("publication")
    /\ log' = [log EXCEPT !.publication = Logged(@, "disconnected", "pending")]
    /\ UNCHANGED <<preparation, execution, candidates>>

----------------------------------------------------------------------------
GiveUpPreparation ==
    /\ preparation.status = "disconnected"
    /\ preparation' = Released(preparation, "failed")
    /\ AbandonInFlightPublication
    /\ notices' = QueueRunNotice("failure", "preparation")
    /\ log' = [log EXCEPT !.preparation = Logged(@, "disconnected", "failed"),
                          !.publication = AbandonmentLogged]
    /\ UNCHANGED execution

GiveUpExecution == execution.status = "disconnected" /\ EndExecution

GiveUpPublication ==
    /\ publication.status = "disconnected"
    /\ publication' = Released(publication, "failed")
    /\ notices' = QueueRunNotice("failure", "publication")
    /\ log' = [log EXCEPT !.publication = Logged(@, "disconnected", "failed")]
    /\ UNCHANGED <<preparation, execution, steps, candidates>>

----------------------------------------------------------------------------
(* abandonBlockedPreparation: an execution that is still moving is failed  *)
(* with the preparation; a finished or parked one is left as it is.        *)
AbandonBlockedPreparation ==
    /\ preparation.status = "disconnected"
    /\ preparation' = Released(preparation, "failed")
    /\ execution' = IF execution.status \in {"queued", "running", "uncertain"}
                    THEN Released(execution, "failed") ELSE execution
    /\ AbandonInFlightPublication
    /\ notices' = QueueRunNotice("failure", "preparation")
    /\ log' = [preparation |-> Logged(log.preparation, "disconnected", "failed"),
               execution |-> IF execution.status \in {"queued", "running", "uncertain"}
                             THEN Logged(log.execution, execution.status, "failed")
                             ELSE log.execution,
               publication |-> AbandonmentLogged]

=============================================================================
