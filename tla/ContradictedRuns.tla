-------------------------- MODULE ContradictedRuns --------------------------
(***************************************************************************)
(* ReviewRunStore, plus a writer that is not one of its stores.  The       *)
(* stores keep execution `pending` under an open preparation, so the code  *)
(* that parks a contradicted preparation, and the operator decisions about *)
(* one, only run when somebody else moved the execution row: the           *)
(* repository's integration tests do it with a plain UPDATE.  The writer   *)
(* here advances the row the same way, and can take it back.               *)
(***************************************************************************)
EXTENDS ReviewRunStore

ForeignAdvance ==
    /\ preparation.status = "preparing"
    /\ execution.status = "pending"
    /\ execution' = [execution EXCEPT !.status = "queued"]
    /\ log' = [log EXCEPT !.execution = Logged(@, "pending", "queued")]
    /\ UNCHANGED <<preparation, publication, steps, candidates, notices>>

ForeignRepair ==
    /\ preparation.status = "disconnected"
    /\ execution.status = "queued"
    /\ execution' = [execution EXCEPT !.status = "pending"]
    /\ log' = [log EXCEPT !.execution = Logged(@, "queued", "pending")]
    /\ UNCHANGED <<preparation, publication, steps, candidates, notices>>

ContradictedNext == Next \/ ForeignAdvance \/ ForeignRepair

ContradictedSpec == Init /\ [][ContradictedNext]_runVars

=============================================================================
