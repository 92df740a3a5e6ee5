---------------------------- MODULE RunLifecycle ----------------------------
(***************************************************************************)
(* What Review Runs promises about a run: the state machines of its three  *)
(* axes as the contract declares them (x-state-machines, generated into    *)
(* state-machines.generated.ts), and how the axes move together.  Claims,  *)
(* tokens, leases, budgets, steps and bundles do not exist here.           *)
(*                                                                         *)
(* The contract declares each axis by itself; that the axes move together  *)
(* is what its descriptions of the states say ("execution is skipped",     *)
(* "there was nothing to publish because execution did not succeed").      *)
(***************************************************************************)

VARIABLES preparing, executing, publishing   \* the status of each axis

axes == <<preparing, executing, publishing>>

PreparationEdges ==
    {<<"pending", "preparing">>, <<"preparing", "submitted">>, <<"preparing", "pending">>,
     <<"preparing", "uncertain">>, <<"uncertain", "preparing">>,
     <<"preparing", "disconnected">>, <<"disconnected", "uncertain">>,
     <<"disconnected", "failed">>, <<"preparing", "failed">>}

ExecutionEdges ==
    {<<"pending", "queued">>, <<"pending", "skipped">>, <<"pending", "uncertain">>,
     <<"uncertain", "queued">>, <<"uncertain", "failed">>, <<"uncertain", "disconnected">>,
     <<"disconnected", "uncertain">>, <<"disconnected", "failed">>,
     <<"queued", "running">>, <<"queued", "succeeded">>, <<"running", "succeeded">>,
     <<"queued", "failed">>, <<"running", "failed">>}

PublicationEdges ==
    {<<"pending", "publishing">>, <<"publishing", "uncertain">>, <<"uncertain", "publishing">>,
     <<"uncertain", "disconnected">>, <<"disconnected", "pending">>,
     <<"disconnected", "failed">>, <<"publishing", "published">>, <<"publishing", "pending">>,
     <<"publishing", "failed">>, <<"pending", "skipped">>, <<"publishing", "skipped">>}

(* Edges the stores take and the contract does not declare: the publisher  *)
(* concludes from whatever its steps left the axis in, and a publication   *)
(* claimed again over an uncertain step is parked from `publishing`.       *)
UndeclaredEdges ==
    {<<"uncertain", "pending">>, <<"uncertain", "failed">>, <<"publishing", "disconnected">>}

----------------------------------------------------------------------------
Unsettled == {"pending", "preparing", "uncertain"}

Prepare ==
    /\ <<preparing, preparing'>> \in PreparationEdges
    /\ preparing' \in Unsettled
    /\ executing = "pending"
    /\ UNCHANGED <<executing, publishing>>

(* Preparation is over and execution takes the run, accepted or unknown.   *)
Submit ==
    /\ preparing = "preparing"
    /\ \/ preparing' = "submitted" /\ executing' = "queued"
       \/ preparing' = "failed" /\ executing' = "uncertain"
    /\ executing = "pending"
    /\ UNCHANGED publishing

(* Preparation failed: there is nothing to execute and nothing to publish. *)
GiveUpPreparing ==
    /\ preparing = "preparing" /\ preparing' = "failed"
    /\ executing = "pending" /\ executing' = "skipped"
    /\ publishing = "pending" /\ publishing' = "skipped"

Execute ==
    /\ <<executing, executing'>> \in ExecutionEdges
    /\ executing # "pending" /\ executing' # "failed"
    /\ UNCHANGED <<preparing, publishing>>

(* Execution failed: there is nothing to publish.                          *)
GiveUpExecuting ==
    /\ <<executing, executing'>> \in ExecutionEdges
    /\ executing' = "failed"
    /\ publishing = "pending" /\ publishing' = "skipped"
    /\ UNCHANGED preparing

Publish ==
    /\ executing = "succeeded"
    /\ <<publishing, publishing'>> \in PublicationEdges \cup UndeclaredEdges
    /\ publishing' # "skipped"
    /\ UNCHANGED <<preparing, executing>>

----------------------------------------------------------------------------
(* Admission hands the run to its first preparer in the same transaction.  *)
LifecycleInit == preparing = "preparing" /\ executing = "pending" /\ publishing = "pending"

LifecycleNext ==
    \/ Prepare \/ Submit \/ GiveUpPreparing
    \/ Execute \/ GiveUpExecuting
    \/ Publish

LifecycleSpec == LifecycleInit /\ [][LifecycleNext]_axes

=============================================================================
