------------------------ MODULE MCSubmissionProtocol ------------------------
(***************************************************************************)
(* Handing a run's input to the provider, in three parts that share no     *)
(* state, so a behaviour exercises one: the protocol of the parties over   *)
(* the rows, the requests between Review Runs and the execution gateway,   *)
(* and the bytes of the bundle.                                            *)
(***************************************************************************)
EXTENDS SubmissionProtocol, ExecutionCalls, InputBundles, TLC

VARIABLE part

Symmetry ==
    Permutations(Tokens) \cup Permutations(Connectors) \cup Permutations(Handlers)
      \cup Permutations(Coordinators)

-----------------------------------------------------------------------------
\* The first run is about to be submitted, the second was accepted before.
MCRuns == <<"r1", "r2">>

MCPrepared == [run \in {"r1", "r2"} |->
                  [workflow |-> "issue-review", input |-> IF run = "r1" THEN <<1, 2>> ELSE <<3>>]]

BundleOf(run) == [status |-> "available", wellFormed |-> TRUE, protocol |-> "s3", run |-> run, plain |-> TRUE]

Response(ok, result, storage, error, large) ==
    [ok |-> ok, result |-> result, storage |-> storage, error |-> error, large |-> large]

\* A result with the bundle of either run, a large one, a result of another
\* workflow, a reported failure and a response that is neither.
MCResponses ==
    {Response(TRUE, "issue-review", BundleOf("r1"), None, FALSE),
     Response(TRUE, "issue-review", BundleOf("r2"), None, FALSE),
     Response(TRUE, "issue-review", BundleOf("r2"), None, TRUE),
     Response(TRUE, "repository-review", BundleOf("r1"), None, FALSE),
     Response(FALSE, None, None, ErrorOf("LLM_UNAVAILABLE"), FALSE),
     Response(FALSE, None, None, None, FALSE)}

-----------------------------------------------------------------------------
HandingInit ==
    /\ part \in {"protocol", "requests", "bytes"}
    /\ ProtocolInit
    /\ ExecutionInit({"r2"})
    /\ BundlesInit
    /\ part # "requests" => \A run \in RunIds : rows[run].valid
    /\ part # "bytes" => backend = "file" /\ \A key \in Contents : bucket[key] = NoFile

HandingNext ==
    \/ part = "protocol" /\ ProtocolNext /\ UNCHANGED <<executionVars, bundleVars, part>>
    \/ part = "requests" /\ ExecutionNext /\ UNCHANGED <<vars, bundleVars, part>>
    \/ part = "bytes" /\ BundlesNext /\ UNCHANGED <<vars, executionVars, part>>

HandingSpec == HandingInit /\ [][HandingNext]_<<vars, executionVars, bundleVars, part>>

=============================================================================
