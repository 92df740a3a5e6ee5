-------------------------- MODULE MCReviewRunStore --------------------------
(***************************************************************************)
(* A small instance of the stores for TLC, and beside it the rows of       *)
(* another run that a foreign writer moves.  They share no state, so a     *)
(* behaviour exercises one of them.  Tokens and bundles are                *)
(* interchangeable, and so are steps: no action names one of them.         *)
(***************************************************************************)
EXTENDS ReviewRunStore, TLC

CONSTANTS OtherTokens, OtherBundles, OtherSteps     \* of the contradicted run

VARIABLES
    part,
    preparation2, execution2, publication2, steps2, candidates2, notices2, log2

otherVars == <<preparation2, execution2, publication2, steps2, candidates2, notices2, log2>>

Contradicted ==
    INSTANCE ContradictedRuns
    WITH preparation <- preparation2, execution <- execution2, publication <- publication2,
         steps <- steps2, candidates <- candidates2, notices <- notices2, log <- log2,
         Tokens <- OtherTokens, Bundles <- OtherBundles, Steps <- OtherSteps,
         MaxRecovery <- 1, MaxStep <- 1, RecoveryCap <- 1

Symmetry == Permutations(Tokens) \cup Permutations(Bundles) \cup Permutations(Steps)

RowsInit ==
    /\ part \in {"stores", "contradicted"}
    /\ Init
    /\ Contradicted!InsertedRun(CHOOSE t \in OtherTokens : TRUE)

RowsNext ==
    \/ part = "stores" /\ Next /\ UNCHANGED <<otherVars, part>>
    \/ part = "contradicted" /\ Contradicted!ContradictedNext /\ UNCHANGED <<runVars, part>>

RowsSpec == RowsInit /\ [][RowsNext]_<<runVars, otherVars, part>>

\* A parked preparation always waits for somebody who knows of it, and a
\* resumed one gets attempts to use: on the rows a foreign writer contradicts,
\* through parking, repair, resuming, parking again and giving up, a parked
\* axis has an attention notice that no resume superseded and an ended one its
\* failure notice, and a preparation that waits for a preparer has a budget
\* left, so the next expired lease does not undo the operator's decision
\* (resumeDisconnectedPreparation, giveUpDisconnectedPreparation,
\* abandonBlockedPreparation, expireStale).
ParkedRunsAreHandedBack == Contradicted!EndingsAreTold /\ Contradicted!BudgetsHold

=============================================================================
