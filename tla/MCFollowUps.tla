---------------------------- MODULE MCFollowUps -----------------------------
(***************************************************************************)
(* What goes on beside the runs: their notices are delivered, their        *)
(* statistics are collected, and the processes start and stop.  These     *)
(* share no state, so a behaviour exercises one of them.                   *)
(***************************************************************************)
EXTENDS RunNotices, ExecutionStatistics, ServiceStartup

VARIABLE part

Both == {"failure", "attention"}
Conversation == [kind |-> "conversation", repo |-> Null, raises |-> Both]
Scan(raises) == [kind |-> "scan", repo |-> "repo", raises |-> raises]
Nowhere == [kind |-> "none", repo |-> Null, raises |-> {"failure"}]

\* Two notices: two scans of one repository, and a conversation beside a run
\* whose input names no target.
MCInputs ==
    LET two == CHOOSE f \in [1..2 -> Notices] : \A n \in Notices : \E i \in 1..2 : f[i] = n
        of(a, b) == [n \in Notices |-> IF n = two[1] THEN a ELSE b]
    IN {of(Scan(Both), Scan({"failure"})), of(Conversation, Nowhere)}

Used(i, o, c, r) == [input |-> i, output |-> o, cache |-> c, reasoning |-> r]

Root == [id |-> 1, root |-> TRUE, trace |-> 1, agent |-> "analyzer", model |-> Absent,
         usage |-> Absent, foreign |-> FALSE]

Inherits == [id |-> 2, root |-> FALSE, trace |-> 1, agent |-> Absent, model |-> "a",
             usage |-> Used(3, 2, 1, Absent), foreign |-> FALSE]

NoOutput == [id |-> 3, root |-> FALSE, trace |-> 1, agent |-> "analyzer", model |-> "b",
             usage |-> Used(5, Absent, Absent, 1), foreign |-> FALSE]

Foreign == [id |-> 4, root |-> FALSE, trace |-> 2, agent |-> "verifier", model |-> "a",
            usage |-> Used(1, 1, Absent, 1), foreign |-> TRUE]

MCExports == {{Root, Inherits, NoOutput}, {Root, Inherits, Foreign}}

File(name, checksum) == [name |-> name, checksum |-> checksum]

\* An older and a newer release, and one whose first file was edited.
MCReleases ==
    {<<File("initial", "a")>>, <<File("initial", "a"), File("next", "b")>>,
     <<File("initial", "edited")>>}

\* The services bring their schemas up to date in the same way: releases mix
\* where there are no loops to interleave with.
FollowUpsInit ==
    /\ NoticesInit /\ StatisticsInit /\ StartupInit
    /\ part \in {"notices", "statistics", "replicas", "integration"}
    /\ part # "notices" => \E n \in Notices : targets[n] = Conversation
    /\ part # "statistics" => Foreign \notin exported
    /\ part # "replicas" => service = "review_runs"
    /\ service = "review_runs" => \A r \in Replicas : Len(release[r]) = 2

FollowUpsNext ==
    \/ part = "notices" /\ NoticesNext /\ UNCHANGED <<statisticsVars, startVars, part>>
    \/ part = "statistics" /\ StatisticsNext /\ UNCHANGED <<noticeVars, startVars, part>>
    \/ part = "replicas" /\ ReplicasNext /\ UNCHANGED <<noticeVars, statisticsVars, part>>
    \/ part = "integration" /\ IntegrationNext /\ UNCHANGED <<noticeVars, statisticsVars, part>>

FollowUpsSpec ==
    /\ FollowUpsInit /\ [][FollowUpsNext]_<<noticeVars, statisticsVars, startVars, part>>
    /\ NoticesFairness /\ StatisticsFairness /\ StartupFairness

\* What goes on beside the runs concludes: every notice is delivered, recorded
\* as failed or overtaken, every finished execution gets its statistics or is
\* recorded to have none, and a process that begins to stop ends, although
\* workers are lost and calls fail.
FollowUpsConclude == NoticesConclude /\ StatisticsConclude /\ StopsConclude

=============================================================================
