------------------------ MODULE ExecutionStatistics -------------------------
(***************************************************************************)
(* Token statistics of finished executions (services/review-runs/src/      *)
(* statistics): a durable queue of reconciliations, a reader of the traces *)
(* the agents exported to Langfuse, and the totals made of what it read.   *)
(*                                                                         *)
(* Traces arrive in Langfuse late and in any order.  Time is what the rows *)
(* can see of it: whether a row is due, and whether its settlement window  *)
(* is over.  The instants of a row count the passes of its clock.          *)
(***************************************************************************)
EXTENDS Integers, Sequences, FiniteSets, FiniteSetsExt

CONSTANTS
    Absent,
    Executions, Readers,
    Exports,           \* what a run's agents export, sets of [id, root, trace, agent, model, usage, foreign]
    ReviewAgents,      \* REVIEW_AGENT_NAMES
    MaxFailures,       \* transport failures in a row before a row is given up
    MaxInstants,       \* bound on the passes of a row's clock
    MaxLost            \* bound on readers that are lost or outlive their lease

VARIABLES
    executions,        \* executions whose end is recorded
    rows,              \* execution_statistics, with execution_statistics_groups
    readers,           \* reconcileExecutionStatisticsPass
    exported,          \* the observations of this run
    arrived,           \* those that Langfuse has ingested
    log,               \* per row, its last two recorded reads and their instants
    lost

statisticsVars == <<executions, rows, readers, exported, arrived, log, lost>>

NoRow == [status |-> "none", due |-> FALSE, over |-> FALSE, started |-> FALSE, now |-> 0,
          token |-> 0, issued |-> 0, read |-> Absent, ingestion |-> Absent, failures |-> 0]

-----------------------------------------------------------------------------
(***************************************************************************)
(* What is made of a read                                                  *)
(***************************************************************************)
TOKEN_FIELDS == {"input_tokens", "output_tokens", "total_tokens"}

\* Billing buckets exclude each other; an inclusive total counts them all.
\* A bucket that is not reported is Absent; the two cache buckets, read and
\* creation, are one here.
OrZero(n) == IF n = Absent THEN 0 ELSE n

tokenUsage(call) ==
    LET u == call.usage
        input == IF u.input = Absent THEN Absent ELSE u.input + OrZero(u.cache)
        output == IF u.output = Absent THEN Absent ELSE u.output + OrZero(u.reasoning)
    IN [input_tokens |-> input, output_tokens |-> output,
        total_tokens |-> IF input = Absent \/ output = Absent THEN Absent ELSE input + output]

Reports(call) == call.usage # Absent /\ \E b \in DOMAIN call.usage : call.usage[b] # Absent

\* A total is shown only when every call reports it.
completeTotals(calls) ==
    [f \in TOKEN_FIELDS |->
        IF calls # {} /\ \A c \in calls : Reports(c) /\ tokenUsage(c)[f] # Absent
        THEN MapThenSumSet(LAMBDA c : tokenUsage(c)[f], calls) ELSE Absent]

GroupKey(call) == [agent |-> call.agent, model |-> call.model]

InGroup(call, calls) == {d \in calls : GroupKey(d) = GroupKey(call)}

Groups(calls) ==
    {[key |-> GroupKey(c), count |-> Cardinality(InGroup(c, calls)),
      tokenUsage |-> completeTotals(InGroup(c, calls))] : c \in calls}

\* The columns that are made of a read; a row keeps the read itself.
aggregateExecutionStatistics(read) ==
    LET calls == read.generations
    IN [observedCallCount |-> Cardinality(calls),
        usageCoverage |-> IF \A c \in calls : Reports(c)
                          THEN "complete_for_observed_calls" ELSE "partial",
        tokenUsage |-> completeTotals(calls),
        groups |-> Groups(calls)]

observationSetHash(read) ==
    [rootIds |-> {t.id : t \in read.roots}, generationIds |-> {c.id : c \in read.generations},
     totals |-> completeTotals(read.generations), groups |-> Groups(read.generations)]

-----------------------------------------------------------------------------
(***************************************************************************)
(* The queue                                                               *)
(***************************************************************************)
Open == {"none", "pending", "reconciling"}

FinishExecution(e) ==
    /\ e \notin executions
    /\ executions' = executions \cup {e}
    /\ UNCHANGED <<exported, rows, readers, arrived, log, lost>>

Ingest(t) ==
    /\ t \notin arrived /\ \E e \in executions : rows[e].status \in Open
    /\ arrived' = arrived \cup {t}
    /\ UNCHANGED <<exported, executions, rows, readers, log, lost>>

HoldsRow(r) == /\ rows[readers[r].row].status = "reconciling"
               /\ rows[readers[r].row].token = readers[r].token

Held(e) == \E r \in Readers : readers[r].row = e /\ HoldsRow(r)

\* The row's next attempt is due: after its first delay, a confirmation delay,
\* a retry delay, or the lease of a reader that was lost or is slow.  A
\* settlement window has room for MaxInstants attempts.
TimePasses(e) ==
    /\ e \in executions /\ rows[e].status \in Open /\ ~rows[e].due
    /\ rows[e].over \/ rows[e].now < MaxInstants
    /\ IF Held(e) THEN lost < MaxLost /\ lost' = lost + 1 ELSE UNCHANGED lost
    /\ rows' = [rows EXCEPT ![e].due = TRUE, ![e].now = @ + 1]
    /\ UNCHANGED <<exported, executions, readers, arrived, log>>

WindowCloses(e) ==
    /\ rows[e].started /\ ~rows[e].over
    /\ rows' = [rows EXCEPT ![e].over = TRUE]
    /\ UNCHANGED <<exported, executions, readers, arrived, log, lost>>

IdleReader == [at |-> "idle", row |-> Absent, token |-> 0, since |-> 0, roots |-> {}]

Admitted(e) == IF e \in executions /\ rows[e].status = "none"
               THEN [rows[e] EXCEPT !.status = "pending"] ELSE rows[e]

Claimable == {e \in executions : rows[e].status \in Open /\ rows[e].due}

\* Every claim first admits what has ended since the last one; the window of
\* a row opens with its first claim and is never opened again.
claimNextStatistics(r) ==
    /\ readers[r].at = "idle"
    /\ \/ /\ Claimable = {}
          /\ \E e \in executions : rows[e].status = "none"
          /\ rows' = [e \in Executions |-> Admitted(e)]
          /\ UNCHANGED readers
       \/ \E e \in Claimable :
          /\ rows' = [[d \in Executions |-> Admitted(d)] EXCEPT
                        ![e].status = "reconciling", ![e].token = rows[e].issued + 1,
                        ![e].issued = @ + 1, ![e].due = FALSE, ![e].started = TRUE]
          /\ readers' = [readers EXCEPT ![r] =
                           [at |-> "roots", row |-> e, token |-> rows[e].issued + 1,
                            since |-> rows[e].now, roots |-> {}]]
    /\ UNCHANGED <<exported, executions, arrived, log, lost>>

Release(r) == readers' = [readers EXCEPT ![r] = IdleReader]

-----------------------------------------------------------------------------
(***************************************************************************)
(* Reading Langfuse                                                        *)
(***************************************************************************)

\* The roots are read first and the calls in a later request.
readRoots(r) ==
    /\ readers[r].at = "roots"
    /\ readers' = [readers EXCEPT ![r].at = "generations",
                     ![r].roots = {t \in arrived : t.root /\ t.agent \in ReviewAgents}]
    /\ UNCHANGED <<exported, executions, rows, arrived, log, lost>>

\* A call without an agent of its own has the agent of its trace's root.
AgentOf(call, roots) ==
    IF call.agent # Absent THEN call.agent
    ELSE IF \E t \in roots : t.trace = call.trace
         THEN (CHOOSE t \in roots : t.trace = call.trace).agent ELSE Absent

readRun(r) ==
    LET roots == readers[r].roots
        calls == {t \in arrived : ~t.root}
    IN [roots |-> roots,
        generations |-> {[c EXCEPT !.agent = AgentOf(c, roots)] :
                            c \in {d \in calls : AgentOf(d, roots) \in ReviewAgents}}]

\* A review call recorded by another instrumentation is counted twice, so the
\* whole read is refused.
SeesForeignCall(r) == \E c \in readRun(r).generations : c.foreign

\* Mutant: a reader that lost its claim records what it read.
recordSnapshot_Unfenced(r, e, read) ==
    LET roots == read.roots # {}
        stable == /\ roots /\ rows[e].read # Absent
                  /\ observationSetHash(rows[e].read) = observationSetHash(read)
        terminal == stable \/ rows[e].over
    IN rows' = [rows EXCEPT ![e].status = IF terminal THEN "settled" ELSE "pending",
                   ![e].ingestion = IF stable THEN "settled"
                                    ELSE IF ~rows[e].over THEN Absent
                                    ELSE IF roots THEN "partial_window" ELSE "no_observations",
                   ![e].read = read, ![e].failures = 0, ![e].token = 0, ![e].due = FALSE]

\* Two equal reads in a row settle the row; its window's end concludes it.
recordSnapshot(r, e, read) ==
    LET roots == read.roots # {}
        stable == /\ roots /\ rows[e].read # Absent
                  /\ observationSetHash(rows[e].read) = observationSetHash(read)
        terminal == stable \/ rows[e].over
    IN IF HoldsRow(r)
       THEN rows' = [rows EXCEPT ![e].status = IF terminal THEN "settled" ELSE "pending",
                       ![e].ingestion = IF stable THEN "settled"
                                        ELSE IF ~rows[e].over THEN Absent
                                        ELSE IF roots THEN "partial_window" ELSE "no_observations",
                       ![e].read = read, ![e].failures = 0, ![e].token = 0, ![e].due = FALSE]
       ELSE UNCHANGED rows

LastRead(reads) == IF reads = << >> THEN reads ELSE <<reads[Len(reads)]>>

reconcileClaimedWork(r) ==
    LET e == readers[r].row
        read == readRun(r)
    IN /\ readers[r].at = "generations" /\ ~SeesForeignCall(r)
       /\ recordSnapshot(r, e, read)
       /\ log' = IF rows' = rows THEN log
                 ELSE [log EXCEPT ![e] =
                         Append(LastRead(@), [read |-> read, since |-> readers[r].since,
                                    at |-> rows[e].now])]
       /\ Release(r)
       /\ UNCHANGED <<exported, executions, arrived, lost>>

Concluded(row) == [row EXCEPT !.status = "unavailable", !.ingestion = "unavailable",
                              !.token = 0, !.due = FALSE]

\* A page that cannot be read or is not what the reader expects.
recordFailure(r) ==
    LET e == readers[r].row
    IN /\ readers[r].at \in {"roots", "generations"}
       /\ rows' = IF ~HoldsRow(r) THEN rows
                  ELSE IF rows[e].failures + 1 >= MaxFailures
                  THEN [rows EXCEPT ![e] = [Concluded(@) EXCEPT !.failures = @ + 1]]
                  ELSE [rows EXCEPT ![e].status = "pending", ![e].token = 0,
                                    ![e].due = FALSE, ![e].failures = @ + 1]
       /\ Release(r)
       /\ UNCHANGED <<exported, executions, arrived, log, lost>>

\* Backpressure is not a failure; a delay that reaches past the window is
\* the end of the row.
recordRateLimit(r, late) ==
    LET e == readers[r].row
    IN /\ readers[r].at \in {"roots", "generations"}
       /\ rows[e].over => late
       /\ rows' = IF ~HoldsRow(r) THEN rows
                  ELSE IF late THEN [rows EXCEPT ![e] = Concluded(@)]
                  ELSE [rows EXCEPT ![e].status = "pending", ![e].token = 0, ![e].due = FALSE]
       /\ Release(r)
       /\ UNCHANGED <<exported, executions, arrived, log, lost>>

\* A restart, or a record that the database did not take.
LoseReader(r) ==
    /\ readers[r].at # "idle" /\ lost < MaxLost
    /\ lost' = lost + 1
    /\ Release(r)
    /\ UNCHANGED <<exported, executions, rows, arrived, log>>

-----------------------------------------------------------------------------
StatisticsInit ==
    /\ executions = {}
    /\ rows = [e \in Executions |-> NoRow]
    /\ readers = [r \in Readers |-> IdleReader]
    /\ exported \in Exports
    /\ arrived = {}
    /\ log = [e \in Executions |-> << >>]
    /\ lost = 0

ReaderStep(r) ==
    \/ readRoots(r) \/ reconcileClaimedWork(r)
    \/ readers[r].at = "generations" /\ SeesForeignCall(r) /\ recordFailure(r)

StatisticsNext ==
    \/ \E e \in Executions : FinishExecution(e) \/ TimePasses(e) \/ WindowCloses(e)
    \/ \E t \in exported : Ingest(t)
    \/ \E r \in Readers :
          \/ claimNextStatistics(r) \/ ReaderStep(r) \/ LoseReader(r)
          \/ recordFailure(r) \/ \E late \in BOOLEAN : recordRateLimit(r, late)

\* Time goes on, a pass claims what is due, and a read ends.
StatisticsFairness ==
    /\ \A e \in Executions : WF_statisticsVars(~Held(e) /\ TimePasses(e)) /\ WF_statisticsVars(WindowCloses(e))
    /\ WF_statisticsVars(\E r \in Readers : claimNextStatistics(r))
    /\ \A r \in Readers : WF_statisticsVars(ReaderStep(r))

StatisticsSpec == StatisticsInit /\ [][StatisticsNext]_statisticsVars /\ StatisticsFairness

-----------------------------------------------------------------------------
(***************************************************************************)
(* Properties                                                              *)
(***************************************************************************)

\* A row that is settled was read twice with the same result, and the second
\* read began only after the first was recorded and its delay had passed,
\* also when readers overtake each other (recordSnapshot: the stable read).
SettledIsConfirmed ==
    \A e \in Executions : rows[e].ingestion = "settled" =>
        /\ Len(log[e]) = 2
        /\ observationSetHash(log[e][2].read) = observationSetHash(log[e][1].read)
        /\ log[e][2].since > log[e][1].at
        /\ log[e][2].read.roots # {}

\* The parts add up to the whole: the groups count every call once, and where
\* a total is shown every group shows its own and they sum to it
\* (aggregateExecutionStatistics, completeTotals).
StatisticsAddUp ==
    \A e \in Executions : rows[e].read # Absent =>
        LET s == aggregateExecutionStatistics(rows[e].read)
        IN /\ MapThenSumSet(LAMBDA g : g.count, s.groups) = s.observedCallCount
           /\ \A f \in TOKEN_FIELDS : s.tokenUsage[f] # Absent =>
                 /\ \A g \in s.groups : g.tokenUsage[f] # Absent
                 /\ MapThenSumSet(LAMBDA g : g.tokenUsage[f], s.groups) = s.tokenUsage[f]

\* What is shown of an execution can be believed: a settled row was confirmed
\* by a second read, and its parts add up.
StatisticsAreSound == SettledIsConfirmed /\ StatisticsAddUp

\* Every finished execution gets its statistics or is recorded to have none.
StatisticsConclude ==
    \A e \in Executions :
        e \in executions ~> rows[e].status \in {"settled", "unavailable"}

=============================================================================
