--------------------------- MODULE ServiceStartup ---------------------------
(***************************************************************************)
(* The life of the processes.  Replicas of a service, perhaps of different *)
(* releases, start against one database: a replica opens its store, brings *)
(* the schema up to date under an advisory lock, starts its loops and its  *)
(* HTTP surface, and releases what it acquired in reverse order, be it     *)
(* because a step of the start failed or because it was told to stop       *)
(* (database/schema-version-runner.ts, database/database.ts,               *)
(* runtime/server-runtime.ts, memory-catalog/src/server.ts).               *)
(*                                                                         *)
(* The GitHub integration starts its coordinators and its server, and when *)
(* told to stop lets the open handlers finish before it waits for the      *)
(* preparations they started (app.ts, reviews/background-preparations.ts). *)
(***************************************************************************)
EXTENDS Naturals, Sequences

CONSTANTS
    Replicas,
    Releases,       \* the schema versions each release knows, in order
    Services,       \* the services among "review_runs" and "memory_catalog"
    Events,         \* webhooks the integration may receive
    MaxStartFaults  \* bound on the steps that fail and the crashes

\* The schema versions: a file's name and checksum.
Versions == UNION {{known[v] : v \in DOMAIN known} : known \in Releases}

ASSUME ReleasesAreSequences == Releases \subseteq Seq(Versions)

VARIABLES
    service,        \* the service whose replicas these are
    release,        \* per replica, the schema versions it was built with
    ledger,         \* schema_versions, by version
    executed,       \* ghost: the SQL files committed to the database, in order
    locked,         \* the replica that holds the advisory lock, as a set
    replicas,       \* the replicas
    app,            \* the integration
    work,           \* per event, how far its handler and its preparation are
    startFaults

startVars == <<service, release, ledger, executed, locked, replicas, app, work, startFaults>>

Loops == {"coordinator", "statistics"}
Coordinators == {"publication", "preparation", "notices"}

\* What a replica acquires, in order.  Statistics need a second pool, and
\* Langfuse to be configured.
Plan(r) ==
    <<"store">>
    \o (IF service = "review_runs" THEN <<"coordinator">> ELSE <<>>)
    \o (IF service = "review_runs" /\ replicas[r].langfuse
        THEN <<"statistics_store", "statistics">> ELSE <<>>)
    \o <<"app">>

\* The pool a loop works on.
StoreOf(l) == IF l = "statistics" THEN "statistics_store" ELSE "store"

Acquired(r) == {replicas[r].stack[i] : i \in DOMAIN replicas[r].stack}

NotStarted == [at |-> "off", langfuse |-> FALSE, stack |-> <<>>, tx |-> <<>>,
               initialized |-> FALSE, stopped |-> {}, active |-> {}, requests |-> 0]

ReplicaAt(r, at) == replicas[r].at = at

Fault == startFaults < MaxStartFaults /\ startFaults' = startFaults + 1

-----------------------------------------------------------------------------
(***************************************************************************)
(* A replica starts                                                        *)
(***************************************************************************)

\* The configuration is read before anything is acquired: a missing variable,
\* or Langfuse configured in part, leaves nothing to release.
readConfiguration(r, langfuse) ==
    /\ ReplicaAt(r, "off")
    /\ \/ /\ replicas' = [replicas EXCEPT ![r].at = "open", ![r].langfuse = langfuse]
          /\ UNCHANGED startFaults
       \/ Fault /\ replicas' = [replicas EXCEPT ![r].at = "exited"]
    /\ UNCHANGED <<service, release, ledger, executed, locked, app, work>>

\* The pool is created, and its release is deferred, before initialize().
openStore(r) ==
    /\ ReplicaAt(r, "open")
    /\ replicas' = [replicas EXCEPT ![r].at = "lock", ![r].stack = <<"store">>]
    /\ UNCHANGED <<service, release, ledger, executed, locked, app, work, startFaults>>

\* Readiness: exactly the versions this release knows.  Only the version
\* numbers are compared.
checkLedger(r) == replicas[r].initialized /\ Len(ledger) = Len(release[r])

\* BEGIN, pg_advisory_xact_lock: one replica at a time inspects the ledger.
lockSchema(r) ==
    /\ ReplicaAt(r, "lock") /\ locked = {}
    /\ locked' = {r}
    /\ replicas' = [replicas EXCEPT ![r].at = "apply", ![r].tx = <<>>]
    /\ UNCHANGED <<service, release, ledger, executed, app, work, startFaults>>

\* ROLLBACK undoes the SQL of the open transaction and frees the lock; the
\* error leaves the start, and what was acquired is released.
rollback(r) ==
    /\ replicas' = [replicas EXCEPT ![r].at = "closing", ![r].tx = <<>>]
    /\ locked' = {}
    /\ UNCHANGED <<ledger, executed>>

\* A version in the ledger that this release does not know: the database is
\* newer than the application.
Unknown(r) == Len(ledger) > Len(release[r])

\* An applied version whose name or checksum is not the checked-in file's.
Mismatch(r) == \E v \in 1..Len(ledger) : v <= Len(release[r]) /\ ledger[v] # release[r][v]

refuseSchema(r) ==
    /\ ReplicaAt(r, "apply") /\ (Unknown(r) \/ Mismatch(r))
    /\ rollback(r)
    /\ UNCHANGED <<service, release, app, work, startFaults>>

\* Mutant: a version that is already applied is not compared with its file.
Applicable_Unchecked(r) == ~Unknown(r)

Applicable(r) == ~Unknown(r) /\ ~Mismatch(r)

\* The next version that is not applied: its SQL and its row of the ledger,
\* in the open transaction.
applyVersion(r) ==
    LET v == Len(ledger) + Len(replicas[r].tx) + 1
    IN /\ ReplicaAt(r, "apply") /\ Applicable(r) /\ v <= Len(release[r])
       /\ \/ /\ replicas' = [replicas EXCEPT ![r].tx = Append(@, release[r][v])]
             /\ UNCHANGED <<ledger, executed, locked, startFaults>>
          \/ Fault /\ rollback(r)
       /\ UNCHANGED <<service, release, app, work>>

\* COMMIT makes the SQL and the rows durable together; the database counts as
\* initialized from here on.
commitSchema(r) ==
    /\ ReplicaAt(r, "apply") /\ Applicable(r)
    /\ Len(ledger) + Len(replicas[r].tx) >= Len(release[r])
    /\ ledger' = ledger \o replicas[r].tx
    /\ executed' = executed \o replicas[r].tx
    /\ locked' = {}
    /\ replicas' = [replicas EXCEPT ![r].at = "compose", ![r].tx = <<>>, ![r].initialized = TRUE]
    /\ UNCHANGED <<service, release, app, work, startFaults>>

\* The loops, the statistics pool and the HTTP surface, each deferred as it
\* is acquired; the replica serves once it listens.  A step that fails (a
\* malformed variable, a port in use) releases what there is.
startReviewRunsServer(r) ==
    LET next == Plan(r)[Len(replicas[r].stack) + 1]
    IN /\ ReplicaAt(r, "compose")
       /\ \/ /\ replicas' = [replicas EXCEPT ![r].stack = Append(@, next),
                                             ![r].at = IF next = "app" THEN "serving" ELSE "compose"]
             /\ UNCHANGED startFaults
          \/ Fault /\ replicas' = [replicas EXCEPT ![r].at = "closing"]
       /\ UNCHANGED <<service, release, ledger, executed, locked, app, work>>

-----------------------------------------------------------------------------
(***************************************************************************)
(* A replica works and stops                                               *)
(***************************************************************************)

\* The first tick and the timer's: one pass at a time, none after stop().
tick(r, l) ==
    /\ l \in Acquired(r) /\ l \notin replicas[r].stopped /\ l \notin replicas[r].active
    /\ replicas' = [replicas EXCEPT ![r].active = @ \cup {l}]
    /\ UNCHANGED <<service, release, ledger, executed, locked, app, work, startFaults>>

\* A pass ends, its error logged.
passEnds(r, l) ==
    /\ l \in replicas[r].active
    /\ replicas' = [replicas EXCEPT ![r].active = @ \ {l}]
    /\ UNCHANGED <<service, release, ledger, executed, locked, app, work, startFaults>>

requestArrives(r) ==
    /\ ReplicaAt(r, "serving") /\ replicas[r].requests = 0
    /\ replicas' = [replicas EXCEPT ![r].requests = 1]
    /\ UNCHANGED <<service, release, ledger, executed, locked, app, work, startFaults>>

requestEnds(r) ==
    /\ replicas[r].requests > 0
    /\ replicas' = [replicas EXCEPT ![r].requests = 0]
    /\ UNCHANGED <<service, release, ledger, executed, locked, app, work, startFaults>>

\* SIGINT or SIGTERM.
close(r) ==
    /\ ReplicaAt(r, "serving")
    /\ replicas' = [replicas EXCEPT ![r].at = "closing"]
    /\ UNCHANGED <<service, release, ledger, executed, locked, app, work, startFaults>>

Top(r) == replicas[r].stack[Len(replicas[r].stack)]

\* stop() first forbids another pass, then waits for the one that runs.
stopLoop(r) ==
    /\ ReplicaAt(r, "closing") /\ replicas[r].stack # <<>>
    /\ Top(r) \in Loops \ replicas[r].stopped
    /\ replicas' = [replicas EXCEPT ![r].stopped = @ \cup {Top(r)}]
    /\ UNCHANGED <<service, release, ledger, executed, locked, app, work, startFaults>>

Released(r) ==
    \/ Top(r) = "app" /\ replicas[r].requests = 0
    \/ Top(r) \in replicas[r].stopped \ replicas[r].active
    \/ Top(r) \in {"store", "statistics_store"}

\* AsyncDisposableStack: what was acquired last is released first.
disposeAsync(r) ==
    /\ ReplicaAt(r, "closing")
    /\ IF replicas[r].stack = <<>>
       THEN replicas' = [replicas EXCEPT ![r].at = "exited"]
       ELSE /\ Released(r)
            /\ replicas' = [replicas EXCEPT ![r].stack = SubSeq(@, 1, Len(@) - 1)]
    /\ UNCHANGED <<service, release, ledger, executed, locked, app, work, startFaults>>

\* A crash: PostgreSQL rolls the open transaction back and frees the lock, and
\* the container is started again.
crash(r) ==
    /\ ~ReplicaAt(r, "off") /\ ~ReplicaAt(r, "exited") /\ Fault
    /\ replicas' = [replicas EXCEPT ![r] = NotStarted]
    /\ locked' = locked \ {r}
    /\ UNCHANGED <<service, release, ledger, executed, app, work>>

-----------------------------------------------------------------------------
(***************************************************************************)
(* The integration                                                         *)
(***************************************************************************)
AppVars == <<service, release, ledger, executed, locked, replicas>>

\* Git, the contract schemas and the app's own name are verified before
\* anything runs: an app without a slug could not tell its own comments.
verifyStart ==
    /\ app.at = "off"
    /\ \/ app' = [app EXCEPT !.at = "coordinators"] /\ UNCHANGED startFaults
       \/ Fault /\ app' = [app EXCEPT !.at = "refused"]
    /\ UNCHANGED <<AppVars, work>>

startCoordinators ==
    /\ app.at = "coordinators"
    /\ app' = [app EXCEPT !.at = "serving", !.running = Coordinators]
    /\ UNCHANGED <<AppVars, work, startFaults>>

coordinatorTick(c) ==
    /\ c \in app.running /\ c \notin app.active
    /\ app' = [app EXCEPT !.active = @ \cup {c}]
    /\ UNCHANGED <<AppVars, work, startFaults>>

coordinatorPassEnds(c) ==
    /\ c \in app.active
    /\ app' = [app EXCEPT !.active = @ \ {c}]
    /\ UNCHANGED <<AppVars, work, startFaults>>

\* The handler of a webhook: it filters, then hands the preparation to the
\* tracker and answers when the run is admitted or the preparation settled.
webhookArrives(e) ==
    /\ app.at = "serving" /\ work[e] = "none"
    /\ work' = [work EXCEPT ![e] = "handled"]
    /\ UNCHANGED <<AppVars, app, startFaults>>

startAndWaitForAdmission(e) ==
    /\ work[e] = "handled"
    /\ work' = [work EXCEPT ![e] = "started"]
    /\ UNCHANGED <<AppVars, app, startFaults>>

admitted(e) ==
    /\ work[e] = "started"
    /\ work' = [work EXCEPT ![e] = "admitted"]
    /\ UNCHANGED <<AppVars, app, startFaults>>

\* It settles, before or after the admission, or the handler filtered it out.
settled(e) ==
    /\ work[e] \in {"handled", "started", "admitted"}
    /\ work' = [work EXCEPT ![e] = "settled"]
    /\ UNCHANGED <<AppVars, app, startFaults>>

HandlerIsOpen(e) == work[e] \in {"handled", "started"}
Tracked == {e \in Events : work[e] \in {"started", "admitted"}}

\* The first signal only; server.close() refuses new connections and ends
\* with the last open handler.
shutdown ==
    /\ app.at = "serving"
    /\ app' = [app EXCEPT !.at = "closing"]
    /\ UNCHANGED <<AppVars, work, startFaults>>

\* Mutant: the tracker is asked before the open handlers have answered.
ServerIsClosed_Early == TRUE

ServerIsClosed == \A e \in Events : ~HandlerIsOpen(e)

\* The coordinators are stopped and the tracker takes its snapshot.
stopBackground ==
    /\ app.at = "closing" /\ ServerIsClosed
    /\ app' = [app EXCEPT !.at = "stopping", !.running = {}, !.snapshot = Tracked]
    /\ UNCHANGED <<AppVars, work, startFaults>>

shutdownCompletes ==
    /\ app.at = "stopping" /\ app.active = {} /\ app.snapshot \cap Tracked = {}
    /\ app' = [app EXCEPT !.at = "down"]
    /\ UNCHANGED <<AppVars, work, startFaults>>

-----------------------------------------------------------------------------
StartupInit ==
    /\ service \in Services
    /\ release \in [Replicas -> Releases]
    /\ ledger = <<>> /\ executed = <<>> /\ locked = {}
    /\ replicas = [r \in Replicas |-> NotStarted]
    /\ app = [at |-> "off", running |-> {}, active |-> {}, snapshot |-> {}]
    /\ work = [e \in Events |-> "none"]
    /\ startFaults = 0

\* What goes on by itself: a started replica finishes its start, passes and
\* requests end, and a closing replica releases what it holds.
ReplicaProceeds(r) ==
    \/ openStore(r) \/ lockSchema(r) \/ refuseSchema(r) \/ applyVersion(r) \/ commitSchema(r)
    \/ startReviewRunsServer(r) \/ requestEnds(r) \/ stopLoop(r) \/ disposeAsync(r)

AppProceeds ==
    \/ startCoordinators \/ stopBackground \/ shutdownCompletes

ReplicasNext ==
    \E r \in Replicas :
        \/ ReplicaProceeds(r) \/ requestArrives(r) \/ close(r) \/ crash(r)
        \/ \E langfuse \in BOOLEAN : readConfiguration(r, langfuse)
        \/ \E l \in Loops : tick(r, l) \/ passEnds(r, l)

IntegrationNext ==
    \/ AppProceeds \/ verifyStart \/ shutdown
    \/ \E c \in Coordinators : coordinatorTick(c) \/ coordinatorPassEnds(c)
    \/ \E e \in Events : webhookArrives(e) \/ startAndWaitForAdmission(e) \/ admitted(e) \/ settled(e)

StartupNext == ReplicasNext \/ IntegrationNext

StartupFairness ==
    /\ \A r \in Replicas : /\ WF_startVars(ReplicaProceeds(r))
                           /\ \A l \in Loops : WF_startVars(passEnds(r, l))
    /\ WF_startVars(AppProceeds)
    /\ \A c \in Coordinators : WF_startVars(coordinatorPassEnds(c))
    /\ \A e \in Events : WF_startVars(settled(e))

StartupSpec == StartupInit /\ [][StartupNext]_startVars /\ StartupFairness

-----------------------------------------------------------------------------
(***************************************************************************)
(* Properties                                                              *)
(***************************************************************************)

\* The ledger tells what was executed, although replicas of different
\* releases race and crash, and a replica that got past its initialization
\* works on a database that has its release's versions as it knows them; one
\* that answers ready has the schema of its release and nothing newer, although
\* the readiness check compares no checksum.
SchemaIsSound ==
    /\ ledger = executed
    /\ \A r \in Replicas :
          replicas[r].initialized =>
              /\ Len(release[r]) <= Len(ledger)
              /\ \A v \in 1..Len(release[r]) : ledger[v] = release[r][v]
    /\ \A r \in Replicas : checkLedger(r) => ledger = release[r]

\* No pass and no request runs on a pool that is not open and initialized,
\* whichever step of the start failed and whenever the stop came.
StoresOutliveTheirUsers ==
    \A r \in Replicas :
        /\ \A l \in replicas[r].active : StoreOf(l) \in Acquired(r) /\ replicas[r].initialized
        /\ replicas[r].requests > 0 => "store" \in Acquired(r) /\ replicas[r].initialized

\* A shutdown that reports completion left no preparation behind that a
\* handler had started, and no coordinator pass.
StartedWorkIsAwaited == app.at = "down" => Tracked = {} /\ app.active = {}

\* Processes start and stop soundly: the three parts above.
ProcessesAreSound == SchemaIsSound /\ StoresOutliveTheirUsers /\ StartedWorkIsAwaited

\* A replica or an integration that begins to stop, asked or because its start
\* failed, ends: nobody waits for a pass or a handler for ever.
StopsConclude ==
    /\ \A r \in Replicas : ReplicaAt(r, "closing") ~> (ReplicaAt(r, "exited") \/ ReplicaAt(r, "off"))
    /\ app.at = "closing" ~> app.at = "down"

=============================================================================
