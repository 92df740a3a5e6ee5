---------------------------- MODULE MemoryCatalog ----------------------------
(***************************************************************************)
(* The Memory Catalog (services/memory-catalog/src/catalog-store.ts) and   *)
(* the clients that write it: extraction and maintenance attempts of the   *)
(* memory workers (Python, agents/.../memory, modelled from how they use   *)
(* the catalog) and operator requests relayed by the Control Plane UI      *)
(* (apps/control-plane-ui/server/routes/memory-writes.ts).                 *)
(*                                                                         *)
(* A memory tree is what it remembers: the observations merged into it and *)
(* the edits made to it.  An artifact's digest stands for its content.     *)
(* Every job may have several attempts under way at once (an activity that *)
(* timed out and its retry, a browser that sends its request again); any   *)
(* attempt may die, and any answer may be lost.  A store transaction is    *)
(* one step: it holds the locks of its owner and of the rows it changes.   *)
(* The reads the code makes before it takes a lock are steps of their own. *)
(***************************************************************************)
EXTENDS Naturals, Sequences, FiniteSets

CONSTANTS
    Null,
    Extractions,        \* extraction ids
    Maintenances,       \* maintenance ids, one per workflow run
    Edits, Controls, Restores,  \* operator operation ids
    Attempts,           \* attempts a job may have
    Batch,              \* observations a maintenance takes at most
    MaxLost             \* bound on lost answers and dead attempts

VARIABLES
    candidates,         \* extraction_publications
    extractions,        \* extractions, by id
    observations,       \* observations: Null, 0 (pending) or consumed_revision
    publications,       \* memory_revision_publications
    revisions,          \* memory_tree_revisions, by revision number
    active,             \* memory_tree_state.active_revision
    control,            \* maintenance_control
    ledger,             \* maintenance_control_operations and ..restore_operations
    objects,            \* what object storage holds
    drafts,             \* what the operator's browser asked for, by operation
    jobs,               \* the attempts
    answers,            \* what successful answers said, by operator operation
    lost

catalogVars == <<candidates, extractions, observations, publications, revisions,
                 active, control, ledger, objects, drafts, jobs, answers, lost>>

rows == <<candidates, extractions, observations, publications, revisions, active, control, ledger>>

Operations == Edits \cup Controls \cup Restores
Owners == Extractions \cup Maintenances \cup Operations

\* Jobs and operations of different kinds have ids of their own.
ASSUME OwnersAreApart ==
    /\ Extractions \cap (Maintenances \cup Operations) = {}
    /\ Maintenances \cap Operations = {}
    /\ Edits \cap (Controls \cup Restores) = {} /\ Controls \cap Restores = {}
    /\ IsFiniteSet(Controls)

\* What object storage may hold, what an attempt means to publish, and what
\* an operator may ask for.
Trajectories == {Null} \cup (Owners \X (Attempts \cup {0}))
ExtractionIntents ==
    [owner : Extractions, trajectory : Trajectories, tree : {Null}, observation : BOOLEAN]
ControlStates == [state : {"enabled", "paused"}, generation : Nat]
Drafts == [expected : Nat] \cup [expected : Nat, state : {"enabled", "paused"}]
          \cup [expected : Nat, target : Nat]

\* What is not there is nothing that may be.
ASSUME NullIsNothing == Null \notin Nat \cup ExtractionIntents \cup ControlStates \cup Drafts

Idle == [at |-> "idle", intent |-> Null, batch |-> {}]

TreeOf(r) == IF r = 0 THEN {} ELSE revisions[r].tree

At(o, a, at) == jobs[o][a].at = at

\* The attempt moves on, or its answer is lost and it dies with it.
Goes(o, a, job) ==
    \/ jobs' = [jobs EXCEPT ![o][a] = job] /\ UNCHANGED lost
    \/ /\ lost < MaxLost /\ lost' = lost + 1
       /\ jobs' = [jobs EXCEPT ![o][a] = [Idle EXCEPT !.at = "dead"]]

Next_(o, a, at) == Goes(o, a, [jobs[o][a] EXCEPT !.at = at])

-----------------------------------------------------------------------------
(***************************************************************************)
(* Publication intents.  One row per owner and digest; a changed intent    *)
(* for a recorded digest is refused, a confirmation needs its row.         *)
(***************************************************************************)

Digest(intent) == <<intent.owner, intent.trajectory, intent.tree>>

Same(p, intent) == p.intent = intent

reserve(rowset, intent) ==
    IF \E p \in rowset : Digest(p.intent) = Digest(intent) THEN rowset
    ELSE rowset \cup {[intent |-> intent, status |-> "planned"]}

Reservable(rowset, intent) ==
    \A p \in rowset : Digest(p.intent) = Digest(intent) => Same(p, intent)

WithStatus(rowset, intent, status) ==
    {IF Same(p, intent) THEN [p EXCEPT !.status = status] ELSE p : p \in rowset}

confirm(rowset, intent) ==
    {IF Same(p, intent) /\ p.status # "selected" THEN [p EXCEPT !.status = "present"] ELSE p :
        p \in rowset}

Confirmable(rowset, intent) == \E p \in rowset : Same(p, intent)

\* What a commit checks under the owner's advisory lock: no other intent was
\* selected, and this one was confirmed.
Selectable(rowset, intent) ==
    /\ \A p \in rowset :
          p.intent.owner = intent.owner /\ p.status = "selected" => Same(p, intent)
    /\ \E p \in rowset : Same(p, intent) /\ p.status \in {"present", "selected"}

\* The objects a record refers to are stored; an operator's has no trajectory.
Stored(intent, store) ==
    \A kind \in {"trajectory", "tree"} : intent[kind] \in store[kind] \cup {Null}
Uploaded(intent) == Stored(intent, objects)

\* Recovery prefers the selected intent, then any whose objects are stored.
Recoverable(rowset, owner) == {p \in rowset : p.intent.owner = owner /\ Uploaded(p.intent)}
Missing(rowset, owner) ==
    \E p \in rowset : p.intent.owner = owner /\ p.status = "selected" /\ ~Uploaded(p.intent)
Recovered(rowset, owner) ==
    LET found == Recoverable(rowset, owner)
        chosen == {p \in found : p.status = "selected"}
    IN IF chosen # {} THEN chosen ELSE found

-----------------------------------------------------------------------------
(***************************************************************************)
(* Extraction attempts                                                     *)
(***************************************************************************)

\* The attempt lists the recorded candidates before it runs the model again.
prepare_memory_extraction(x, a) ==
    /\ At(x, a, "idle")
    /\ \/ \E p \in Recovered(candidates, x) :
             Goes(x, a, [Idle EXCEPT !.at = "confirm", !.intent = p.intent])
       \/ /\ Recoverable(candidates, x) = {} /\ ~Missing(candidates, x)
          /\ \E seen \in BOOLEAN :
                Goes(x, a, [Idle EXCEPT !.at = "reserve",
                    !.intent = [owner |-> x, trajectory |-> <<x, a>>, tree |-> Null,
                                observation |-> seen]])
    /\ UNCHANGED <<rows, objects, drafts, answers>>

reserveExtractionPublication(x, a) ==
    /\ At(x, a, "reserve") /\ Reservable(candidates, jobs[x][a].intent)
    /\ candidates' = reserve(candidates, jobs[x][a].intent)
    /\ Next_(x, a, "upload")
    /\ UNCHANGED <<extractions, observations, publications, revisions, active, control,
                   ledger, objects, drafts, answers>>

confirmExtractionPublication(x, a) ==
    /\ At(x, a, "confirm") /\ Confirmable(candidates, jobs[x][a].intent)
    /\ candidates' = confirm(candidates, jobs[x][a].intent)
    /\ Next_(x, a, "register")
    /\ UNCHANGED <<extractions, observations, publications, revisions, active, control,
                   ledger, objects, drafts, answers>>

\* The extraction and its observation are written once; the same content
\* registers again as a replay, anything else conflicts.
registerExtraction(x, a) ==
    LET intent == jobs[x][a].intent
    IN /\ At(x, a, "register")
       /\ IF ~Selectable(candidates, intent)
             \/ extractions[x] \notin {Null, intent}
          THEN UNCHANGED <<candidates, extractions, observations>>
          ELSE /\ candidates' = WithStatus(candidates, intent, "selected")
               /\ extractions' = [extractions EXCEPT ![x] = intent]
               /\ observations' =
                     IF extractions[x] = Null /\ intent.observation
                     THEN [observations EXCEPT ![x] = 0] ELSE observations
       /\ \/ Next_(x, a, "done")
          \/ lost < MaxLost /\ lost' = lost + 1 /\ UNCHANGED jobs   \* the activity is retried
       /\ UNCHANGED <<publications, revisions, active, control, ledger, objects, drafts, answers>>

-----------------------------------------------------------------------------
(***************************************************************************)
(* Maintenance attempts                                                    *)
(***************************************************************************)

prepare_memory_maintenance_activity(m, a) ==
    /\ At(m, a, "idle")
    /\ \/ control.state = "paused" /\ Next_(m, a, "done")
       \/ /\ control.state = "enabled"
          /\ \/ \E p \in Recovered(publications, m) :
                   Goes(m, a, [Idle EXCEPT !.at = "confirm", !.intent = p.intent])
             \/ /\ Recoverable(publications, m) = {} /\ ~Missing(publications, m)
                /\ Next_(m, a, "observe")
    /\ UNCHANGED <<rows, objects, drafts, answers>>

\* getMaintenanceInput reads the pending observations and then, from a later
\* snapshot, the active revision.
Pending == {x \in Extractions : observations[x] = 0}

SelectPending(m, a) ==
    /\ At(m, a, "observe")
    /\ IF Pending = {} THEN Next_(m, a, "done")
       ELSE \E batch \in SUBSET Pending :
               /\ batch # {} /\ Cardinality(batch) <= Batch
               /\ (Cardinality(batch) < Batch => batch = Pending)
               /\ Goes(m, a, [Idle EXCEPT !.at = "base", !.batch = batch])
    /\ UNCHANGED <<rows, objects, drafts, answers>>

getMaintenanceInput(m, a) ==
    /\ At(m, a, "base")
    /\ Goes(m, a, [jobs[m][a] EXCEPT !.at = "reserve",
          !.intent = [owner |-> m, trajectory |-> <<m, a>>,
                      tree |-> TreeOf(active) \cup jobs[m][a].batch,
                      expected |-> active, sources |-> jobs[m][a].batch]])
    /\ UNCHANGED <<rows, objects, drafts, answers>>

-----------------------------------------------------------------------------
(***************************************************************************)
(* Steps a maintenance attempt and an operator edit share                  *)
(***************************************************************************)

Publishers == Maintenances \cup Edits

reserveRevisionPublication(o, a) ==
    /\ At(o, a, "reserve") /\ Reservable(publications, jobs[o][a].intent)
    /\ publications' = reserve(publications, jobs[o][a].intent)
    /\ Next_(o, a, "upload")
    /\ UNCHANGED <<candidates, extractions, observations, revisions, active, control,
                   ledger, objects, drafts, answers>>

\* Objects are written one at a time under keys derived from their digests;
\* an object that is already there is the same object.
putMemoryArtifact(o, a) ==
    LET intent == jobs[o][a].intent
    IN /\ At(o, a, "upload")
       /\ LET kind == IF intent.trajectory \in objects.trajectory \cup {Null}
                      THEN "tree" ELSE "trajectory"
          IN objects' = [objects EXCEPT ![kind] = @ \cup ({intent[kind]} \ {Null})]
       /\ Next_(o, a, IF Stored(intent, objects') THEN "confirm" ELSE "upload")
       /\ UNCHANGED <<rows, drafts, answers>>

confirmRevisionPublication(o, a) ==
    /\ At(o, a, "confirm") /\ Confirmable(publications, jobs[o][a].intent)
    /\ publications' = confirm(publications, jobs[o][a].intent)
    /\ Next_(o, a, "commit")
    /\ UNCHANGED <<candidates, extractions, observations, revisions, active, control,
                   ledger, objects, drafts, answers>>

\* The revisions of one source, and whether a recorded one is this intent.
RevisionOf(o) == {r \in DOMAIN revisions : revisions[r].owner = o}

ConsumedBy(r) == {x \in Extractions : observations[x] = r}

Identical(r, intent) ==
    /\ revisions[r].predecessor = intent.expected
    /\ revisions[r].tree = intent.tree
    /\ (intent.owner \in Maintenances) =>
          /\ revisions[r].trajectory = intent.trajectory
          /\ ConsumedBy(r) = intent.sources

\* Mutant: the active revision stands for the observations as well.
Committable_ActiveOnly(intent) ==
    /\ (intent.owner \in Maintenances) => control.state = "enabled"
    /\ active = intent.expected

\* What a new revision needs: maintenance is not paused, the active revision
\* is the one it was built on, and its observations are still pending.
Committable(intent) ==
    /\ (intent.owner \in Maintenances) => control.state = "enabled"
    /\ active = intent.expected
    /\ \A x \in intent.sources : observations[x] = 0

insertRevision(intent) ==
    LET r == Len(revisions) + 1
    IN /\ revisions' = Append(revisions, [owner |-> intent.owner, predecessor |-> intent.expected,
                                          tree |-> intent.tree, trajectory |-> intent.trajectory])
       /\ observations' = [x \in Extractions |-> IF x \in intent.sources THEN r ELSE observations[x]]
       /\ active' = r

\* An operator's client learns the answer; what a successful one said is kept.
Answers(o, a, result) ==
    /\ answers' = IF o \in Operations THEN [answers EXCEPT ![o] = @ \cup {result}] ELSE answers
    /\ \/ Next_(o, a, "done")
       \/ lost < MaxLost /\ lost' = lost + 1 /\ UNCHANGED jobs

\* The transaction selects the intent, answers a replay with the recorded
\* revision, and otherwise moves the active pointer to a new one.  A refusal
\* rolls the selection back.
createMemoryTreeRevision(o, a) ==
    LET intent == jobs[o][a].intent
        recorded == RevisionOf(o)
    IN /\ At(o, a, "commit")
       /\ \/ /\ Selectable(publications, intent) /\ recorded = {} /\ Committable(intent)
             /\ publications' = WithStatus(publications, intent, "selected")
             /\ insertRevision(intent)
             /\ Answers(o, a, Len(revisions) + 1)
          \/ /\ Selectable(publications, intent)
             /\ \E r \in recorded : Identical(r, intent) /\ Answers(o, a, r)
             /\ publications' = WithStatus(publications, intent, "selected")
             /\ UNCHANGED <<observations, revisions, active>>
          \/ /\ \/ ~Selectable(publications, intent)
                \/ recorded = {} /\ ~Committable(intent)
                \/ \E r \in recorded : ~Identical(r, intent)
             /\ Next_(o, a, "done")
             /\ UNCHANGED <<publications, observations, revisions, active, answers>>
       /\ UNCHANGED <<candidates, extractions, control, ledger, objects, drafts>>

-----------------------------------------------------------------------------
(***************************************************************************)
(* Operator requests                                                       *)
(***************************************************************************)

\* The browser fixes what an operation asks for when the operator decides;
\* every retry of the operation repeats it.
Wishes(o) ==
    CASE o \in Edits -> {[expected |-> active]}
      [] o \in Controls -> [expected : {control.generation}, state : {"enabled", "paused"}]
      [] o \in Restores -> [expected : {active}, target : DOMAIN revisions]

Draft(o) ==
    /\ drafts[o] = Null /\ \E a \in Attempts : At(o, a, "idle")
    /\ \E wish \in Wishes(o) : drafts' = [drafts EXCEPT ![o] = wish]
    /\ UNCHANGED <<rows, objects, jobs, answers, lost>>

\* An edit: the BFF validates the request, builds the tree and takes it
\* through the publication protocol.
publishMemoryEdit(o, a) ==
    /\ o \in Edits /\ At(o, a, "idle") /\ drafts[o] # Null
    /\ Goes(o, a, [Idle EXCEPT !.at = "reserve",
          !.intent = [owner |-> o, trajectory |-> Null,
                      tree |-> TreeOf(drafts[o].expected) \cup {o},
                      expected |-> drafts[o].expected, sources |-> {}]])
    /\ UNCHANGED <<rows, objects, drafts, answers>>

\* Pause, resume and restore first look for a recorded result without a
\* lock; an identical replay returns it.
ReadLedger(o, a) ==
    /\ o \in Controls \cup Restores /\ At(o, a, "idle") /\ drafts[o] # Null
    /\ \/ /\ ledger[o] = Null /\ Next_(o, a, "locked") /\ UNCHANGED answers
       \/ /\ ledger[o] # Null /\ Answers(o, a, ledger[o])
    /\ UNCHANGED <<rows, objects, drafts>>

\* A new control operation compares the generation under the row's lock and
\* takes the one legal transition.
Transitions(o) ==
    control.generation = drafts[o].expected /\ control.state # drafts[o].state

changeMaintenanceControl(o, a) ==
    /\ o \in Controls /\ At(o, a, "locked")
    /\ \/ /\ Transitions(o)
          /\ control' = [state |-> drafts[o].state, generation |-> control.generation + 1]
          /\ ledger' = [ledger EXCEPT ![o] = control']
          /\ Answers(o, a, control')
       \/ /\ ~Transitions(o)
          /\ Next_(o, a, "done") /\ UNCHANGED <<control, ledger, answers>>
    /\ UNCHANGED <<candidates, extractions, observations, publications, revisions, active,
                   objects, drafts>>

\* A restore moves the active pointer only.  A second insert of its ledger
\* row fails on the primary key and rolls back.
Restorable(o) == active = drafts[o].expected /\ drafts[o].target \in DOMAIN revisions

restoreMemoryTree(o, a) ==
    /\ o \in Restores /\ At(o, a, "locked")
    /\ \/ /\ Restorable(o) /\ ledger[o] = Null
          /\ active' = drafts[o].target
          /\ ledger' = [ledger EXCEPT ![o] = drafts[o].target]
          /\ Answers(o, a, drafts[o].target)
       \/ /\ ~Restorable(o) \/ ledger[o] # Null
          /\ Next_(o, a, "done") /\ UNCHANGED <<active, ledger, answers>>
    /\ UNCHANGED <<candidates, extractions, observations, publications, revisions, control,
                   objects, drafts>>

-----------------------------------------------------------------------------
Registration(x) == [owner |-> x, trajectory |-> <<x, 0>>, tree |-> Null, observation |-> TRUE]

\* The catalog after some extractions were registered, and the attempts that
\* will be made.
CatalogInit(prior, cast) ==
    /\ candidates = {[intent |-> Registration(x), status |-> "selected"] : x \in prior}
    /\ publications = {}
    /\ extractions = [x \in Extractions |-> IF x \in prior THEN Registration(x) ELSE Null]
    /\ observations = [x \in Extractions |-> IF x \in prior THEN 0 ELSE Null]
    /\ revisions = <<>> /\ active = 0
    /\ control = [state |-> "enabled", generation |-> 0]
    /\ ledger = [o \in Controls \cup Restores |-> Null]
    /\ objects = [trajectory |-> {<<x, 0>> : x \in prior}, tree |-> {}]
    /\ drafts = [o \in Operations |-> Null]
    /\ jobs = [o \in Owners |-> [a \in Attempts |->
          IF <<o, a>> \in cast THEN Idle ELSE [Idle EXCEPT !.at = "dead"]]]
    /\ answers = [o \in Operations |-> {}]
    /\ lost = 0

CatalogNext ==
    \/ \E o \in Operations : Draft(o)
    \/ \E a \in Attempts :
          \/ \E x \in Extractions :
                \/ prepare_memory_extraction(x, a)
                \/ reserveExtractionPublication(x, a)
                \/ putMemoryArtifact(x, a)
                \/ confirmExtractionPublication(x, a)
                \/ registerExtraction(x, a)
          \/ \E m \in Maintenances :
                \/ prepare_memory_maintenance_activity(m, a)
                \/ SelectPending(m, a)
                \/ getMaintenanceInput(m, a)
          \/ \E o \in Publishers :
                \/ reserveRevisionPublication(o, a)
                \/ putMemoryArtifact(o, a)
                \/ confirmRevisionPublication(o, a)
                \/ createMemoryTreeRevision(o, a)
          \/ \E o \in Operations :
                \/ publishMemoryEdit(o, a)
                \/ ReadLedger(o, a)
                \/ changeMaintenanceControl(o, a)
                \/ restoreMemoryTree(o, a)

CatalogSpec ==
    /\ \E prior \in SUBSET Extractions, cast \in SUBSET (Owners \X Attempts) : CatalogInit(prior, cast)
    /\ [][CatalogNext]_catalogVars

-----------------------------------------------------------------------------
IsMaintenance(r) == revisions[r].owner \in Maintenances

\* Nothing is committed before its objects are stored.
CommittedIsStored ==
    /\ \A r \in DOMAIN revisions : Uploaded(revisions[r])
    /\ \A x \in Extractions : extractions[x] # Null => Uploaded(extractions[x])

\* A revision remembers what its predecessor remembers, and adds exactly the
\* observations recorded as consumed by it or the edit it stands for.
NothingIsForgotten ==
    \A r \in DOMAIN revisions :
        /\ revisions[r].predecessor < r
        /\ revisions[r].tree = TreeOf(revisions[r].predecessor) \cup
              (IF IsMaintenance(r) THEN ConsumedBy(r) ELSE {revisions[r].owner})
        /\ ~IsMaintenance(r) => ConsumedBy(r) = {}

\* An owner commits once, and what was committed is its selected intent.
OneSelection ==
    /\ \A r, s \in DOMAIN revisions : revisions[r].owner = revisions[s].owner => r = s
    /\ \A p \in publications : p.status = "selected" <=>
          \E r \in RevisionOf(p.intent.owner) : Identical(r, p.intent)
    /\ \A p \in candidates : p.status = "selected" <=> extractions[p.intent.owner] = p.intent

\* However often an operation is sent, its successful answers agree, and the
\* generation counts the operations that happened.
AnsweredOnce ==
    /\ \A o \in Operations : Cardinality(answers[o]) <= 1
    /\ control.generation = Cardinality({o \in Controls : ledger[o] # Null})

\* The memory history is sound whatever attempts overlap, die or repeat:
\* nothing is committed unstored, no observation is lost or merged twice, no
\* edit or restore makes a later revision forget what it was built on, and
\* every job and operation takes effect once
\* (services/memory-catalog/src/catalog-store.ts, createMemoryTreeRevision,
\* registerExtraction, changeMaintenanceControl and restoreMemoryTree).
MemoryHistoryIsSound == CommittedIsStored /\ NothingIsForgotten /\ OneSelection /\ AnsweredOnce
=============================================================================
