--------------------------- MODULE ConsoleBrowser ---------------------------
(***************************************************************************)
(* One tab of the Control Plane UI (apps/control-plane-ui/browser): the    *)
(* list of runs with its filters and pages, the page of one run, and the   *)
(* memory page with its editor.  A page reads through the RefreshQueue of  *)
(* its own useRefresh and forgets its state when it is left.               *)
(*                                                                         *)
(* Everything the server holds has one version, world.revision; the reads  *)
(* of one run (the run, its steps, its events) are taken as one.  A read   *)
(* sees the version of the moment the server handles it and may arrive at  *)
(* any later time, after newer ones too; one whose page is gone changes    *)
(* nothing and is forgotten.  Rendering and the effects after it are two   *)
(* steps.                                                                  *)
(***************************************************************************)
EXTENDS Naturals, FiniteSets

CONSTANTS
    Absent,
    Names, Values,      \* filters of the list, and what they may be set to
    First, Cursors,     \* the cursor of the first page, and the other ones
    Follow(_),          \* next_cursor of the page at a cursor, or Absent
    RunIds,
    Resources,          \* what the memory page reads in one refresh
    Keys,               \* ranges of the overview; revisions of the viewer
    DefaultKey,
    Texts,              \* contents an operator may type
    MaxAttempts, MaxGenerations, MaxRevision, MaxOperations    \* bounds of the model

\* Queries of the list, and keys of a panel.
Searches == [filters : [Names -> Values \cup {Absent}], cursor : Cursors \cup {First}]
PanelKeys == Keys \cup {DefaultKey}

ASSUME BrowserConstants ==
    /\ RunIds # {} /\ "tree" \in Resources
    /\ Resources \cap {"list", "parked", "run", "content", "viewer"} = {}
    /\ \A c \in Cursors \cup {First} : Follow(c) \in Cursors \cup {Absent}
    /\ MaxRevision \in Nat \ {0}

\* What is not there is nothing that may be.
ASSUME AbsentIsNothing ==
    /\ Absent \notin Nat \cup {"done", "conflict"}
    /\ Absent \notin [search : Searches, next : Cursors \cup {Absent}]
    /\ Absent \notin [key : PanelKeys, version : Nat]
    /\ Absent \notin [base : Nat, files : Texts \cup {"loaded"},
                     attempt : {Absent} \cup [content : Texts \cup {"loaded"}, op : Nat], sent : SUBSET Nat]
    /\ Absent \notin [content : Texts \cup {"loaded"}, op : Nat]

VARIABLES
    tab,                \* the page, its address, and whether an effect is due
    trail,              \* cursorParents, kept in sessionStorage
    queue,              \* the RefreshQueue of the page
    reads,              \* reads under way
    list,               \* useRunsData
    detail,             \* useRunDetail
    panels,             \* useResource, one for each resource and the viewer
    editor,             \* useMemoryEditor's session
    post,               \* the change under way on the memory page
    world               \* the server: revision, accepted operations, posts that travel

browserVars == <<tab, trail, queue, reads, list, detail, panels, editor, post, world>>

Panels == Resources \cup {"viewer"}

-----------------------------------------------------------------------------
(***************************************************************************)
(* RefreshQueue.  A waiter is the number of attempts begun when it asked.  *)
(***************************************************************************)

IdleQueue == [running |-> FALSE, queued |-> FALSE, active |-> {}, waiting |-> {}, attempt |-> 0]

Read(what, gen, key, serves) == [what |-> what, gen |-> gen, key |-> key, serves |-> serves, seen |-> Absent]

\* What loadRef.current reads when an attempt begins.
load(attempt) ==
    CASE tab.at = "runs" -> {Read(what, 0, tab.search, attempt) : what \in {"list", "parked"}}
      [] tab.at = "run" -> {Read("run", 0, tab.run, attempt)}
      [] OTHER -> {Read(p, panels[p].gen + 1, panels[p].key, attempt) : p \in Resources}

\* reload: the newest generation counts, and what is shown stays meanwhile.
Reloading(panel) == [panel EXCEPT !.gen = @ + 1, !.loading = TRUE]

Run(waiters) ==
    /\ queue.attempt < MaxAttempts
    /\ queue' = [running |-> TRUE, queued |-> FALSE, active |-> waiters, waiting |-> {},
                 attempt |-> queue.attempt + 1]
    /\ reads' = reads \cup load(queue.attempt + 1)
    /\ panels' = [p \in Panels |-> IF tab.at = "memory" /\ p \in Resources
                                   THEN Reloading(panels[p]) ELSE panels[p]]

request ==
    IF queue.running
    THEN /\ queue' = [queue EXCEPT !.queued = TRUE, !.waiting = @ \cup {queue.attempt}]
         /\ UNCHANGED <<reads, panels>>
    ELSE Run({queue.attempt})

\* An attempt has settled: its waiters go on, and requests made during it get
\* an attempt of their own.
drain ==
    /\ queue.running /\ \A r \in reads : r.serves # queue.attempt
    /\ IF queue.queued THEN Run(queue.waiting)
       ELSE queue' = [IdleQueue EXCEPT !.attempt = queue.attempt] /\ UNCHANGED <<reads, panels>>
    /\ UNCHANGED <<tab, trail, list, detail, editor, post, world>>

isRunTerminal == detail.shown # Absent /\ detail.shown.run = tab.run /\ detail.shown.version = MaxRevision

\* The button, the timer, or the page becoming visible again; the page of a
\* run has no button and its timer stops when the run is over.
Refresh ==
    /\ tab.at \in {"runs", "run", "memory"} /\ ~tab.effect
    /\ tab.at = "run" => ~isRunTerminal
    /\ request
    /\ UNCHANGED <<tab, trail, list, detail, editor, post, world>>

\* useRefresh's effect: a page was mounted, or its load changed.
RefreshEffect ==
    /\ tab.effect /\ request
    /\ tab' = [tab EXCEPT !.effect = FALSE]
    /\ UNCHANGED <<trail, list, detail, editor, post, world>>

-----------------------------------------------------------------------------
(***************************************************************************)
(* Pages and what replaces them                                            *)
(***************************************************************************)

NoFilters == [n \in Names |-> Absent]
Blank == [filters |-> NoFilters, cursor |-> First]

EmptyList == [data |-> Absent, error |-> FALSE, auxiliary |-> FALSE]
EmptyDetail == [shown |-> Absent, failed |-> Absent]
EmptyPanel == [data |-> Absent, error |-> FALSE, loading |-> TRUE, gen |-> 0, key |-> DefaultKey, newest |-> 0]
NoPost == [at |-> "idle", kind |-> "none", op |-> 0, body |-> Absent, answer |-> Absent, tries |-> 0,
           asked |-> 0, told |-> "none", since |-> 0]

\* A page starts from nothing; a post that was sent travels on.
Mount(at, search, run) ==
    /\ tab' = [at |-> at, search |-> search, latest |-> search, picked |-> search.filters,
               effect |-> at \in {"runs", "run", "memory"}, run |-> run]
    /\ queue' = IdleQueue /\ reads' = {} /\ list' = EmptyList /\ detail' = EmptyDetail
    /\ panels' = [p \in Panels |-> EmptyPanel] /\ editor' = Absent /\ post' = NoPost
    /\ UNCHANGED <<trail, world>>

\* ErrorBoundary: the sign-in form for a 401, a failure card otherwise.
Boundary(at) == Mount(at, tab.latest, tab.run)

\* Links, deep links and the back button: any address.  The failure card
\* stays until Retry loads the address the links have left anew.
Open(at, search, run) ==
    /\ tab.at \in {"runs", "run", "memory", "failed"} /\ at # tab.at
    /\ Mount(at, search, run)

\* login loads the list anew.
Login == tab.at = "login" /\ Mount("runs", Blank, tab.run)

-----------------------------------------------------------------------------
(***************************************************************************)
(* useRunsLocation                                                         *)
(***************************************************************************)

\* The walk of the page number from a cursor along the trail; it ends at the
\* first page or at a cursor with no parent, unless it goes round in a circle.
Circles(cursor) ==
    LET steps == Cardinality(Cursors) + 1
        node[n \in 0..steps] ==
            IF n = 0 THEN cursor
            ELSE IF node[n - 1] \in DOMAIN trail THEN trail[node[n - 1]] ELSE First
    IN node[steps] # First

\* Every change starts from the latest one, rendered or not.
replaceSearch(filters, cursor) ==
    tab' = [tab EXCEPT !.latest = [filters |-> [n \in Names |-> IF n \in DOMAIN filters THEN filters[n]
                                                                 ELSE tab.latest.filters[n]],
                                   cursor |-> cursor],
                       !.picked = [n \in Names |-> IF n \in DOMAIN filters THEN filters[n] ELSE @[n]]]

updateFilter(name, value) ==
    /\ tab.at = "runs"
    /\ trail' = <<>>
    /\ replaceSearch([n \in {name} |-> value], First)
    /\ UNCHANGED <<queue, reads, list, detail, panels, editor, post, world>>

\* The pager works on the page that is shown and on the list it holds, which
\* may still be the one of another page.
openNextPage ==
    /\ tab.at = "runs" /\ tab.search = tab.latest
    /\ list.data # Absent /\ list.data.next # Absent
    /\ trail' = [c \in DOMAIN trail \cup {list.data.next} |->
                    IF c = list.data.next THEN tab.search.cursor ELSE trail[c]]
    /\ replaceSearch(<<>>, list.data.next)
    /\ UNCHANGED <<queue, reads, list, detail, panels, editor, post, world>>

openPreviousPage ==
    /\ tab.at = "runs" /\ tab.search = tab.latest
    /\ list.data # Absent /\ tab.search.cursor \in DOMAIN trail
    /\ replaceSearch(<<>>, trail[tab.search.cursor])
    /\ UNCHANGED <<trail, queue, reads, list, detail, panels, editor, post, world>>

\* The back button, within the list.
GoTo(search) ==
    /\ tab.at = "runs" /\ search # tab.latest
    /\ tab' = [tab EXCEPT !.latest = search, !.picked = search.filters]
    /\ UNCHANGED <<trail, queue, reads, list, detail, panels, editor, post, world>>

\* The new address is rendered; useMemo counts the pages, and never returns
\* when the trail leads in a circle.
Render ==
    /\ tab.at = "runs" /\ tab.search # tab.latest
    /\ IF Circles(tab.latest.cursor) THEN Boundary("hung")
       ELSE /\ tab' = [tab EXCEPT !.search = tab.latest, !.effect = TRUE]
            /\ UNCHANGED <<trail, queue, reads, list, detail, panels, editor, post, world>>

-----------------------------------------------------------------------------
(***************************************************************************)
(* Reads and their answers                                                 *)
(***************************************************************************)

\* The server handles a read; what the list holds has no version here.
Handle(r) ==
    /\ r \in reads /\ r.seen = Absent /\ r.what \notin {"list", "parked"}
    /\ reads' = (reads \ {r}) \cup {[r EXCEPT !.seen = world.revision]}
    /\ UNCHANGED <<tab, trail, queue, list, detail, panels, editor, post, world>>

Outcomes == {"ok", "failed", "denied"}

\* What an answer needs: a failure may come at any time.
Settles(r, outcome) == r \in reads /\ (outcome = "ok" => r.seen # Absent \/ r.what \in {"list", "parked"})

\* useRunsData: an answer counts while its query is the one rendered.
ListAnswer(r, outcome) ==
    /\ r.what \in {"list", "parked"} /\ Settles(r, outcome)
    /\ IF r.key = tab.search /\ outcome = "denied" THEN Boundary("login")
       ELSE IF r.key = tab.search /\ r.what = "list" /\ outcome = "failed" /\ list.data = Absent
       THEN Boundary("failed")
       ELSE /\ list' = IF r.key # tab.search THEN list
                       ELSE IF r.what = "parked" THEN [list EXCEPT !.auxiliary = outcome = "failed"]
                       ELSE IF outcome = "failed" THEN [list EXCEPT !.error = TRUE]
                       ELSE [list EXCEPT !.data = [search |-> r.key, next |-> Follow(r.key.cursor)],
                                         !.error = FALSE]
            /\ reads' = reads \ {r}
            /\ UNCHANGED <<tab, trail, queue, detail, panels, editor, post, world>>

\* useRunDetail: what is loaded carries the run it is about; any answer
\* replaces what was loaded before.  A missing run is told on the page itself.
DetailAnswer(r, outcome) ==
    /\ r.what = "run" /\ Settles(r, outcome)
    /\ IF r.key = tab.run /\ outcome = "denied" THEN Boundary("login")
       ELSE IF r.key = tab.run /\ outcome = "failed"
               /\ (detail.shown = Absent \/ detail.shown.run # tab.run)
       THEN Boundary("failed")
       ELSE /\ detail' = IF outcome = "ok"
                         THEN [shown |-> [run |-> r.key, version |-> r.seen], failed |-> Absent]
                         ELSE [detail EXCEPT !.failed = r.key]
            /\ reads' = reads \ {r}
            /\ UNCHANGED <<tab, trail, queue, list, panels, editor, post, world>>

\* Mutant: an answer counts whatever started since.
counts_Always(r) == TRUE

\* useResource and LatestRequestGuard: only the newest generation counts.
counts(r) == r.gen = panels[r.what].gen

\* What an answer that counts makes of its panel.
Answered(panel, r, outcome) ==
    IF outcome = "failed" THEN [panel EXCEPT !.error = TRUE, !.loading = FALSE]
    ELSE [panel EXCEPT !.data = [key |-> r.key, version |-> r.seen], !.error = FALSE, !.loading = FALSE,
                       !.newest = IF r.seen > @ THEN r.seen ELSE @]

PanelAnswer(r, outcome) ==
    /\ r.what \in Panels /\ Settles(r, outcome)
    /\ IF counts(r) /\ outcome = "denied" THEN Boundary("login")
       ELSE /\ panels' = IF ~counts(r) THEN panels
                         ELSE [panels EXCEPT ![r.what] = Answered(panels[r.what], r, outcome)]
            /\ reads' = reads \ {r}
            /\ UNCHANGED <<tab, trail, queue, list, detail, editor, post, world>>

\* changeOverviewRange reloads one panel outside the queue; opening another
\* revision clears the viewer first.
Rekeyed(panel, p, key) ==
    [Reloading(panel) EXCEPT !.key = key, !.data = IF p = "viewer" THEN Absent ELSE @,
                             !.error = @ /\ p # "viewer"]

Choose(p, key) ==
    /\ tab.at = "memory" /\ p \in {"overview", "viewer"} /\ panels[p].gen < MaxGenerations
    /\ panels' = [panels EXCEPT ![p] = Rekeyed(panels[p], p, key)]
    /\ reads' = reads \cup {Read(p, panels[p].gen + 1, key, 0)}
    /\ UNCHANGED <<tab, trail, queue, list, detail, editor, post, world>>

-----------------------------------------------------------------------------
(***************************************************************************)
(* The page of a run: another run, and decisions                           *)
(***************************************************************************)

\* RunJump: the page stays mounted and its load changes.
jumpToRun(run) ==
    /\ tab.at = "run" /\ run # tab.run
    /\ tab' = [tab EXCEPT !.run = run, !.effect = TRUE]
    /\ UNCHANGED <<trail, queue, reads, list, detail, panels, editor, post, world>>

\* AdminRunActionDialog: a decision that was accepted loads the run again,
\* beside the queue.
submitDecision ==
    /\ tab.at = "run" /\ detail.shown # Absent /\ detail.shown.run = tab.run
    /\ world.revision < MaxRevision
    /\ world' = [world EXCEPT !.revision = @ + 1]
    /\ reads' = reads \cup {Read("run", world.revision, tab.run, 0)}
    /\ UNCHANGED <<tab, trail, queue, list, detail, panels, editor, post>>

-----------------------------------------------------------------------------
(***************************************************************************)
(* useMemoryEditor and the changes of the memory page                      *)
(***************************************************************************)

busy == post.at # "idle"

\* The base is the revision shown when Edit was clicked; the catalog has one.
BeginEdit ==
    /\ tab.at = "memory" /\ panels["tree"].data # Absent /\ ~panels["tree"].loading
    /\ reads' = reads \cup {Read("content", 0, panels["tree"].data.version, 0)}
    /\ UNCHANGED <<tab, trail, queue, list, detail, panels, editor, post, world>>

ContentAnswer(r, outcome) ==
    /\ r.what = "content" /\ Settles(r, outcome)
    /\ IF outcome = "denied" THEN Boundary("login")
       ELSE /\ editor' = IF outcome = "failed" THEN editor
                         ELSE [base |-> r.key, files |-> "loaded", attempt |-> Absent, sent |-> {}]
            /\ reads' = reads \ {r}
            /\ UNCHANGED <<tab, trail, queue, list, detail, panels, post, world>>

changeFiles(text) ==
    /\ editor # Absent /\ text # editor.files
    /\ editor' = [editor EXCEPT !.files = text, !.sent = {}]
    /\ UNCHANGED <<tab, trail, queue, reads, list, detail, panels, post, world>>

\* Cancel, or discard; a commit under way is not stopped.
close ==
    /\ editor # Absent
    /\ editor' = Absent
    /\ UNCHANGED <<tab, trail, queue, reads, list, detail, panels, post, world>>

Send(kind, op, base) ==
    LET body == [op |-> op, base |-> base]
    IN /\ post' = [NoPost EXCEPT !.at = "sent", !.kind = kind, !.op = op, !.body = body, !.tries = 1]
       /\ world' = [world EXCEPT !.travelling = @ \cup {body}, !.used = IF op > @ THEN op ELSE @]

\* A retry of unchanged content keeps its operation id; changed content is
\* another operation.
OperationOf ==
    IF editor.attempt # Absent
    THEN IF editor.attempt.content = editor.files THEN editor.attempt.op ELSE world.used + 1
    ELSE world.used + 1

commit ==
    /\ tab.at = "memory" /\ editor # Absent /\ ~busy
    /\ editor.files # "loaded" /\ OperationOf <= MaxOperations
    /\ editor' = [editor EXCEPT !.attempt = [content |-> editor.files, op |-> OperationOf],
                                !.sent = @ \cup {OperationOf}]
    /\ Send("edit", OperationOf, editor.base)
    /\ UNCHANGED <<tab, trail, queue, reads, list, detail, panels>>

\* controlAction and restore: a new operation on what is shown.
restore ==
    /\ tab.at = "memory" /\ panels["tree"].data # Absent /\ ~busy
    /\ world.used < MaxOperations
    /\ Send("restore", world.used + 1, panels["tree"].data.version)
    /\ UNCHANGED <<tab, trail, queue, reads, list, detail, panels, editor>>

\* The Memory Catalog's promise: an operation it knows is answered as it was;
\* another is accepted if it expects the active revision.
Receive(body) ==
    LET known == \E o \in world.accepted : o.op = body.op
        accepted == known \/ body.base = world.revision
    IN /\ body \in world.travelling
       /\ ~known /\ accepted => world.revision < MaxRevision
       /\ world' = [world EXCEPT !.travelling = @ \ {body},
                                 !.revision = IF accepted /\ ~known THEN @ + 1 ELSE @,
                                 !.accepted = IF accepted /\ ~known
                                              THEN @ \cup {[op |-> body.op, revision |-> world.revision + 1]}
                                              ELSE @]
       /\ post' = IF post.at = "sent" /\ post.op = body.op
                  THEN [post EXCEPT !.answer = IF accepted THEN "done" ELSE "conflict"] ELSE post
       /\ UNCHANGED <<tab, trail, queue, reads, list, detail, panels, editor>>

RevisionOfOperation(op) == CHOOSE n \in 1..MaxRevision : [op |-> op, revision |-> n] \in world.accepted

\* Success closes whatever editor is open, and the page is busy until a
\* refresh asked for now has settled.
Succeed ==
    /\ post.at = "sent" /\ post.answer = "done"
    /\ request
    /\ post' = [post EXCEPT !.at = "refreshing", !.asked = queue.attempt, !.told = "done",
                            !.since = RevisionOfOperation(post.op)]
    /\ editor' = IF post.kind = "edit" THEN Absent ELSE editor
    /\ UNCHANGED <<tab, trail, list, detail, world>>

Refreshed ==
    /\ post.at = "refreshing" /\ post.asked \notin queue.active \cup queue.waiting
    /\ post' = [post EXCEPT !.at = "idle"]
    /\ UNCHANGED <<tab, trail, queue, reads, list, detail, panels, editor, world>>

\* An HTTP failure is an answer: it is told and not retried.
Conflicted ==
    /\ post.at = "sent" /\ post.answer = "conflict"
    /\ post' = [post EXCEPT !.at = "idle", !.told = "conflict"]
    /\ UNCHANGED <<tab, trail, queue, reads, list, detail, panels, editor, world>>

Errs(outcome) ==
    /\ post.at = "sent" /\ outcome \in {"failed", "denied"}
    /\ IF outcome = "denied" THEN Boundary("login")
       ELSE /\ post' = [post EXCEPT !.at = "idle", !.told = "failed"]
            /\ UNCHANGED <<tab, trail, queue, reads, list, detail, panels, editor, world>>

\* apiPost: a transport failure, before or after the server took the request,
\* is retried once with the same body.
Lose ==
    /\ post.at = "sent"
    /\ IF post.tries = 1
       THEN /\ post' = [post EXCEPT !.tries = 2, !.answer = Absent]
            /\ world' = [world EXCEPT !.travelling = @ \cup {post.body}]
       ELSE post' = [post EXCEPT !.at = "idle", !.told = "failed"] /\ UNCHANGED world
    /\ UNCHANGED <<tab, trail, queue, reads, list, detail, panels, editor>>

\* A request that never reaches the server, and others' changes.
Vanish ==
    \E body \in world.travelling :
       /\ world' = [world EXCEPT !.travelling = @ \ {body}]
       /\ UNCHANGED <<tab, trail, queue, reads, list, detail, panels, editor, post>>

OthersChange ==
    /\ world.revision < MaxRevision
    /\ world' = [world EXCEPT !.revision = @ + 1]
    /\ UNCHANGED <<tab, trail, queue, reads, list, detail, panels, editor, post>>

-----------------------------------------------------------------------------
BrowserInit(at) ==
    /\ tab = [at |-> at, search |-> Blank, latest |-> Blank, picked |-> NoFilters, effect |-> TRUE,
              run |-> CHOOSE r \in RunIds : TRUE]
    /\ trail = <<>> /\ queue = IdleQueue /\ reads = {} /\ list = EmptyList /\ detail = EmptyDetail
    /\ panels = [p \in Panels |-> EmptyPanel] /\ editor = Absent /\ post = NoPost
    /\ world = [revision |-> 1, accepted |-> {}, travelling |-> {}, used |-> 0]

ListStep ==
    \/ \E n \in Names, v \in Values \cup {Absent} : updateFilter(n, v)
    \/ openNextPage
    \/ openPreviousPage
    \/ \E c \in Cursors \cup {First} : GoTo([tab.latest EXCEPT !.cursor = c])
    \/ Render

MemoryStep ==
    \/ \E p \in Panels, k \in Keys : Choose(p, k)
    \/ BeginEdit
    \/ \E text \in Texts : changeFiles(text)
    \/ close
    \/ commit
    \/ restore
    \/ \E body \in world.travelling : Receive(body)
    \/ Succeed
    \/ Refreshed
    \/ Conflicted
    \/ \E outcome \in Outcomes : Errs(outcome)
    \/ Lose
    \/ Vanish

ReadAnswered == \E r \in reads :
    \/ \E outcome \in Outcomes : ListAnswer(r, outcome)
    \/ \E outcome \in Outcomes \cup {"missing"} : DetailAnswer(r, outcome)
    \/ \E outcome \in Outcomes : PanelAnswer(r, outcome)
    \/ \E outcome \in Outcomes : ContentAnswer(r, outcome)

BrowserNext ==
    \/ Refresh
    \/ RefreshEffect
    \/ drain
    \/ \E at \in {"runs", "run", "memory"}, c \in Cursors \cup {First}, run \in RunIds :
          Open(at, [Blank EXCEPT !.cursor = c], run)
    \/ Login
    \/ ListStep
    \/ \E r \in reads : Handle(r)
    \/ ReadAnswered
    \/ \E run \in RunIds : jumpToRun(run)
    \/ submitDecision
    \/ MemoryStep
    \/ OthersChange

\* A tab opened at any address.
BrowserSpec == (\E at \in {"runs", "run", "memory"} : BrowserInit(at)) /\ [][BrowserNext]_browserVars

-----------------------------------------------------------------------------
\* Who asked for a refresh is answered by an attempt that began after it
\* asked, and nobody is left waiting.
QueueIsFair ==
    /\ queue.running => \A w \in queue.active : w < queue.attempt
    /\ ~queue.running => queue.active = {} /\ queue.waiting = {}

\* The list at rest is the one of the address, with every filter that was
\* picked, or its failure is shown.
ListIsCurrent ==
    /\ tab.search = tab.latest => tab.search.filters = tab.picked
    /\ tab.at = "runs" /\ ~tab.effect /\ ~queue.running =>
          list.error \/ (list.data # Absent /\ list.data.search = tab.search)

\* A panel never goes back to an older read, and a settled one shows what is
\* chosen.
PanelsAreCurrent ==
    \A p \in Panels :
       /\ panels[p].data # Absent => panels[p].data.version = panels[p].newest
       /\ ~panels[p].loading /\ ~panels[p].error =>
             panels[p].data # Absent /\ panels[p].data.key = panels[p].key

\* Once a change is told done and the page is no longer busy, the page shows
\* it or says that it could not be read; a conflict is told about content
\* none of whose operations was accepted.
ChangesAreTold ==
    /\ post.at = "idle" /\ post.told = "done" =>
          \A p \in Resources \ {"overview"} :
             panels[p].error \/ (panels[p].data # Absent /\ panels[p].data.version >= post.since)
    /\ post.told = "conflict" /\ editor # Absent =>
          (post.op \in editor.sent => \A o \in world.accepted : o.op \notin editor.sent)

\* What the console shows and tells holds, however its reads, retries and
\* renders interleave: shared/refresh-queue.ts RefreshQueue, shared/resource.ts
\* useResource, useRunsData.ts, useRunsLocation.ts replaceSearch,
\* useMemoryEditor.ts commit and api-client.ts apiPost.
ConsoleIsCurrent == QueueIsFair /\ ListIsCurrent /\ PanelsAreCurrent /\ ChangesAreTold

\* "remember which cursor each page was opened from in order to offer a
\* previous page" (useRunsLocation.ts:38): the trail leads from every page
\* back to the first, so counting the pages ends.
TrailLeadsBack == tab.at # "hung"
=============================================================================
