---------------------------- MODULE MemoryProofs ----------------------------
(***************************************************************************)
(* The console's tab: what it shows and tells is current, for any number   *)
(* of refreshes, reads, operations and changes of others, however late the *)
(* reads arrive and wherever the operator goes meanwhile.  The Memory      *)
(* Catalog behind it: its history is sound, for any number of jobs,        *)
(* operations, attempts and lost answers.                                  *)
(***************************************************************************)
EXTENDS ConsoleBrowser, MemoryCatalog, FiniteSetTheorems, TLAPS

Pages == {"runs", "run", "memory"}

TabState ==
  [at: Pages \cup {"login", "failed", "hung"}, search: Searches, latest: Searches,
   picked: [Names -> Values \cup {Absent}], effect: BOOLEAN, run: RunIds]

QueueState ==
  [running: BOOLEAN, queued: BOOLEAN, active: SUBSET Nat, waiting: SUBSET Nat, attempt: Nat]

ReadState ==
  [what: Panels \cup {"list", "parked", "run", "content"}, gen: Nat,
   key: Searches \cup RunIds \cup PanelKeys \cup Nat, serves: Nat, seen: Nat \cup {Absent}]

ListState ==
  [data: {Absent} \cup [search: Searches, next: Cursors \cup {Absent}],
   error: BOOLEAN, auxiliary: BOOLEAN]

PanelState ==
  [data: {Absent} \cup [key: PanelKeys, version: Nat], error: BOOLEAN, loading: BOOLEAN,
   gen: Nat, key: PanelKeys, newest: Nat]

EditAttempt == [content: Texts \cup {"loaded"}, op: Nat]

EditorState ==
  [base: Nat, files: Texts \cup {"loaded"}, attempt: {Absent} \cup EditAttempt, sent: SUBSET Nat]

Body == [op: Nat, base: Nat]

PostState ==
  [at: {"idle", "sent", "refreshing"}, kind: {"none", "edit", "restore"}, op: Nat,
   body: {Absent} \cup Body, answer: {Absent, "done", "conflict"}, tries: 0..2, asked: Nat,
   told: {"none", "done", "conflict", "failed"}, since: Nat]

WorldState ==
  [revision: 0..MaxRevision, accepted: SUBSET [op: Nat, revision: Nat],
   travelling: SUBSET Body, used: Nat]

(* What the tab and the server hold.                                       *)
BrowserTyped ==
  /\ tab \in TabState
  /\ DOMAIN trail \subseteq Cursors
  /\ \A c \in DOMAIN trail : trail[c] \in Cursors \cup {First}
  /\ queue \in QueueState
  /\ reads \subseteq ReadState
  /\ list \in ListState
  /\ panels \in [Panels -> PanelState]
  /\ editor \in {Absent} \cup EditorState
  /\ post \in PostState
  /\ world \in WorldState

(* Who waits asked before the next attempt.                                *)
QueueInv ==
  /\ \A w \in queue.waiting : w <= queue.attempt
  /\ \A w \in queue.active : w < queue.attempt
  /\ ~queue.running => queue.active = {} /\ queue.waiting = {} /\ ~queue.queued
  /\ ~queue.queued => queue.waiting = {}

(* Only pages with a queue use it, and only the memory page posts.         *)
PageInv ==
  /\ tab.effect \/ queue.running => tab.at \in Pages
  /\ post.at # "idle" \/ post.told # "none" => tab.at = "memory"
  /\ tab.latest.filters = tab.picked

(* The list is the one of the address, or says that it is not.             *)
Listed == list.error \/ (list.data # Absent /\ list.data.search = tab.search)

(* A read of the list that the attempt under way waits for.                *)
ListIsRead ==
  \E r \in reads : r.what = "list" /\ r.key = tab.search /\ r.serves = queue.attempt

(* Between renders a list that is not the one of the address is being read *)
(* by the attempt under way, or will be by the next.                       *)
ListInv ==
  tab.at = "runs" /\ ~tab.effect => Listed \/ (queue.running /\ (queue.queued \/ ListIsRead))

(* One read of a panel counts, it is of what was chosen, and it saw no     *)
(* less than the panel has shown.                                          *)
ReadsInv ==
  /\ \A r \in reads : r.what \in Panels =>
       /\ r.gen <= panels[r.what].gen
       /\ counts(r) => r.key = panels[r.what].key
       /\ counts(r) /\ r.seen # Absent => r.seen >= panels[r.what].newest
  /\ \A r, q \in reads : r.what \in Panels /\ r.what = q.what /\ r.gen = q.gen => r = q
  /\ \A r \in reads : r.what = "content" => r.key \in Nat /\ r.key <= world.revision
  /\ \A r \in reads : r.seen # Absent => r.seen <= world.revision
  /\ \A p \in Panels : panels[p].newest <= world.revision

(* The panel shows the change, or that it could not be read.               *)
Shown(p) == panels[p].error \/ (panels[p].data # Absent /\ panels[p].data.version >= post.since)

(* No read that counts saw the server before the change.                   *)
Fresh(p) ==
  \A r \in reads : r.what = p /\ counts(r) /\ r.seen # Absent => r.seen >= post.since

(* The read of the panel that the attempt under way waits for.             *)
PanelIsRead(p) ==
  \E r \in reads : r.what = p /\ counts(r) /\ r.serves = queue.attempt

(* A change that is told done is on its way to the panels: its own attempt *)
(* has still to begin, or is reading them, or has ended.                   *)
ToldInv ==
  post.told = "done" =>
    /\ post.at # "sent" /\ post.since <= world.revision
    /\ post.at = "idle" => post.asked \notin queue.active \cup queue.waiting
    /\ post.asked \notin queue.waiting =>
         /\ post.asked < queue.attempt
         /\ \A p \in Resources \ {"overview"} :
              Fresh(p) /\ (Shown(p) \/ (post.asked \in queue.active /\ PanelIsRead(p)))

(* What is, or may be again, on its way to the server.                     *)
Sent == world.travelling \cup (IF post.at = "sent" THEN {post.body} ELSE {})

(* An operation is one request, a refused one stays refused, and a session *)
(* sends its content under one operation.                                  *)
OperationsInv ==
  /\ \A b \in Sent : b \in Body /\ b.op <= world.used /\ b.base <= world.revision
  /\ \A b, c \in Sent : b.op = c.op => b = c
  /\ \A o \in world.accepted : o.op <= world.used /\ o.revision \in 1..world.revision
  /\ post.op <= world.used
  /\ post.at = "sent" => post.body.op = post.op /\ post.told = "none"
  /\ post.answer = "done" => \E o \in world.accepted : o.op = post.op
  /\ post.answer = "conflict" \/ post.told = "conflict" =>
       /\ \A o \in world.accepted : o.op # post.op
       /\ \A b \in Sent : b.op = post.op => b.base < world.revision
  /\ editor # Absent =>
       /\ editor.base <= world.revision
       /\ editor.sent # {} => /\ editor.attempt # Absent /\ editor.sent = {editor.attempt.op}
                             /\ editor.attempt.content = editor.files
       /\ editor.attempt # Absent =>
            /\ editor.attempt.op <= world.used
            /\ \A b \in Sent : b.op = editor.attempt.op => b.base = editor.base

(* The inductive invariant.                                                *)
BrowserInv ==
  /\ BrowserTyped /\ QueueInv /\ PageInv /\ ListInv /\ ReadsInv /\ PanelsAreCurrent
  /\ ToldInv /\ OperationsInv

----------------------------------------------------------------------------
(* A page that is mounted starts from nothing.                             *)
LEMMA MountStarts ==
  ASSUME BrowserInv, NEW at \in Pages \cup {"login", "failed", "hung"}, NEW search \in Searches,
         NEW run \in RunIds, Mount(at, search, run)
  PROVE  BrowserInv'
<1>1. BrowserTyped'
  <2>1. tab' \in TabState
    BY DEF Mount, TabState, Searches, Pages
  <2>2. queue' \in QueueState /\ reads' \subseteq ReadState /\ editor' \in {Absent} \cup EditorState
    BY DEF Mount, QueueState, IdleQueue
  <2>3. list' \in ListState /\ panels' \in [Panels -> PanelState]
    BY DEF Mount, ListState, EmptyList, PanelState, EmptyPanel, PanelKeys
  <2>4. post' \in PostState
    BY DEF Mount, PostState, NoPost
  <2> QED BY <2>1, <2>2, <2>3, <2>4 DEF Mount, BrowserInv, BrowserTyped
<1>2. QueueInv' /\ PageInv' /\ ListInv'
  BY DEF Mount, QueueInv, IdleQueue, PageInv, NoPost, ListInv
<1>3. ReadsInv' /\ PanelsAreCurrent'
  <2>1. \A p \in Panels : panels'[p].newest = 0 /\ panels'[p].data = Absent /\ panels'[p].loading
    BY DEF Mount, EmptyPanel
  <2>2. world'.revision >= 0
    BY BrowserConstants DEF Mount, BrowserInv, BrowserTyped, WorldState
  <2> QED BY <2>1, <2>2 DEF Mount, ReadsInv, PanelsAreCurrent
<1>4. ToldInv'
  BY DEF Mount, ToldInv, NoPost
<1>5. OperationsInv'
  <2>1. Sent' \subseteq Sent
    BY DEF Mount, Sent, NoPost
  <2>2. world' = world /\ editor' = Absent /\ post' = NoPost
    BY DEF Mount
  <2>3. world.used \in Nat
    BY DEF BrowserInv, BrowserTyped, WorldState
  <2> QED BY <2>1, <2>2, <2>3, AbsentIsNothing DEF BrowserInv, OperationsInv, NoPost
<1> QED BY <1>1, <1>2, <1>3, <1>4, <1>5 DEF BrowserInv

(* What an attempt reads when it begins.                                   *)
LEMMA LoadReads ==
  ASSUME BrowserInv, tab.at \in Pages, NEW n \in Nat
  PROVE  /\ load(n) \subseteq ReadState
         /\ \A r \in load(n) : /\ r.serves = n /\ r.seen = Absent /\ r.what # "content"
                               /\ r.what \in Panels => tab.at = "memory" /\ r.what \in Resources
                                    /\ r.gen = panels[r.what].gen + 1 /\ r.key = panels[r.what].key
         /\ \A r, q \in load(n) : r.what \in Panels /\ r.what = q.what => r = q
         /\ tab.at = "runs" => \E r \in load(n) : r.what = "list" /\ r.key = tab.search
         /\ tab.at = "memory" => \A p \in Resources : \E r \in load(n) :
               r.what = p /\ r.gen = panels[p].gen + 1
<1>0. /\ tab.search \in Searches /\ tab.run \in RunIds
      /\ \A p \in Panels : panels[p].gen \in Nat /\ panels[p].key \in PanelKeys
  BY DEF BrowserInv, BrowserTyped, TabState, PanelState
<1>1. CASE tab.at = "runs"
  <2>1. load(n) = {Read(what, 0, tab.search, n) : what \in {"list", "parked"}}
    BY <1>1 DEF load
  <2>2. \A what \in {"list", "parked"} : Read(what, 0, tab.search, n) \in ReadState
    BY <1>0 DEF Read, ReadState
  <2> QED BY <1>1, <2>1, <2>2, BrowserConstants DEF Read, Panels
<1>2. CASE tab.at = "run"
  <2>1. load(n) = {Read("run", 0, tab.run, n)}
    BY <1>2 DEF load
  <2>2. Read("run", 0, tab.run, n) \in ReadState
    BY <1>0 DEF Read, ReadState
  <2> QED BY <1>2, <2>1, <2>2, BrowserConstants DEF Read, Panels
<1>3. CASE tab.at = "memory"
  <2>1. load(n) = {Read(p, panels[p].gen + 1, panels[p].key, n) : p \in Resources}
    BY <1>3 DEF load
  <2>2. \A p \in Resources : Read(p, panels[p].gen + 1, panels[p].key, n) \in ReadState
    BY <1>0 DEF Read, ReadState, Panels
  <2>3. \A p \in Resources : p \in Panels /\ p # "content"
    BY BrowserConstants DEF Panels
  <2>4. ASSUME NEW r \in load(n)
        PROVE  \E p \in Resources : r = Read(p, panels[p].gen + 1, panels[p].key, n) /\ r.what = p
    BY <2>1 DEF Read
  <2>5. \A r \in load(n) : /\ r.what \in Resources /\ r.gen = panels[r.what].gen + 1
                           /\ r.key = panels[r.what].key /\ r.serves = n /\ r.seen = Absent
                           /\ r = Read(r.what, panels[r.what].gen + 1, panels[r.what].key, n)
    BY <2>4 DEF Read
  <2>6. ASSUME NEW p \in Resources
        PROVE  \E r \in load(n) : r.what = p /\ r.gen = panels[p].gen + 1
    <3>1. Read(p, panels[p].gen + 1, panels[p].key, n) \in load(n)
      BY <2>1
    <3>2. /\ Read(p, panels[p].gen + 1, panels[p].key, n).what = p
          /\ Read(p, panels[p].gen + 1, panels[p].key, n).gen = panels[p].gen + 1
      BY DEF Read
    <3> QED BY <3>1, <3>2
  <2>7. load(n) \subseteq ReadState
    BY <2>2, <2>5
  <2>8. \A r, q \in load(n) : r.what = q.what => r = q
    BY <2>5
  <2> QED BY <1>3, <2>3, <2>5, <2>6, <2>7, <2>8
<1> QED BY <1>1, <1>2, <1>3 DEF Pages

(* A panel that is read again keeps what it shows.                         *)
LEMMA ReloadingKeeps ==
  ASSUME NEW x \in PanelState
  PROVE  /\ Reloading(x) \in PanelState /\ x.gen \in Nat
         /\ Reloading(x).data = x.data /\ Reloading(x).newest = x.newest
         /\ Reloading(x).key = x.key /\ Reloading(x).error = x.error
         /\ Reloading(x).gen = x.gen + 1 /\ Reloading(x).loading
<1>1. x.gen \in Nat /\ x.gen + 1 \in Nat
  BY DEF PanelState
<1>2. Reloading(x) \in PanelState
  BY <1>1 DEF Reloading, PanelState
<1> QED BY <1>1, <1>2 DEF Reloading, PanelState

(* An attempt begins: its reads are the newest of their panels.            *)
LEMMA RunBegins ==
  ASSUME BrowserInv, tab.at \in Pages, NEW waiters \in SUBSET Nat, Run(waiters),
         \A w \in waiters : w <= queue.attempt, world'.revision = world.revision
  PROVE  /\ queue' \in QueueState /\ reads' \subseteq ReadState
         /\ panels' \in [Panels -> PanelState]
         /\ QueueInv' /\ ReadsInv' /\ PanelsAreCurrent'
<1> DEFINE n == queue.attempt + 1
<1>0. n \in Nat /\ queue.attempt \in Nat
  BY DEF BrowserInv, BrowserTyped, QueueState
<1>1. queue' \in QueueState /\ QueueInv'
  BY <1>0 DEF Run, QueueState, QueueInv
<1>2. reads' = reads \cup load(n) /\ reads' \subseteq ReadState
  BY <1>0, LoadReads DEF Run, BrowserInv, BrowserTyped
<1>3. \A p \in Panels : panels[p] \in PanelState
  BY DEF BrowserInv, BrowserTyped
<1>s. \A p \in Panels : panels'[p] = IF tab.at = "memory" /\ p \in Resources
                                     THEN Reloading(panels[p]) ELSE panels[p]
  BY DEF Run
<1>4. panels' \in [Panels -> PanelState]
  <2>1. \A p \in Panels : panels'[p] \in PanelState
    BY <1>3, <1>s, ReloadingKeeps
  <2> QED BY <2>1 DEF Run
<1>5. \A p \in Panels :
        /\ panels'[p].data = panels[p].data /\ panels'[p].newest = panels[p].newest
        /\ panels'[p].key = panels[p].key /\ panels'[p].error = panels[p].error
        /\ panels'[p].gen = panels[p].gen + (IF tab.at = "memory" /\ p \in Resources THEN 1 ELSE 0)
        /\ ~panels'[p].loading => ~panels[p].loading
        /\ panels[p].gen \in Nat
  BY <1>3, <1>s, ReloadingKeeps
<1>6. PanelsAreCurrent'
  BY <1>5 DEF BrowserInv, PanelsAreCurrent
<1>7. ReadsInv'
  <2> USE <1>2, <1>5, <1>0, LoadReads
  <2>1. ASSUME NEW r \in reads', r.what \in Panels
        PROVE  /\ r.gen <= panels'[r.what].gen
               /\ counts(r)' => r.key = panels'[r.what].key
               /\ counts(r)' /\ r.seen # Absent => r.seen >= panels'[r.what].newest
    <3>0. r.gen \in Nat
      BY <2>1 DEF ReadState
    <3>1. CASE r \in reads
      BY <3>0, <3>1, <2>1 DEF BrowserInv, ReadsInv, counts
    <3>2. CASE r \in load(n)
      BY <3>0, <3>2, <2>1 DEF BrowserInv, ReadsInv, counts
    <3> QED BY <3>1, <3>2
  <2>2. ASSUME NEW r \in reads', NEW q \in reads', r.what \in Panels, r.what = q.what, r.gen = q.gen
        PROVE  r = q
    <3>0. r.gen \in Nat /\ q.gen \in Nat
      BY <2>2 DEF ReadState
    <3>1. r \in reads => r.gen <= panels[r.what].gen
      BY <2>2 DEF BrowserInv, ReadsInv
    <3>2. q \in reads => q.gen <= panels[r.what].gen
      BY <2>2 DEF BrowserInv, ReadsInv
    <3>3. r \in reads /\ q \in reads => r = q
      BY <2>2 DEF BrowserInv, ReadsInv
    <3> QED BY <3>0, <3>1, <3>2, <3>3, <2>2
  <2>3. \A r \in reads' : r.what = "content" => r.key \in Nat /\ r.key <= world'.revision
    BY DEF BrowserInv, ReadsInv
  <2>4. \A r \in reads' : r.seen # Absent => r.seen <= world'.revision
    BY DEF BrowserInv, ReadsInv
  <2>5. \A p \in Panels : panels'[p].newest <= world'.revision
    BY DEF BrowserInv, ReadsInv
  <2> QED BY <2>1, <2>2, <2>3, <2>4, <2>5 DEF ReadsInv
<1> QED BY <1>1, <1>2, <1>4, <1>6, <1>7

(* A new attempt reads every panel of the memory page anew: what counts    *)
(* from now on has not been handled yet.                                   *)
LEMMA RunIsFresh ==
  ASSUME BrowserInv, tab.at = "memory", NEW waiters, Run(waiters), NEW p \in Resources
  PROVE  /\ \A r \in reads' : r.what = p /\ counts(r)' => r.seen = Absent
         /\ \E r \in reads' : r.what = p /\ counts(r)' /\ r.serves = queue'.attempt
<1> DEFINE n == queue.attempt + 1
<1>0. n \in Nat /\ p \in Panels /\ tab.at \in Pages /\ panels[p] \in PanelState
  BY DEF BrowserInv, BrowserTyped, QueueState, Panels, Pages
<1>1. reads' = reads \cup load(n) /\ queue'.attempt = n
  BY DEF Run
<1>2. panels'[p].gen = panels[p].gen + 1 /\ panels[p].gen \in Nat
  BY <1>0, ReloadingKeeps DEF Run
<1>3. \A r \in reads : r.what = p => r.gen <= panels[p].gen /\ r.gen \in Nat
  BY <1>0 DEF BrowserInv, BrowserTyped, ReadsInv, ReadState
<1>4. \A r \in load(n) : r.seen = Absent /\ r.serves = n
  BY <1>0, LoadReads
<1>5. \E r \in load(n) : r.what = p /\ r.gen = panels[p].gen + 1
  BY <1>0, LoadReads
<1> QED BY <1>1, <1>2, <1>3, <1>4, <1>5 DEF counts

(* Asking for a refresh begins an attempt, or makes sure of another one.   *)
LEMMA RequestAsks ==
  ASSUME BrowserInv, tab.at \in Pages, request, world'.revision = world.revision
  PROVE  /\ queue' \in QueueState /\ reads' \subseteq ReadState
         /\ panels' \in [Panels -> PanelState]
         /\ QueueInv' /\ ReadsInv' /\ PanelsAreCurrent' /\ queue'.running
<1>0. queue.attempt \in Nat /\ queue \in QueueState
  BY DEF BrowserInv, BrowserTyped, QueueState
<1>1. CASE queue.running
  <2>1. queue' = [queue EXCEPT !.queued = TRUE, !.waiting = @ \cup {queue.attempt}]
        /\ UNCHANGED <<reads, panels>>
    BY <1>1 DEF request
  <2>2. queue' \in QueueState
    BY <1>0, <2>1 DEF QueueState
  <2>3. QueueInv' /\ queue'.running
    BY <1>0, <1>1, <2>1 DEF QueueState, BrowserInv, QueueInv
  <2>4. ReadsInv' /\ PanelsAreCurrent'
    BY <2>1 DEF BrowserInv, ReadsInv, PanelsAreCurrent, counts
  <2> QED BY <2>1, <2>2, <2>3, <2>4 DEF BrowserInv, BrowserTyped
<1>2. CASE ~queue.running
  <2>1. Run({queue.attempt})
    BY <1>2 DEF request
  <2>2. queue'.running
    BY <2>1 DEF Run
  <2> QED BY <1>0, <2>1, <2>2, RunBegins
<1> QED BY <1>1, <1>2

(* The list is read by what was asked for.                                 *)
LEMMA RequestLists ==
  ASSUME BrowserInv, request, tab'.at = tab.at, tab'.search = tab.search
  PROVE  ListInv'
<1>1. CASE queue.running
  BY <1>1 DEF request, ListInv, BrowserInv, BrowserTyped, QueueState
<1>2. CASE ~queue.running /\ tab.at = "runs"
  <2>1. Run({queue.attempt}) /\ queue.attempt \in Nat
    BY <1>2 DEF request, BrowserInv, BrowserTyped, QueueState
  <2>2. \E r \in load(queue.attempt + 1) :
           r.what = "list" /\ r.key = tab.search /\ r.serves = queue.attempt + 1
    BY <1>2, <2>1, LoadReads DEF Pages
  <2> QED BY <2>1, <2>2 DEF Run, ListInv, ListIsRead
<1> QED BY <1>1, <1>2 DEF ListInv

(* A change that was told stays on its way when an attempt begins.         *)
LEMMA RunTells ==
  ASSUME BrowserInv, Run(queue.waiting), UNCHANGED <<post, world>>,
         \A p \in Resources : ~PanelIsRead(p)
  PROVE  ToldInv'
<1> SUFFICES ASSUME post.told = "done" PROVE ToldInv'
  BY DEF ToldInv
<1>0. /\ tab.at = "memory" /\ tab.at \in Pages /\ queue.attempt \in Nat /\ post.asked \in Nat
      /\ Resources \subseteq Panels
  BY DEF BrowserInv, PageInv, Pages, BrowserTyped, QueueState, PostState, Panels
<1>1. queue'.waiting = {} /\ queue'.active = queue.waiting /\ queue'.attempt = queue.attempt + 1
  BY DEF Run
<1>2. post.at # "sent" /\ post.since <= world.revision
  BY DEF BrowserInv, ToldInv
<1>3. post.at = "idle" => post.asked \notin queue.waiting
  BY DEF BrowserInv, ToldInv
<1>4. post.asked < queue'.attempt
  <2>1. post.asked \in queue.waiting => post.asked <= queue.attempt
    BY DEF BrowserInv, QueueInv
  <2>2. post.asked \notin queue.waiting => post.asked < queue.attempt
    BY DEF BrowserInv, ToldInv
  <2> QED BY <1>0, <1>1, <2>1, <2>2
<1>5. ASSUME NEW p \in Resources \ {"overview"}
      PROVE  Fresh(p)' /\ (Shown(p)' \/ (post.asked \in queue'.active /\ PanelIsRead(p)'))
  <2>1. Fresh(p)' /\ PanelIsRead(p)'
    BY <1>0, RunIsFresh DEF Fresh, PanelIsRead
  <2>2. panels[p] \in PanelState /\ panels'[p] = Reloading(panels[p])
    BY <1>0 DEF BrowserInv, BrowserTyped, Run
  <2>3. Shown(p) => Shown(p)'
    BY <2>2, ReloadingKeeps DEF Shown
  <2>4. post.asked \in queue.waiting \/ Shown(p)
    BY DEF BrowserInv, ToldInv
  <2> QED BY <1>1, <2>1, <2>3, <2>4
<1> QED BY <1>1, <1>2, <1>3, <1>4, <1>5 DEF ToldInv

(* The same when a refresh is asked for, by somebody else.                 *)
LEMMA RequestTells ==
  ASSUME BrowserInv, request, UNCHANGED post, world'.revision = world.revision, tab'.at = tab.at
  PROVE  ToldInv'
<1> SUFFICES ASSUME post.told = "done" PROVE ToldInv'
  BY DEF ToldInv
<1>0. /\ queue.attempt \in Nat /\ post.asked \in Nat
  BY DEF BrowserInv, BrowserTyped, QueueState, PostState
<1>1. CASE queue.running
  <2>1. /\ queue'.waiting = queue.waiting \cup {queue.attempt} /\ queue'.active = queue.active
        /\ queue'.attempt = queue.attempt /\ UNCHANGED <<reads, panels>>
    BY <1>1 DEF request, BrowserInv, BrowserTyped, QueueState
  <2>2. post.asked \notin queue.waiting => post.asked # queue.attempt
    BY <1>0 DEF BrowserInv, ToldInv
  <2> QED BY <2>1, <2>2 DEF BrowserInv, ToldInv, Fresh, Shown, PanelIsRead, counts
<1>2. CASE ~queue.running
  <2>1. Run({queue.attempt}) /\ queue.waiting = {} /\ queue.active = {}
    BY <1>2 DEF request, BrowserInv, QueueInv
  <2>2. post.asked < queue.attempt /\ tab.at = "memory" /\ tab.at \in Pages
    BY <2>1 DEF BrowserInv, ToldInv, PageInv, Pages
  <2>3. /\ queue'.waiting = {} /\ queue'.active = {queue.attempt}
        /\ queue'.attempt = queue.attempt + 1
    BY <2>1 DEF Run
  <2>4. ASSUME NEW p \in Resources \ {"overview"} PROVE Fresh(p)' /\ Shown(p)'
    <3>1. Fresh(p)'
      BY <2>1, <2>2, RunIsFresh DEF Fresh
    <3>2. panels[p] \in PanelState /\ panels'[p] = Reloading(panels[p])
      BY <2>1, <2>2 DEF BrowserInv, BrowserTyped, Run, Panels
    <3>3. Shown(p)
      BY <2>1 DEF BrowserInv, ToldInv
    <3> QED BY <3>1, <3>2, <3>3, ReloadingKeeps DEF Shown
  <2> QED BY <1>0, <2>1, <2>2, <2>3, <2>4 DEF BrowserInv, ToldInv
<1> QED BY <1>1, <1>2

----------------------------------------------------------------------------
(* What is said of operations depends on nothing but them.                 *)
LEMMA OperationsStay ==
  ASSUME BrowserInv, UNCHANGED <<post, editor, world>>
  PROVE  OperationsInv'
  BY DEF BrowserInv, OperationsInv, Sent

(* Refreshes by the button, the timer, or because the page changed.        *)
LEMMA RefreshIsCurrent ==
  ASSUME BrowserInv, Refresh \/ RefreshEffect
  PROVE  BrowserInv'
<1>1. /\ request /\ UNCHANGED <<trail, list, detail, editor, post, world>>
      /\ tab' = tab \/ tab' = [tab EXCEPT !.effect = FALSE]
  BY DEF Refresh, RefreshEffect
<1>2. tab.at \in Pages
  BY DEF Refresh, RefreshEffect, Pages, BrowserInv, PageInv
<1>3. /\ tab' \in TabState /\ tab'.at = tab.at /\ tab'.search = tab.search
      /\ tab'.latest = tab.latest /\ tab'.picked = tab.picked
  BY <1>1 DEF BrowserInv, BrowserTyped, TabState
<1>4. /\ queue' \in QueueState /\ reads' \subseteq ReadState /\ panels' \in [Panels -> PanelState]
      /\ QueueInv' /\ ReadsInv' /\ PanelsAreCurrent'
  BY <1>1, <1>2, RequestAsks
<1>5. ListInv' /\ ToldInv' /\ OperationsInv'
  BY <1>1, <1>3, RequestLists, RequestTells, OperationsStay
<1>6. PageInv'
  BY <1>1, <1>2, <1>3 DEF BrowserInv, PageInv
<1>7. BrowserTyped'
  BY <1>1, <1>3, <1>4 DEF BrowserInv, BrowserTyped
<1> QED BY <1>4, <1>5, <1>6, <1>7 DEF BrowserInv

(* The end of an attempt, and the next one if somebody asked.              *)
LEMMA DrainIsCurrent ==
  ASSUME BrowserInv, drain
  PROVE  BrowserInv'
<1>0. /\ queue.running /\ \A r \in reads : r.serves # queue.attempt
      /\ UNCHANGED <<tab, trail, list, detail, editor, post, world>>
      /\ tab.at \in Pages /\ queue.attempt \in Nat /\ queue.waiting \in SUBSET Nat
      /\ ~ListIsRead /\ \A p \in Resources : ~PanelIsRead(p)
  BY DEF drain, BrowserInv, PageInv, BrowserTyped, QueueState, ListIsRead, PanelIsRead
<1>1. OperationsInv'
  BY <1>0, OperationsStay
<1>2. CASE queue.queued
  <2>1. Run(queue.waiting)
    BY <1>2 DEF drain
  <2>2. /\ queue' \in QueueState /\ reads' \subseteq ReadState /\ panels' \in [Panels -> PanelState]
        /\ QueueInv' /\ ReadsInv' /\ PanelsAreCurrent'
    BY <1>0, <2>1, RunBegins DEF BrowserInv, QueueInv
  <2>3. ToldInv'
    BY <1>0, <2>1, RunTells
  <2>4. PageInv'
    BY <1>0 DEF BrowserInv, PageInv
  <2>5. ListInv'
    <3>1. CASE tab.at = "runs"
      <4>1. \E r \in load(queue.attempt + 1) :
               r.what = "list" /\ r.key = tab.search /\ r.serves = queue.attempt + 1
        BY <1>0, <3>1, LoadReads
      <4> QED BY <1>0, <2>1, <4>1 DEF Run, ListInv, ListIsRead
    <3> QED BY <1>0, <3>1 DEF ListInv
  <2>6. BrowserTyped'
    BY <1>0, <2>2 DEF BrowserInv, BrowserTyped
  <2> QED BY <1>1, <2>2, <2>3, <2>4, <2>5, <2>6 DEF BrowserInv
<1>3. CASE ~queue.queued
  <2>1. /\ queue' = [IdleQueue EXCEPT !.attempt = queue.attempt] /\ UNCHANGED <<reads, panels>>
    BY <1>3 DEF drain
  <2>2. /\ ~queue'.running /\ ~queue'.queued /\ queue'.active = {} /\ queue'.waiting = {}
        /\ queue'.attempt = queue.attempt /\ queue' \in QueueState
    BY <1>0, <2>1 DEF IdleQueue, QueueState
  <2>3. BrowserTyped' /\ QueueInv' /\ PageInv'
    BY <1>0, <2>1, <2>2 DEF BrowserInv, BrowserTyped, QueueInv, PageInv
  <2>4. ReadsInv' /\ PanelsAreCurrent'
    BY <1>0, <2>1 DEF BrowserInv, ReadsInv, PanelsAreCurrent, counts
  <2>5. ListInv'
    BY <1>0, <1>3, <2>1 DEF BrowserInv, ListInv, Listed
  <2>6. ToldInv'
    <3> SUFFICES ASSUME post.told = "done" PROVE ToldInv'
      BY <1>0 DEF ToldInv
    <3>1. post.at # "sent" /\ post.since <= world.revision
      BY DEF BrowserInv, ToldInv
    <3>2. ASSUME post.asked \notin queue.waiting, NEW p \in Resources \ {"overview"}
          PROVE  Fresh(p)' /\ Shown(p)'
      BY <1>0, <2>1, <3>2 DEF BrowserInv, ToldInv, Fresh, Shown, counts
    <3>3. queue.waiting = {}
      BY <1>0, <1>3 DEF BrowserInv, QueueInv
    <3> QED BY <1>0, <2>2, <3>1, <3>2, <3>3 DEF BrowserInv, ToldInv
  <2> QED BY <1>1, <2>3, <2>4, <2>5, <2>6 DEF BrowserInv
<1> QED BY <1>2, <1>3

----------------------------------------------------------------------------
(* What is said of the panels depends on nothing but their reads.          *)
LEMMA PanelsStay ==
  ASSUME BrowserInv, UNCHANGED <<reads, panels>>, world'.revision >= world.revision,
         world'.revision \in Nat
  PROVE  ReadsInv' /\ PanelsAreCurrent'
<1>0. world.revision \in Nat /\ reads \subseteq ReadState /\ panels \in [Panels -> PanelState]
  BY BrowserConstants DEF BrowserInv, BrowserTyped, WorldState
<1>1. \A r \in reads : r.what = "content" => r.key \in Nat /\ r.key <= world'.revision
  BY <1>0 DEF BrowserInv, ReadsInv
<1>2. \A r \in reads : r.seen # Absent => r.seen <= world'.revision
  BY <1>0 DEF BrowserInv, ReadsInv, ReadState
<1>3. \A p \in Panels : panels[p].newest <= world'.revision
  BY <1>0 DEF BrowserInv, ReadsInv, PanelState
<1> QED BY <1>1, <1>2, <1>3 DEF BrowserInv, ReadsInv, PanelsAreCurrent, counts

(* What is said of a told change depends on its refresh alone.             *)
LEMMA TellingStays ==
  ASSUME BrowserInv, UNCHANGED <<queue, reads, panels, post>>, world'.revision >= world.revision,
         world'.revision \in Nat
  PROVE  ToldInv'
<1>0. world.revision \in Nat /\ post.since \in Nat
  BY BrowserConstants DEF BrowserInv, BrowserTyped, WorldState, PostState
<1> QED BY <1>0 DEF BrowserInv, ToldInv, Fresh, Shown, PanelIsRead, counts

(* The address changes: what is rendered changes with an effect.           *)
LEMMA AddressIsCurrent ==
  ASSUME BrowserInv, tab' \in TabState, tab'.at = tab.at, tab'.latest.filters = tab'.picked,
         \/ tab'.search = tab.search /\ tab'.effect = tab.effect
         \/ tab.at \in Pages /\ tab'.effect,
         DOMAIN trail' \subseteq Cursors, \A c \in DOMAIN trail' : trail'[c] \in Cursors \cup {First},
         UNCHANGED <<queue, reads, list, detail, panels, editor, post, world>>
  PROVE  BrowserInv'
<1>0. world'.revision \in Nat /\ world'.revision >= world.revision
  BY BrowserConstants DEF BrowserInv, BrowserTyped, WorldState
<1>1. BrowserTyped' /\ QueueInv'
  BY DEF BrowserInv, BrowserTyped, QueueInv
<1>2. PageInv' /\ ListInv'
  BY DEF BrowserInv, PageInv, ListInv, Listed, ListIsRead
<1> QED BY <1>0, <1>1, <1>2, PanelsStay, TellingStays, OperationsStay DEF BrowserInv

(* Changes of the address, rendering it, and another run.                  *)
LEMMA ListStepIsCurrent ==
  ASSUME BrowserInv, ListStep \/ \E run \in RunIds : jumpToRun(run)
  PROVE  BrowserInv'
<1>0. /\ tab \in TabState /\ tab.latest \in Searches /\ tab.search \in Searches
      /\ tab.latest.filters = tab.picked /\ tab.picked \in [Names -> Values \cup {Absent}]
      /\ tab.run \in RunIds
      /\ DOMAIN trail \subseteq Cursors /\ \A c \in DOMAIN trail : trail[c] \in Cursors \cup {First}
  BY DEF BrowserInv, PageInv, BrowserTyped, TabState
<1>1. ASSUME NEW filters, NEW cursor \in Cursors \cup {First}, replaceSearch(filters, cursor),
             \A n \in Names \cap DOMAIN filters : filters[n] \in Values \cup {Absent}
      PROVE  /\ tab' \in TabState /\ tab'.at = tab.at /\ tab'.latest.filters = tab'.picked
             /\ tab'.search = tab.search /\ tab'.effect = tab.effect
  <2> DEFINE fs == [n \in Names |-> IF n \in DOMAIN filters THEN filters[n]
                                    ELSE tab.latest.filters[n]]
             ps == [n \in Names |-> IF n \in DOMAIN filters THEN filters[n] ELSE tab.picked[n]]
             new == [filters |-> fs, cursor |-> cursor]
  <2>1. fs = ps /\ fs \in [Names -> Values \cup {Absent}]
    BY <1>0, <1>1
  <2>2. new \in Searches
    BY <1>1, <2>1 DEF Searches
  <2>3. tab' = [tab EXCEPT !.latest = new, !.picked = ps]
    BY <1>0, <1>1 DEF replaceSearch, TabState
  <2> HIDE DEF fs, ps
  <2>4. tab' \in TabState
    BY <1>0, <2>1, <2>2, <2>3 DEF TabState
  <2> QED BY <1>0, <2>1, <2>3, <2>4 DEF TabState
<1>2. ASSUME NEW n \in Names, NEW v \in Values \cup {Absent}, updateFilter(n, v) PROVE BrowserInv'
  <2>1. replaceSearch([m \in {n} |-> v], First) /\ trail' = <<>>
        /\ UNCHANGED <<queue, reads, list, detail, panels, editor, post, world>>
    BY <1>2 DEF updateFilter
  <2>2. DOMAIN trail' = {}
    BY <2>1
  <2> QED BY <1>1, <2>1, <2>2, AddressIsCurrent
<1>3. CASE openNextPage
  <2>1. /\ replaceSearch(<<>>, list.data.next) /\ list.data # Absent /\ list.data.next # Absent
        /\ trail' = [c \in DOMAIN trail \cup {list.data.next} |->
                      IF c = list.data.next THEN tab.search.cursor ELSE trail[c]]
        /\ UNCHANGED <<queue, reads, list, detail, panels, editor, post, world>>
    BY <1>3 DEF openNextPage
  <2>2. list.data.next \in Cursors
    BY <2>1 DEF BrowserInv, BrowserTyped, ListState
  <2>3. tab.search.cursor \in Cursors \cup {First}
    BY <1>0 DEF Searches
  <2> QED BY <1>0, <1>1, <2>1, <2>2, <2>3, AddressIsCurrent
<1>4. CASE openPreviousPage
  <2>1. /\ replaceSearch(<<>>, trail[tab.search.cursor]) /\ tab.search.cursor \in DOMAIN trail
        /\ UNCHANGED <<trail, queue, reads, list, detail, panels, editor, post, world>>
    BY <1>4 DEF openPreviousPage
  <2> QED BY <1>0, <1>1, <2>1, AddressIsCurrent
<1>5. ASSUME NEW c \in Cursors \cup {First}, GoTo([tab.latest EXCEPT !.cursor = c])
      PROVE  BrowserInv'
  <2> DEFINE new == [tab.latest EXCEPT !.cursor = c]
  <2>1. new \in Searches /\ new.filters = tab.picked
    BY <1>0 DEF Searches
  <2>2. /\ tab' = [tab EXCEPT !.latest = new, !.picked = new.filters]
        /\ UNCHANGED <<trail, queue, reads, list, detail, panels, editor, post, world>>
    BY <1>5 DEF GoTo
  <2> HIDE DEF new
  <2>3. /\ tab' \in TabState /\ tab'.at = tab.at /\ tab'.latest.filters = tab'.picked
        /\ tab'.search = tab.search /\ tab'.effect = tab.effect
    BY <1>0, <2>1, <2>2 DEF TabState
  <2> QED BY <1>0, <2>2, <2>3, AddressIsCurrent
<1>6. CASE Render
  <2>1. CASE Boundary("hung")
    BY <1>0, <2>1, MountStarts DEF Boundary
  <2>2. CASE /\ tab' = [tab EXCEPT !.search = tab.latest, !.effect = TRUE] /\ tab.at = "runs"
             /\ UNCHANGED <<trail, queue, reads, list, detail, panels, editor, post, world>>
    <3>1. /\ tab' \in TabState /\ tab'.at = tab.at /\ tab'.latest.filters = tab'.picked
          /\ tab.at \in Pages /\ tab'.effect
      BY <1>0, <2>2 DEF TabState, Pages
    <3> QED BY <1>0, <2>2, <3>1, AddressIsCurrent
  <2> QED BY <1>6, <2>1, <2>2 DEF Render
<1>7. ASSUME NEW run \in RunIds, jumpToRun(run) PROVE BrowserInv'
  <2>1. /\ tab' = [tab EXCEPT !.run = run, !.effect = TRUE] /\ tab.at = "run"
        /\ UNCHANGED <<trail, queue, reads, list, detail, panels, editor, post, world>>
    BY <1>7 DEF jumpToRun
  <2>2. /\ tab' \in TabState /\ tab'.at = tab.at /\ tab'.latest.filters = tab'.picked
        /\ tab.at \in Pages /\ tab'.effect
    BY <1>0, <2>1 DEF TabState, Pages
  <2> QED BY <1>0, <2>1, <2>2, AddressIsCurrent
<1> QED BY <1>2, <1>3, <1>4, <1>5, <1>6, <1>7 DEF ListStep

----------------------------------------------------------------------------
(* The server handles a read: it sees all there is.                        *)
LEMMA HandleIsCurrent ==
  ASSUME BrowserInv, NEW r \in reads, Handle(r)
  PROVE  BrowserInv'
<1> DEFINE h == [r EXCEPT !.seen = world.revision]
<1>0. /\ r \in ReadState /\ world.revision \in Nat /\ r.what \notin {"list", "parked"}
      /\ r.seen = Absent
      /\ reads' = (reads \ {r}) \cup {h}
      /\ UNCHANGED <<tab, trail, queue, list, detail, panels, editor, post, world>>
  BY BrowserConstants DEF BrowserInv, BrowserTyped, WorldState, Handle
<1>1. /\ h \in ReadState /\ h.what = r.what /\ h.gen = r.gen /\ h.key = r.key
      /\ h.serves = r.serves /\ h.seen = world.revision
  BY <1>0 DEF ReadState
<1> HIDE DEF h
<1>2. BrowserTyped' /\ QueueInv' /\ PageInv'
  BY <1>0, <1>1 DEF BrowserInv, BrowserTyped, QueueInv, PageInv
<1>3. ListInv'
  <2>1. ListIsRead => ListIsRead'
    BY <1>0 DEF ListIsRead
  <2> QED BY <1>0, <2>1 DEF BrowserInv, ListInv, Listed
<1>4. ReadsInv' /\ PanelsAreCurrent'
  <2>1. PanelsAreCurrent'
    BY <1>0 DEF BrowserInv, PanelsAreCurrent
  <2>2. \A q \in reads' : q = h \/ q \in reads \ {r}
    BY <1>0
  <2>3. \A p \in Panels : panels[p].newest <= world.revision /\ panels[p].newest \in Nat
    BY DEF BrowserInv, ReadsInv, BrowserTyped, PanelState
  <2>4. ASSUME NEW q \in reads', q.what \in Panels
        PROVE  /\ q.gen <= panels[q.what].gen
               /\ counts(q) => q.key = panels[q.what].key
               /\ counts(q) /\ q.seen # Absent => q.seen >= panels[q.what].newest
    BY <1>0, <1>1, <2>2, <2>3, <2>4 DEF BrowserInv, ReadsInv, counts
  <2>5. ASSUME NEW q \in reads', NEW s \in reads', q.what \in Panels, q.what = s.what, q.gen = s.gen
        PROVE  q = s
    BY <1>0, <1>1, <2>2, <2>5 DEF BrowserInv, ReadsInv
  <2>6. ASSUME NEW q \in reads'
        PROVE  /\ q.what = "content" => q.key \in Nat /\ q.key <= world.revision
               /\ q.seen # Absent => q.seen <= world.revision
    BY <1>0, <1>1, <2>2 DEF BrowserInv, ReadsInv
  <2> QED BY <1>0, <2>1, <2>3, <2>4, <2>5, <2>6 DEF ReadsInv, counts
<1>5. ToldInv'
  <2>1. ASSUME post.told = "done", NEW p \in Resources, Fresh(p) PROVE Fresh(p)'
    <3>1. post.since <= world.revision
      BY <2>1 DEF BrowserInv, ToldInv
    <3>2. post.since \in Nat
      BY DEF BrowserInv, BrowserTyped, PostState
    <3> QED BY <1>0, <1>1, <2>1, <3>1, <3>2 DEF Fresh, counts
  <2>2. ASSUME NEW p \in Resources, PanelIsRead(p) PROVE PanelIsRead(p)'
    <3>1. PICK q \in reads : q.what = p /\ counts(q) /\ q.serves = queue.attempt
      BY <2>2 DEF PanelIsRead
    <3>2. CASE q = r
      BY <1>0, <1>1, <3>1, <3>2 DEF PanelIsRead, counts
    <3>3. CASE q # r
      BY <1>0, <3>1, <3>3 DEF PanelIsRead, counts
    <3> QED BY <3>2, <3>3
  <2>3. \A p \in Resources : Shown(p) => Shown(p)'
    BY <1>0 DEF Shown
  <2> QED BY <1>0, <2>1, <2>2, <2>3 DEF BrowserInv, ToldInv
<1> QED BY <1>0, <1>2, <1>3, <1>4, <1>5, OperationsStay DEF BrowserInv

(* An answer that is no panel's leaves the panels and their reads alone.   *)
LEMMA OtherAnswerKeeps ==
  ASSUME BrowserInv, NEW r \in reads, r.what \notin Panels, reads' = reads \ {r},
         UNCHANGED <<queue, panels, post, world>>
  PROVE  /\ reads' \subseteq ReadState /\ ReadsInv' /\ PanelsAreCurrent' /\ ToldInv'
         /\ r.what # "list" /\ tab'.search = tab.search => (ListIsRead => ListIsRead')
<1>1. reads' \subseteq ReadState /\ ReadsInv' /\ PanelsAreCurrent'
  BY DEF BrowserInv, BrowserTyped, ReadsInv, PanelsAreCurrent, counts
<1>2. ToldInv'
  <2>1. \A p \in Resources : /\ Fresh(p) => Fresh(p)'
                             /\ PanelIsRead(p) => PanelIsRead(p)'
                             /\ Shown(p) => Shown(p)'
    BY DEF Fresh, PanelIsRead, Shown, counts, Panels
  <2> QED BY <2>1 DEF BrowserInv, ToldInv
<1>3. ASSUME r.what # "list", tab'.search = tab.search, ListIsRead PROVE ListIsRead'
  BY <1>3 DEF ListIsRead
<1> QED BY <1>1, <1>2, <1>3

(* An answer of the list counts for the address it was asked for.          *)
LEMMA ListAnswerIsCurrent ==
  ASSUME BrowserInv, NEW r \in reads, NEW outcome \in Outcomes, ListAnswer(r, outcome)
  PROVE  BrowserInv'
<1>0. /\ tab.latest \in Searches /\ tab.run \in RunIds /\ tab.search \in Searches
      /\ r.what \in {"list", "parked"} /\ r.what \notin Panels /\ list \in ListState
  BY BrowserConstants DEF BrowserInv, BrowserTyped, TabState, ListAnswer, Panels
<1>1. CASE Boundary("login") \/ Boundary("failed")
  BY <1>0, <1>1, MountStarts DEF Boundary
<1>2. CASE /\ ~(r.key = tab.search /\ outcome = "denied")
           /\ list' = IF r.key # tab.search THEN list
                       ELSE IF r.what = "parked" THEN [list EXCEPT !.auxiliary = outcome = "failed"]
                       ELSE IF outcome = "failed" THEN [list EXCEPT !.error = TRUE]
                       ELSE [list EXCEPT !.data = [search |-> r.key, next |-> Follow(r.key.cursor)],
                                         !.error = FALSE]
           /\ reads' = reads \ {r}
           /\ UNCHANGED <<tab, trail, queue, detail, panels, editor, post, world>>
  <2> DEFINE got == [search |-> r.key, next |-> Follow(r.key.cursor)]
  <2>1. r.key = tab.search => got \in [search: Searches, next: Cursors \cup {Absent}] /\ got # Absent
    <3> SUFFICES ASSUME r.key = tab.search
                 PROVE  got \in [search: Searches, next: Cursors \cup {Absent}] /\ got # Absent
      OBVIOUS
    <3>1. tab.search.cursor \in Cursors \cup {First}
      BY <1>0 DEF Searches
    <3>2. Follow(r.key.cursor) \in Cursors \cup {Absent}
      BY <3>1, BrowserConstants
    <3> QED BY <1>0, <3>2, AbsentIsNothing
  <2>2. got.search = r.key
    OBVIOUS
  <2> HIDE DEF got
  <2>3. list' \in ListState
    BY <1>0, <1>2, <2>1 DEF ListState, got
  <2>4. reads' \subseteq ReadState /\ ReadsInv' /\ PanelsAreCurrent' /\ ToldInv'
    BY <1>0, <1>2, OtherAnswerKeeps
  <2>5. BrowserTyped' /\ QueueInv' /\ PageInv'
    BY <1>2, <2>3, <2>4 DEF BrowserInv, BrowserTyped, QueueInv, PageInv
  <2>6. ListInv'
    <3>1. CASE r.key # tab.search
      <4>1. ListIsRead => ListIsRead'
        BY <1>2, <3>1 DEF ListIsRead
      <4> QED BY <1>2, <3>1, <4>1 DEF BrowserInv, ListInv, Listed
    <3>2. CASE r.key = tab.search /\ r.what = "parked"
      <4>1. ListIsRead => ListIsRead'
        BY <1>2, <3>2 DEF ListIsRead
      <4>2. Listed => Listed'
        BY <1>0, <1>2, <3>2 DEF Listed, ListState
      <4> QED BY <1>2, <4>1, <4>2 DEF BrowserInv, ListInv
    <3>3. CASE r.key = tab.search /\ r.what = "list"
      <4>1. CASE outcome = "failed"
        BY <1>0, <1>2, <3>3, <4>1 DEF ListInv, Listed, ListState
      <4>2. CASE outcome # "failed"
        <5>1. list'.data = got
          BY <1>0, <1>2, <3>3, <4>2 DEF ListState, got
        <5> QED BY <1>2, <2>1, <2>2, <3>3, <5>1 DEF ListInv, Listed
      <4> QED BY <4>1, <4>2
    <3> QED BY <1>0, <3>1, <3>2, <3>3
  <2> QED BY <1>2, <2>4, <2>5, <2>6, OperationsStay DEF BrowserInv
<1> QED BY <1>1, <1>2 DEF ListAnswer

(* An answer of a run concerns the page of the run only.                   *)
LEMMA DetailAnswerIsCurrent ==
  ASSUME BrowserInv, NEW r \in reads, NEW outcome, DetailAnswer(r, outcome)
  PROVE  BrowserInv'
<1>0. /\ tab.latest \in Searches /\ tab.run \in RunIds
      /\ r.what = "run" /\ r.what \notin Panels
  BY BrowserConstants DEF BrowserInv, BrowserTyped, TabState, DetailAnswer, Panels
<1>1. CASE Boundary("login") \/ Boundary("failed")
  BY <1>0, <1>1, MountStarts DEF Boundary
<1>2. CASE /\ reads' = reads \ {r}
           /\ UNCHANGED <<tab, trail, queue, list, panels, editor, post, world>>
  <2>1. reads' \subseteq ReadState /\ ReadsInv' /\ PanelsAreCurrent' /\ ToldInv'
    BY <1>0, <1>2, OtherAnswerKeeps
  <2>2. ListIsRead => ListIsRead'
    BY <1>0, <1>2, OtherAnswerKeeps
  <2>3. BrowserTyped' /\ QueueInv' /\ PageInv' /\ ListInv'
    BY <1>2, <2>1, <2>2 DEF BrowserInv, BrowserTyped, QueueInv, PageInv, ListInv, Listed
  <2> QED BY <1>2, <2>1, <2>3, OperationsStay DEF BrowserInv
<1> QED BY <1>1, <1>2 DEF DetailAnswer

(* An answer of a panel counts if nothing newer was asked.                 *)
LEMMA PanelAnswerIsCurrent ==
  ASSUME BrowserInv, NEW r \in reads, NEW outcome \in Outcomes, PanelAnswer(r, outcome)
  PROVE  BrowserInv'
<1> DEFINE p == r.what
           old == panels[p]
           got == [key |-> r.key, version |-> r.seen]
           new == Answered(old, r, outcome)
<1>0. /\ tab.latest \in Searches /\ tab.run \in RunIds /\ r \in ReadState
      /\ p \in Panels /\ p # "list" /\ old \in PanelState
      /\ p \notin {"list", "parked"}
  BY BrowserConstants DEF BrowserInv, BrowserTyped, TabState, PanelAnswer, Panels
<1>1. CASE Boundary("login")
  BY <1>0, <1>1, MountStarts DEF Boundary
<1>2. CASE /\ ~(counts(r) /\ outcome = "denied")
           /\ panels' = IF ~counts(r) THEN panels ELSE [panels EXCEPT ![p] = new]
           /\ reads' = reads \ {r}
           /\ UNCHANGED <<tab, trail, queue, list, detail, editor, post, world>>
  <2>1. counts(r) /\ outcome # "failed" =>
          /\ r.seen \in Nat /\ r.key \in PanelKeys /\ r.key = old.key /\ r.seen >= old.newest
          /\ r.seen <= world.revision
          /\ got \in [key: PanelKeys, version: Nat] /\ got # Absent
    <3> SUFFICES ASSUME counts(r), outcome # "failed"
                 PROVE  /\ r.seen \in Nat /\ r.key \in PanelKeys /\ r.key = old.key
                        /\ r.seen >= old.newest /\ r.seen <= world.revision
                        /\ got \in [key: PanelKeys, version: Nat] /\ got # Absent
      OBVIOUS
    <3>1. outcome = "ok"
      BY <1>2 DEF Outcomes
    <3>2. r.seen # Absent
      BY <1>0, <3>1 DEF PanelAnswer, Settles
    <3>3. r.seen \in Nat /\ old.key \in PanelKeys
      BY <1>0, <3>2 DEF ReadState, PanelState
    <3>4. r.key = old.key /\ r.seen >= old.newest /\ r.seen <= world.revision
      BY <1>0, <3>2 DEF BrowserInv, ReadsInv
    <3> QED BY <3>3, <3>4, AbsentIsNothing
  <2>2. got.key = r.key /\ got.version = r.seen
    OBVIOUS
  <2>3. panels' = IF counts(r) THEN [panels EXCEPT ![p] = new] ELSE panels
    BY <1>2
  <2> HIDE DEF got
  <2>4. counts(r) =>
          /\ new \in PanelState /\ new.gen = old.gen /\ new.key = old.key /\ ~new.loading
          /\ outcome = "failed" => new.error /\ new.data = old.data /\ new.newest = old.newest
          /\ outcome # "failed" => ~new.error /\ new.data = got /\ new.newest = r.seen
    <3> SUFFICES ASSUME counts(r)
                 PROVE  /\ new \in PanelState /\ new.gen = old.gen /\ new.key = old.key /\ ~new.loading
                        /\ outcome = "failed" => new.error /\ new.data = old.data /\ new.newest = old.newest
                        /\ outcome # "failed" => ~new.error /\ new.data = got /\ new.newest = r.seen
      OBVIOUS
    <3>0. old.newest \in Nat
      BY <1>0 DEF PanelState
    <3>1. CASE outcome = "failed"
      BY <1>0, <3>1 DEF PanelState, Answered
    <3>2. CASE outcome # "failed"
      <4>1. (IF r.seen > old.newest THEN r.seen ELSE old.newest) = r.seen
        BY <2>1, <3>0, <3>2
      <4>2. new = [old EXCEPT !.data = got, !.error = FALSE, !.loading = FALSE, !.newest = r.seen]
        BY <3>2, <4>1 DEF Answered, got
      <4> QED BY <1>0, <2>1, <3>2, <4>2 DEF PanelState
    <3> QED BY <3>1, <3>2
  <2> HIDE DEF new
  <2>5. panels' \in [Panels -> PanelState]
    BY <1>0, <2>3, <2>4 DEF BrowserInv, BrowserTyped
  <2>6. /\ counts(r) => panels'[p] = new
        /\ \A q \in Panels : q # p \/ ~counts(r) => panels'[q] = panels[q]
    BY <1>0, <2>3 DEF BrowserInv, BrowserTyped
  <2>7. \A q \in Panels : panels'[q].gen = panels[q].gen /\ panels'[q].key = panels[q].key
    BY <2>4, <2>6
  <2>8. BrowserTyped' /\ QueueInv' /\ PageInv'
    BY <1>2, <2>5 DEF BrowserInv, BrowserTyped, QueueInv, PageInv
  <2>9. ListInv'
    <3>1. ListIsRead => ListIsRead'
      BY <1>0, <1>2 DEF ListIsRead
    <3> QED BY <1>2, <3>1 DEF BrowserInv, ListInv, Listed
  <2>10. PanelsAreCurrent'
    <3> SUFFICES ASSUME NEW q \in Panels
                 PROVE  /\ panels'[q].data # Absent => panels'[q].data.version = panels'[q].newest
                        /\ ~panels'[q].loading /\ ~panels'[q].error =>
                              panels'[q].data # Absent /\ panels'[q].data.key = panels'[q].key
      BY DEF PanelsAreCurrent
    <3>1. CASE q = p /\ counts(r)
      <4>1. CASE outcome = "failed"
        BY <1>0, <2>4, <2>6, <3>1, <4>1 DEF BrowserInv, PanelsAreCurrent
      <4>2. CASE outcome # "failed"
        BY <1>0, <2>1, <2>2, <2>4, <2>6, <3>1, <4>2
      <4> QED BY <4>1, <4>2
    <3>2. CASE ~(q = p /\ counts(r))
      BY <2>6, <3>2 DEF BrowserInv, PanelsAreCurrent
    <3> QED BY <3>1, <3>2
  <2>11. ReadsInv'
    <3>1. ASSUME NEW q \in reads', q.what \in Panels
          PROVE  /\ q.gen <= panels'[q.what].gen
                 /\ counts(q)' => q.key = panels'[q.what].key
                 /\ counts(q)' /\ q.seen # Absent => q.seen >= panels'[q.what].newest
      <4>1. q \in reads /\ q # r
        BY <1>2, <3>1
      <4>2. counts(q)' <=> counts(q)
        BY <2>7, <3>1 DEF counts
      <4>3. counts(q) => q.what # p \/ ~counts(r)
        BY <1>0, <4>1, <3>1 DEF BrowserInv, ReadsInv, counts
      <4> QED BY <2>6, <2>7, <3>1, <4>1, <4>2, <4>3 DEF BrowserInv, ReadsInv
    <3>2. ASSUME NEW q \in Panels PROVE panels'[q].newest <= world'.revision
      <4>1. panels[q].newest <= world.revision
        BY DEF BrowserInv, ReadsInv
      <4> QED BY <1>2, <2>1, <2>4, <2>6, <4>1
    <3> QED BY <1>2, <3>1, <3>2 DEF BrowserInv, ReadsInv
  <2>12. ToldInv'
    <3> SUFFICES ASSUME post.told = "done" PROVE ToldInv'
      BY <1>2 DEF ToldInv
    <3>1. ASSUME NEW q \in Resources \ {"overview"}, Fresh(q),
                 Shown(q) \/ (post.asked \in queue.active /\ PanelIsRead(q))
          PROVE  Fresh(q)' /\ (Shown(q)' \/ (post.asked \in queue.active /\ PanelIsRead(q)'))
      <4>0. q \in Panels
        BY DEF Panels
      <4>1. Fresh(q)'
        BY <1>2, <2>7, <3>1, <4>0 DEF Fresh, counts
      <4>2. CASE q = p /\ counts(r)
        <5>1. CASE outcome = "failed"
          BY <1>0, <2>4, <2>6, <4>1, <4>2, <5>1 DEF Shown
        <5>2. CASE outcome # "failed"
          <6>1. r.seen >= post.since
            BY <2>1, <3>1, <4>2, <5>2, AbsentIsNothing DEF Fresh
          <6> QED BY <1>0, <1>2, <2>1, <2>2, <2>4, <2>6, <4>1, <4>2, <5>2, <6>1 DEF Shown
        <5> QED BY <5>1, <5>2
      <4>3. CASE ~(q = p /\ counts(r))
        <5>1. Shown(q) => Shown(q)'
          BY <1>2, <2>6, <4>0, <4>3 DEF Shown
        <5>2. PanelIsRead(q) => PanelIsRead(q)'
          BY <1>2, <2>7, <4>0, <4>3 DEF PanelIsRead, counts
        <5> QED BY <3>1, <4>1, <5>1, <5>2
      <4> QED BY <4>2, <4>3
    <3> QED BY <1>2, <3>1 DEF BrowserInv, ToldInv
  <2> QED BY <1>2, <2>8, <2>9, <2>10, <2>11, <2>12, OperationsStay DEF BrowserInv
<1> QED BY <1>1, <1>2 DEF PanelAnswer

(* Another range of the overview, or another revision in the viewer.       *)
LEMMA ChooseIsCurrent ==
  ASSUME BrowserInv, NEW p \in Panels, NEW key \in Keys, Choose(p, key)
  PROVE  BrowserInv'
<1> DEFINE old == panels[p]
           new == Rekeyed(old, p, key)
           asked == Read(p, old.gen + 1, key, 0)
<1>0. /\ p \in {"overview", "viewer"} /\ old \in PanelState /\ panels' = [panels EXCEPT ![p] = new]
      /\ reads' = reads \cup {asked}
      /\ UNCHANGED <<tab, trail, queue, list, detail, editor, post, world>>
  <2>1. old \in PanelState
    BY DEF BrowserInv, BrowserTyped
  <2>2. panels' = [panels EXCEPT ![p] = new]
    BY DEF Choose
  <2> QED BY <2>1, <2>2 DEF Choose
<1>1. /\ new \in PanelState /\ new.gen = old.gen + 1 /\ old.gen \in Nat /\ new.key = key
      /\ new.newest = old.newest /\ new.loading /\ (new.data = old.data \/ new.data = Absent)
  <2>1. Reloading(old) \in PanelState
    BY <1>0, ReloadingKeeps
  <2>2. key \in PanelKeys
    BY DEF PanelKeys
  <2>3. new \in PanelState
    BY <2>1, <2>2 DEF PanelState, Rekeyed
  <2>4. /\ new.gen = Reloading(old).gen /\ new.key = key /\ new.newest = Reloading(old).newest
        /\ new.loading = Reloading(old).loading
        /\ (new.data = Reloading(old).data \/ new.data = Absent)
    BY <2>1 DEF PanelState, Rekeyed
  <2> QED BY <1>0, <2>3, <2>4, ReloadingKeeps
<1>2. asked \in ReadState
  BY <1>1 DEF Read, ReadState, PanelKeys
<1>3. /\ asked.what = p /\ asked.gen = old.gen + 1 /\ asked.key = key /\ asked.seen = Absent
  BY DEF Read
<1> HIDE DEF new, asked
<1>4. panels' \in [Panels -> PanelState] /\ reads' \subseteq ReadState
  BY <1>0, <1>1, <1>2 DEF BrowserInv, BrowserTyped
<1>5. panels'[p] = new /\ \A q \in Panels \ {p} : panels'[q] = panels[q]
  BY <1>0 DEF BrowserInv, BrowserTyped
<1>6. BrowserTyped' /\ QueueInv' /\ PageInv'
  BY <1>0, <1>4 DEF BrowserInv, BrowserTyped, QueueInv, PageInv
<1>7. ListInv'
  BY <1>0 DEF BrowserInv, ListInv, Listed, ListIsRead
<1>8. PanelsAreCurrent'
  BY <1>1, <1>5 DEF BrowserInv, PanelsAreCurrent
<1>9. ReadsInv'
  <2>0. \A q \in reads : q.gen \in Nat
    BY DEF BrowserInv, BrowserTyped, ReadState
  <2>1. ASSUME NEW q \in reads', q.what \in Panels
        PROVE  /\ q.gen <= panels'[q.what].gen
               /\ counts(q)' => q.key = panels'[q.what].key
               /\ counts(q)' /\ q.seen # Absent => q.seen >= panels'[q.what].newest
    <3>1. CASE q = asked
      BY <1>1, <1>3, <1>5, <3>1
    <3>2. CASE q \in reads /\ q.what = p
      BY <1>1, <1>5, <2>0, <3>2 DEF BrowserInv, ReadsInv, counts
    <3>3. CASE q \in reads /\ q.what # p
      BY <1>5, <2>1, <3>3 DEF BrowserInv, ReadsInv, counts
    <3> QED BY <1>0, <2>1, <3>1, <3>2, <3>3
  <2>2. ASSUME NEW q \in reads', NEW s \in reads', q.what \in Panels, q.what = s.what, q.gen = s.gen
        PROVE  q = s
    <3>1. \A t \in reads : t.what = p => t.gen # old.gen + 1
      BY <1>1, <2>0 DEF BrowserInv, ReadsInv
    <3> QED BY <1>0, <1>3, <2>2, <3>1 DEF BrowserInv, ReadsInv
  <2>3. p # "content"
    BY <1>0
  <2> QED BY <1>0, <1>1, <1>3, <1>5, <2>1, <2>2, <2>3 DEF BrowserInv, ReadsInv
<1>10. ToldInv'
  <2>1. ASSUME NEW q \in Resources \ {"overview"}
        PROVE  /\ q \in Panels \ {p} /\ asked.what # q
    BY <1>0, <1>3, BrowserConstants DEF Panels
  <2>2. ASSUME NEW q \in Resources \ {"overview"}
        PROVE  /\ Fresh(q) => Fresh(q)'
               /\ PanelIsRead(q) => PanelIsRead(q)'
               /\ Shown(q) => Shown(q)'
    BY <1>0, <1>5, <2>1 DEF Fresh, PanelIsRead, Shown, counts
  <2> QED BY <1>0, <2>2 DEF BrowserInv, ToldInv
<1> QED BY <1>0, <1>6, <1>7, <1>8, <1>9, <1>10, OperationsStay DEF BrowserInv

----------------------------------------------------------------------------
(* A change of the server that is nobody's operation here.                 *)
LEMMA ChangeIsCurrent ==
  ASSUME BrowserInv, submitDecision \/ OthersChange
  PROVE  BrowserInv'
<1> DEFINE asked == Read("run", world.revision, tab.run, 0)
<1>0. /\ world' = [world EXCEPT !.revision = @ + 1] /\ world.revision < MaxRevision
      /\ reads' \subseteq reads \cup {asked} /\ reads \subseteq reads'
      /\ UNCHANGED <<tab, trail, queue, list, detail, panels, editor, post>>
  BY DEF submitDecision, OthersChange
<1>1. /\ world.revision \in Nat /\ world \in WorldState /\ tab.run \in RunIds
      /\ reads \subseteq ReadState /\ panels \in [Panels -> PanelState] /\ "run" \notin Panels
  BY BrowserConstants DEF BrowserInv, BrowserTyped, WorldState, TabState, Panels
<1>2. /\ world' \in WorldState /\ world'.revision = world.revision + 1 /\ world'.used = world.used
      /\ world'.accepted = world.accepted /\ world'.travelling = world.travelling
  BY <1>0, <1>1, BrowserConstants DEF WorldState
<1>3. asked \in ReadState
  BY <1>1 DEF Read, ReadState
<1>4. asked.what = "run" /\ asked.seen = Absent
  BY DEF Read
<1> HIDE DEF asked
<1>5. BrowserTyped' /\ QueueInv' /\ PageInv'
  BY <1>0, <1>1, <1>2, <1>3 DEF BrowserInv, BrowserTyped, QueueInv, PageInv
<1>6. ListInv'
  <2>1. ListIsRead => ListIsRead'
    BY <1>0 DEF ListIsRead
  <2> QED BY <1>0, <2>1 DEF BrowserInv, ListInv, Listed
<1>7. PanelsAreCurrent'
  BY <1>0 DEF BrowserInv, PanelsAreCurrent
<1>8. ReadsInv'
  <2>1. \A r \in reads' : r \in reads \/ (r.what = "run" /\ r.seen = Absent)
    BY <1>0, <1>4
  <2>2. \A r \in reads' : r.what = "content" => r.key \in Nat /\ r.key <= world'.revision
    BY <1>1, <1>2, <2>1 DEF BrowserInv, ReadsInv
  <2>3. \A r \in reads' : r.seen # Absent => r.seen <= world'.revision
    <3>1. \A r \in reads : r.seen # Absent => r.seen \in Nat /\ r.seen <= world.revision
      BY <1>1 DEF BrowserInv, ReadsInv, ReadState
    <3> QED BY <1>1, <1>2, <2>1, <3>1
  <2>4. \A p \in Panels : panels'[p].newest <= world'.revision
    <3>1. \A p \in Panels : panels[p].newest \in Nat /\ panels[p].newest <= world.revision
      BY <1>1 DEF BrowserInv, ReadsInv, PanelState
    <3> QED BY <1>0, <1>1, <1>2, <3>1
  <2>5. \A r, q \in reads' : r.what \in Panels /\ r.what = q.what /\ r.gen = q.gen => r = q
    BY <1>1, <2>1 DEF BrowserInv, ReadsInv
  <2>6. ASSUME NEW r \in reads', r.what \in Panels
        PROVE  /\ r.gen <= panels'[r.what].gen
               /\ counts(r)' => r.key = panels'[r.what].key
               /\ counts(r)' /\ r.seen # Absent => r.seen >= panels'[r.what].newest
    BY <1>0, <1>1, <2>1, <2>6 DEF BrowserInv, ReadsInv, counts
  <2> QED BY <2>2, <2>3, <2>4, <2>5, <2>6 DEF ReadsInv
<1>9. ToldInv'
  <2>1. \A p \in Resources : /\ Fresh(p) => Fresh(p)'
                             /\ PanelIsRead(p) => PanelIsRead(p)'
                             /\ Shown(p) => Shown(p)'
    BY <1>0, <1>4 DEF Fresh, PanelIsRead, Shown, counts
  <2>2. post.since \in Nat
    BY DEF BrowserInv, BrowserTyped, PostState
  <2> QED BY <1>0, <1>1, <1>2, <2>1, <2>2 DEF BrowserInv, ToldInv
<1>10. OperationsInv'
  <2>0. Sent' = Sent
    BY <1>0, <1>2 DEF Sent
  <2>1. \A b \in Sent' : b \in Body /\ b.op <= world'.used /\ b.base <= world'.revision
    BY <1>1, <1>2, <2>0 DEF BrowserInv, OperationsInv, Body
  <2>2. \A o \in world'.accepted : o.op <= world'.used /\ o.revision \in 1..world'.revision
    BY <1>1, <1>2 DEF BrowserInv, OperationsInv
  <2>3. \A b \in Sent' : b.base < world.revision => b.base < world'.revision
    BY <1>1, <1>2, <2>0 DEF BrowserInv, OperationsInv, Body
  <2>4. editor # Absent => editor.base <= world'.revision
    <3>1. editor # Absent => editor.base \in Nat
      BY DEF BrowserInv, BrowserTyped, EditorState
    <3> QED BY <1>1, <1>2, <3>1 DEF BrowserInv, OperationsInv
  <2> QED BY <1>0, <1>2, <2>0, <2>1, <2>2, <2>3, <2>4 DEF BrowserInv, OperationsInv
<1> QED BY <1>5, <1>6, <1>7, <1>8, <1>9, <1>10 DEF BrowserInv

(* The editor's steps leave the rest of the tab alone.                     *)
LEMMA EditorAlone ==
  ASSUME BrowserInv, UNCHANGED <<tab, trail, queue, reads, list, detail, panels, post, world>>,
         editor' \in {Absent} \cup EditorState, OperationsInv'
  PROVE  BrowserInv'
<1>0. world'.revision \in Nat /\ world'.revision >= world.revision
  BY BrowserConstants DEF BrowserInv, BrowserTyped, WorldState
<1>1. BrowserTyped' /\ QueueInv' /\ PageInv' /\ ListInv'
  BY DEF BrowserInv, BrowserTyped, QueueInv, PageInv, ListInv, Listed, ListIsRead
<1> QED BY <1>0, <1>1, PanelsStay, TellingStays DEF BrowserInv

(* Typing makes it another content; closing forgets the session.           *)
LEMMA TypingIsCurrent ==
  ASSUME BrowserInv, close \/ \E text \in Texts : changeFiles(text)
  PROVE  BrowserInv'
<1>1. CASE close
  <2>1. editor' = Absent
        /\ UNCHANGED <<tab, trail, queue, reads, list, detail, panels, post, world>>
    BY <1>1 DEF close
  <2>2. OperationsInv'
    BY <2>1 DEF BrowserInv, OperationsInv, Sent
  <2> QED BY <2>1, <2>2, EditorAlone
<1>2. ASSUME NEW text \in Texts, changeFiles(text) PROVE BrowserInv'
  <2>1. /\ editor # Absent /\ editor' = [editor EXCEPT !.files = text, !.sent = {}]
        /\ UNCHANGED <<tab, trail, queue, reads, list, detail, panels, post, world>>
    BY <1>2 DEF changeFiles
  <2>2. editor \in EditorState
    BY <2>1 DEF BrowserInv, BrowserTyped
  <2>3. /\ editor' \in EditorState /\ editor'.base = editor.base
        /\ editor'.attempt = editor.attempt /\ editor'.sent = {}
    BY <2>1, <2>2 DEF EditorState
  <2>4. OperationsInv'
    BY <2>1, <2>3 DEF BrowserInv, OperationsInv, Sent
  <2> QED BY <2>1, <2>3, <2>4, EditorAlone
<1> QED BY <1>1, <1>2

(* A session is opened on the revision that was shown.                     *)
LEMMA SessionIsCurrent ==
  ASSUME BrowserInv,
         BeginEdit \/ \E r \in reads, outcome \in Outcomes : ContentAnswer(r, outcome)
  PROVE  BrowserInv'
<1>0. /\ "tree" \in Panels /\ "content" \notin Panels
      /\ tab.latest \in Searches /\ tab.run \in RunIds /\ reads \subseteq ReadState
      /\ world.revision \in Nat
  BY BrowserConstants DEF Panels, BrowserInv, BrowserTyped, TabState, WorldState
<1>1. CASE BeginEdit
  <2> DEFINE asked == Read("content", 0, panels["tree"].data.version, 0)
  <2>1. /\ panels["tree"].data # Absent /\ reads' = reads \cup {asked}
        /\ UNCHANGED <<tab, trail, queue, list, detail, panels, editor, post, world>>
    BY <1>1 DEF BeginEdit
  <2>2. panels["tree"].data.version \in Nat /\ panels["tree"].data.version <= world.revision
    <3>1. panels["tree"].data.version = panels["tree"].newest
      BY <1>0, <2>1 DEF BrowserInv, PanelsAreCurrent
    <3>2. panels["tree"].newest \in Nat /\ panels["tree"].newest <= world.revision
      BY <1>0 DEF BrowserInv, BrowserTyped, PanelState, ReadsInv
    <3> QED BY <3>1, <3>2
  <2>3. asked \in ReadState
    BY <2>2 DEF Read, ReadState
  <2>4. asked.what = "content" /\ asked.seen = Absent /\ asked.key = panels["tree"].data.version
    BY DEF Read
  <2> HIDE DEF asked
  <2>5. BrowserTyped' /\ QueueInv' /\ PageInv' /\ PanelsAreCurrent'
    BY <2>1, <2>3 DEF BrowserInv, BrowserTyped, QueueInv, PageInv, PanelsAreCurrent
  <2>6. ListInv'
    BY <2>1 DEF BrowserInv, ListInv, Listed, ListIsRead
  <2>7. ReadsInv'
    BY <1>0, <2>1, <2>2, <2>4 DEF BrowserInv, ReadsInv, counts
  <2>8. ToldInv'
    <3>1. \A p \in Resources : /\ Fresh(p) => Fresh(p)'
                               /\ PanelIsRead(p) => PanelIsRead(p)'
                               /\ Shown(p) => Shown(p)'
      BY <2>1, <2>4 DEF Fresh, PanelIsRead, Shown, counts
    <3> QED BY <2>1, <3>1 DEF BrowserInv, ToldInv
  <2> QED BY <2>1, <2>5, <2>6, <2>7, <2>8, OperationsStay DEF BrowserInv
<1>2. ASSUME NEW r \in reads, NEW outcome \in Outcomes, ContentAnswer(r, outcome)
      PROVE  BrowserInv'
  <2>0. r.what = "content" /\ r.what \notin Panels /\ r.what # "list"
    BY <1>0, <1>2 DEF ContentAnswer
  <2>1. CASE Boundary("login")
    BY <1>0, <2>1, MountStarts DEF Boundary
  <2>2. CASE /\ editor' = IF outcome = "failed" THEN editor
                          ELSE [base |-> r.key, files |-> "loaded", attempt |-> Absent, sent |-> {}]
             /\ reads' = reads \ {r}
             /\ UNCHANGED <<tab, trail, queue, list, detail, panels, post, world>>
    <3> DEFINE new == [base |-> r.key, files |-> "loaded", attempt |-> Absent, sent |-> {}]
    <3>1. r.key \in Nat /\ r.key <= world.revision
      BY <2>0 DEF BrowserInv, ReadsInv
    <3>2. new \in EditorState
      BY <3>1 DEF EditorState
    <3>3. new.base = r.key /\ new.attempt = Absent /\ new.sent = {}
      OBVIOUS
    <3>4. editor' = editor \/ editor' = new
      BY <2>2
    <3> HIDE DEF new
    <3>5. reads' \subseteq ReadState /\ ReadsInv' /\ PanelsAreCurrent' /\ ToldInv'
      BY <2>0, <2>2, OtherAnswerKeeps
    <3>6. ListIsRead => ListIsRead'
      BY <2>0, <2>2, OtherAnswerKeeps
    <3>7. BrowserTyped' /\ QueueInv' /\ PageInv' /\ ListInv'
      BY <2>2, <3>2, <3>4, <3>5, <3>6 DEF BrowserInv, BrowserTyped, QueueInv, PageInv, ListInv, Listed
    <3>8. OperationsInv'
      BY <2>2, <3>1, <3>3, <3>4 DEF BrowserInv, OperationsInv, Sent
    <3> QED BY <3>5, <3>7, <3>8 DEF BrowserInv
  <2> QED BY <1>2, <2>1, <2>2 DEF ContentAnswer
<1> QED BY <1>1, <1>2

----------------------------------------------------------------------------
(* The steps of a change leave the reads alone.                            *)
LEMMA PostAlone ==
  ASSUME BrowserInv, UNCHANGED <<tab, trail, queue, reads, list, detail, panels>>,
         world' \in WorldState, world'.revision >= world.revision,
         editor' \in {Absent} \cup EditorState, post' \in PostState,
         post'.at # "idle" \/ post'.told # "none" => tab.at = "memory", ToldInv', OperationsInv'
  PROVE  BrowserInv'
<1>0. world'.revision \in Nat
  BY BrowserConstants DEF WorldState
<1>1. BrowserTyped' /\ QueueInv' /\ PageInv' /\ ListInv'
  BY DEF BrowserInv, BrowserTyped, QueueInv, PageInv, ListInv, Listed, ListIsRead
<1> QED BY <1>0, <1>1, PanelsStay DEF BrowserInv

(* A change is sent, under a new operation or the one of the content.      *)
LEMMA SendIsCurrent ==
  ASSUME BrowserInv, commit \/ restore
  PROVE  BrowserInv'
<1>0. /\ world \in WorldState /\ world.revision \in Nat /\ world.used \in Nat
      /\ world.travelling \subseteq Body /\ "tree" \in Panels
  BY BrowserConstants DEF BrowserInv, BrowserTyped, WorldState, Panels
<1>1. ASSUME NEW kind \in {"edit", "restore"}, NEW op \in Nat, NEW base \in Nat, Send(kind, op, base),
             base <= world.revision,
             \/ op = world.used + 1
             \/ op <= world.used /\ \A b \in Sent : b.op = op => b.base = base
      PROVE  /\ world' \in WorldState /\ world'.revision = world.revision /\ post' \in PostState
             /\ world'.accepted = world.accepted /\ op <= world'.used /\ world.used <= world'.used
             /\ post'.at = "sent" /\ post'.told = "none" /\ post'.op = op
             /\ post'.body = [op |-> op, base |-> base] /\ post'.answer = Absent
             /\ world'.used \in Nat
             /\ Sent' = world.travelling \cup {[op |-> op, base |-> base]}
  <2> DEFINE body == [op |-> op, base |-> base]
  <2>1. /\ post' = [NoPost EXCEPT !.at = "sent", !.kind = kind, !.op = op, !.body = body, !.tries = 1]
        /\ world' = [world EXCEPT !.travelling = @ \cup {body}, !.used = IF op > @ THEN op ELSE @]
    BY <1>1 DEF Send
  <2>2. body \in Body
    BY DEF Body
  <2> HIDE DEF body
  <2>3. /\ post' \in PostState /\ post'.at = "sent" /\ post'.told = "none" /\ post'.op = op
        /\ post'.body = body /\ post'.answer = Absent
    <3>1. NoPost \in PostState /\ NoPost.told = "none" /\ NoPost.answer = Absent
      BY DEF NoPost, PostState
    <3>2. post' \in PostState
      <4>1. /\ post'.at = "sent" /\ post'.kind = kind /\ post'.op = op /\ post'.body = body
            /\ post'.answer = Absent /\ post'.tries = 1 /\ post'.asked = 0
            /\ post'.told = "none" /\ post'.since = 0
            /\ post' = [at |-> post'.at, kind |-> post'.kind, op |-> post'.op, body |-> post'.body,
                        answer |-> post'.answer, tries |-> post'.tries, asked |-> post'.asked,
                        told |-> post'.told, since |-> post'.since]
        BY <2>1 DEF NoPost
      <4>2. body \in {Absent} \cup Body /\ kind \in {"none", "edit", "restore"} /\ 1 \in 0..2
        BY <1>1, <2>2
      <4> QED BY <1>1, <4>1, <4>2 DEF PostState
    <3>3. post'.at = "sent" /\ post'.op = op /\ post'.body = body
      BY <2>1, <3>1 DEF PostState
    <3>4. post'.told = NoPost.told /\ post'.answer = NoPost.answer
      BY <2>1, <3>1 DEF PostState
    <3> QED BY <3>1, <3>2, <3>3, <3>4
  <2>4. /\ world' \in WorldState /\ world'.revision = world.revision
        /\ world'.accepted = world.accepted /\ world'.travelling = world.travelling \cup {body}
        /\ world'.used = IF op > world.used THEN op ELSE world.used
    BY <1>0, <2>1, <2>2 DEF WorldState
  <2>5. Sent' = world.travelling \cup {body}
    BY <2>3, <2>4 DEF Sent
  <2> QED BY <1>0, <2>3, <2>4, <2>5 DEF body
<1>2. ASSUME NEW op \in Nat, NEW base \in Nat, base <= world.revision,
             \/ op = world.used + 1
             \/ op <= world.used /\ \A b \in Sent : b.op = op => b.base = base,
             NEW kind \in {"edit", "restore"}, Send(kind, op, base),
             editor' \in {Absent} \cup EditorState,
             editor' # Absent =>
               /\ editor'.base <= world.revision
               /\ editor'.sent # {} => /\ editor'.attempt # Absent
                                       /\ editor'.sent = {editor'.attempt.op}
                                       /\ editor'.attempt.content = editor'.files
               /\ editor'.attempt # Absent =>
                    /\ editor'.attempt.op <= world'.used
                    /\ \A b \in Sent' : b.op = editor'.attempt.op => b.base = editor'.base,
             tab.at = "memory", UNCHANGED <<tab, trail, queue, reads, list, detail, panels>>
      PROVE  BrowserInv'
  <2> DEFINE body == [op |-> op, base |-> base]
  <2>1. /\ world' \in WorldState /\ world'.revision = world.revision /\ post' \in PostState
        /\ world'.accepted = world.accepted /\ op <= world'.used /\ world.used <= world'.used
        /\ post'.at = "sent" /\ post'.told = "none" /\ post'.op = op
        /\ post'.body = body /\ post'.answer = Absent /\ world'.used \in Nat
        /\ Sent' = world.travelling \cup {body}
    BY <1>1, <1>2
  <2>2. body \in Body /\ body.op = op /\ body.base = base
    BY DEF Body
  <2> HIDE DEF body
  <2>3. ASSUME NEW b \in Sent' PROVE b \in Body /\ b.op <= world'.used /\ b.base <= world'.revision
    <3>1. CASE b = body
      BY <1>2, <2>1, <2>2, <3>1
    <3>2. CASE b \in world.travelling
      <4>1. b \in Sent
        BY <3>2 DEF Sent
      <4>2. b \in Body /\ b.op <= world.used /\ b.base <= world.revision
        BY <4>1 DEF BrowserInv, OperationsInv
      <4> QED BY <1>0, <2>1, <4>2 DEF Body
    <3> QED BY <2>1, <3>1, <3>2
  <2>4. ASSUME NEW b \in world.travelling, b.op = op PROVE b = body
    <3>1. b \in Sent
      BY DEF Sent
    <3>2. b \in Body /\ b.op <= world.used
      BY <3>1 DEF BrowserInv, OperationsInv
    <3>3. op # world.used + 1
      BY <1>0, <2>4, <3>2 DEF Body
    <3>4. b.base = base
      BY <1>2, <2>4, <3>1, <3>3
    <3> QED BY <2>2, <2>4, <3>2, <3>4 DEF Body
  <2>5. ASSUME NEW b \in Sent', NEW c \in Sent', b.op = c.op PROVE b = c
    <3>1. b \in world.travelling /\ c \in world.travelling => b = c
      BY <2>5 DEF BrowserInv, OperationsInv, Sent
    <3> QED BY <2>1, <2>2, <2>4, <2>5, <3>1
  <2>6. \A o \in world'.accepted : o.op <= world'.used /\ o.revision \in 1..world'.revision
    <3>1. \A o \in world.accepted : o.op \in Nat
      BY <1>0 DEF WorldState
    <3> QED BY <1>0, <2>1, <3>1 DEF BrowserInv, OperationsInv
  <2>7. OperationsInv'
    BY <1>2, <2>1, <2>2, <2>3, <2>5, <2>6, AbsentIsNothing DEF OperationsInv
  <2>8. ToldInv'
    BY <2>1 DEF ToldInv
  <2> QED BY <1>0, <1>2, <2>1, <2>7, <2>8, PostAlone
<1>3. CASE restore
  <2>1. /\ tab.at = "memory" /\ panels["tree"].data # Absent
        /\ Send("restore", world.used + 1, panels["tree"].data.version)
        /\ UNCHANGED <<tab, trail, queue, reads, list, detail, panels, editor>>
    BY <1>3 DEF restore
  <2>2. panels["tree"].data.version \in Nat /\ panels["tree"].data.version <= world.revision
    <3>1. panels["tree"].data.version = panels["tree"].newest
      BY <1>0, <2>1 DEF BrowserInv, PanelsAreCurrent
    <3>2. panels["tree"].newest \in Nat /\ panels["tree"].newest <= world.revision
      BY <1>0 DEF BrowserInv, BrowserTyped, PanelState, ReadsInv
    <3> QED BY <3>1, <3>2
  <2>3. editor' \in {Absent} \cup EditorState /\ world.used + 1 \in Nat
    BY <1>0, <2>1 DEF BrowserInv, BrowserTyped
  <2>4. /\ Sent' = world.travelling
                     \cup {[op |-> world.used + 1, base |-> panels["tree"].data.version]}
        /\ world.used <= world'.used /\ world'.used \in Nat
    BY <1>0, <1>1, <2>1, <2>2, <2>3
  <2>5. ASSUME editor # Absent, editor.attempt # Absent
        PROVE  /\ editor.attempt.op <= world'.used
               /\ \A b \in Sent' : b.op = editor.attempt.op => b.base = editor.base
    <3>1. /\ editor.attempt.op \in Nat /\ editor.attempt.op <= world.used
          /\ \A b \in world.travelling : b.op = editor.attempt.op => b.base = editor.base
      BY <2>5 DEF BrowserInv, BrowserTyped, EditorState, EditAttempt, OperationsInv, Sent
    <3> QED BY <1>0, <2>4, <3>1
  <2>6. editor # Absent =>
          /\ editor.base <= world.revision
          /\ editor.sent # {} => /\ editor.attempt # Absent /\ editor.sent = {editor.attempt.op}
                                /\ editor.attempt.content = editor.files
    BY DEF BrowserInv, OperationsInv
  <2> QED BY <1>0, <1>2, <2>1, <2>2, <2>3, <2>5, <2>6
<1>4. CASE commit
  <2> DEFINE op == OperationOf
  <2>1. /\ tab.at = "memory" /\ editor # Absent /\ post.at = "idle"
        /\ editor' = [editor EXCEPT !.attempt = [content |-> editor.files, op |-> op],
                                    !.sent = @ \cup {op}]
        /\ Send("edit", op, editor.base)
        /\ UNCHANGED <<tab, trail, queue, reads, list, detail, panels>>
    BY <1>4 DEF commit, busy
  <2>2. /\ editor \in EditorState /\ editor.base \in Nat /\ editor.base <= world.revision
        /\ editor.attempt \in {Absent} \cup EditAttempt /\ editor.files \in Texts \cup {"loaded"}
        /\ editor.sent \subseteq Nat
        /\ editor.sent # {} => editor.attempt # Absent /\ editor.sent = {editor.attempt.op}
    BY <2>1 DEF BrowserInv, BrowserTyped, EditorState, OperationsInv
  <2>3. /\ op \in Nat
        /\ \/ op = world.used + 1
           \/ op <= world.used /\ \A b \in Sent : b.op = op => b.base = editor.base
    <3>1. CASE editor.attempt # Absent /\ editor.attempt.content = editor.files
      <4>1. op = editor.attempt.op
        BY <3>1 DEF OperationOf
      <4> QED BY <2>1, <2>2, <3>1, <4>1 DEF BrowserInv, OperationsInv, EditAttempt
    <3>2. CASE ~(editor.attempt # Absent /\ editor.attempt.content = editor.files)
      BY <1>0, <3>2 DEF OperationOf
    <3> QED BY <3>1, <3>2
  <2>4. editor.sent \subseteq {op}
    <3> SUFFICES ASSUME editor.sent # {} PROVE editor.sent \subseteq {op}
      OBVIOUS
    <3>1. editor.attempt # Absent /\ editor.sent = {editor.attempt.op}
          /\ editor.attempt.content = editor.files
      BY <2>1, <2>2 DEF BrowserInv, OperationsInv
    <3> QED BY <3>1 DEF OperationOf
  <2> HIDE DEF op
  <2>5. LET att == [content |-> editor.files, op |-> op]
        IN  att \in EditAttempt /\ att # Absent /\ att.op = op /\ att.content = editor.files
    BY <2>2, <2>3, AbsentIsNothing DEF EditAttempt
  <2>6. /\ editor' \in EditorState /\ editor'.base = editor.base /\ editor'.sent = {op}
        /\ editor'.attempt = [content |-> editor.files, op |-> op]
    BY <2>1, <2>2, <2>3, <2>4, <2>5 DEF EditorState
  <2>7. /\ editor'.attempt # Absent /\ editor'.attempt.op = op
        /\ editor'.attempt.content = editor'.files
    <3>1. editor'.files = editor.files
      BY <2>1, <2>2 DEF EditorState
    <3> QED BY <2>5, <2>6, <3>1
  <2>8. op <= world'.used /\ Sent' = world.travelling \cup {[op |-> op, base |-> editor.base]}
    BY <1>1, <2>1, <2>2, <2>3
  <2>9. ASSUME NEW b \in Sent', b.op = op PROVE b.base = editor.base
    <3>1. CASE b \in world.travelling
      <4>1. b \in Sent /\ b \in Body /\ b.op <= world.used
        BY <3>1 DEF BrowserInv, OperationsInv, Sent
      <4> QED BY <1>0, <2>3, <2>9, <4>1 DEF Body
    <3> QED BY <2>8, <3>1
  <2> QED BY <1>2, <2>1, <2>2, <2>3, <2>6, <2>7, <2>8, <2>9
<1> QED BY <1>3, <1>4

(* The server takes a request: an operation is accepted once, and one that *)
(* expects an older revision never.                                        *)
LEMMA ReceiveIsCurrent ==
  ASSUME BrowserInv, NEW body \in world.travelling, Receive(body)
  PROVE  BrowserInv'
<1> DEFINE known == \E o \in world.accepted : o.op = body.op
           accepted == known \/ body.base = world.revision
           added == [op |-> body.op, revision |-> world.revision + 1]
<1>0. /\ world \in WorldState /\ world.revision \in Nat /\ world.used \in Nat /\ post \in PostState
      /\ world.travelling \subseteq Body /\ body \in Sent
      /\ world.accepted \subseteq [op: Nat, revision: Nat]
  BY BrowserConstants DEF BrowserInv, BrowserTyped, WorldState, Sent
<1>1. body \in Body /\ body.op \in Nat /\ body.op <= world.used /\ body.base <= world.revision
  BY <1>0 DEF BrowserInv, OperationsInv, Body
<1>2. /\ ~known /\ accepted => world.revision < MaxRevision
      /\ world' = [world EXCEPT !.travelling = @ \ {body},
                                !.revision = IF accepted /\ ~known THEN @ + 1 ELSE @,
                                !.accepted = IF accepted /\ ~known THEN @ \cup {added} ELSE @]
      /\ post' = IF post.at = "sent" /\ post.op = body.op
                 THEN [post EXCEPT !.answer = IF accepted THEN "done" ELSE "conflict"] ELSE post
      /\ UNCHANGED <<tab, trail, queue, reads, list, detail, panels, editor>>
  BY DEF Receive
<1>3. added \in [op: Nat, revision: Nat] /\ added.op = body.op /\ added.revision = world.revision + 1
  BY <1>0, <1>1
<1> HIDE DEF added, known
<1>4. /\ world'.travelling = world.travelling \ {body} /\ world'.used = world.used
      /\ world'.revision = IF accepted /\ ~known THEN world.revision + 1 ELSE world.revision
      /\ world'.accepted = IF accepted /\ ~known THEN world.accepted \cup {added} ELSE world.accepted
      /\ world' \in WorldState
  <2>1. CASE accepted /\ ~known
    <3>1. world.revision + 1 \in 0..MaxRevision
      BY <1>0, <1>2, <2>1, BrowserConstants
    <3> QED BY <1>0, <1>2, <1>3, <2>1, <3>1 DEF WorldState
  <2>2. CASE ~(accepted /\ ~known)
    BY <1>0, <1>2, <2>2 DEF WorldState
  <2> QED BY <2>1, <2>2
<1>5. /\ post' \in PostState /\ post'.at = post.at /\ post'.told = post.told /\ post'.op = post.op
      /\ post'.body = post.body /\ post'.asked = post.asked /\ post'.since = post.since
      /\ post'.answer = IF post.at = "sent" /\ post.op = body.op
                        THEN (IF accepted THEN "done" ELSE "conflict") ELSE post.answer
  BY <1>0, <1>2 DEF PostState
<1>6. world'.revision \in Nat /\ world'.revision >= world.revision
  BY <1>0, <1>4
<1>7. ToldInv'
  <2>1. \A p \in Resources : /\ Fresh(p) => Fresh(p)'
                             /\ PanelIsRead(p) => PanelIsRead(p)'
                             /\ Shown(p) => Shown(p)'
    BY <1>2, <1>5 DEF Fresh, PanelIsRead, Shown, counts
  <2>2. post.since \in Nat
    BY <1>0 DEF PostState
  <2> QED BY <1>0, <1>2, <1>5, <1>6, <2>1, <2>2 DEF BrowserInv, ToldInv
<1>8. OperationsInv'
  <2>0. Sent' \subseteq Sent
    BY <1>4, <1>5 DEF Sent
  <2>1. \A b \in Sent' : b \in Body /\ b.op <= world'.used /\ b.base <= world'.revision
    <3>1. \A b \in Sent : b \in Body /\ b.op <= world.used /\ b.base <= world.revision
      BY DEF BrowserInv, OperationsInv
    <3> QED BY <1>0, <1>4, <1>6, <2>0, <3>1 DEF Body
  <2>2. \A b, c \in Sent' : b.op = c.op => b = c
    BY <2>0 DEF BrowserInv, OperationsInv
  <2>3. \A o \in world'.accepted : o.op <= world'.used /\ o.revision \in 1..world'.revision
    <3>1. \A o \in world.accepted : o.op <= world.used /\ o.revision \in 1..world.revision
      BY DEF BrowserInv, OperationsInv
    <3>2. world.revision + 1 \in 1..(world.revision + 1)
      BY <1>0
    <3>3. \A o \in world.accepted : o.revision \in 1..world'.revision
      BY <1>0, <1>6, <3>1
    <3> QED BY <1>0, <1>1, <1>3, <1>4, <3>1, <3>2, <3>3
  <2>4. post'.answer = "done" => \E o \in world'.accepted : o.op = post'.op
    <3>1. world.accepted \subseteq world'.accepted
      BY <1>4
    <3>2. CASE post.at = "sent" /\ post.op = body.op
      BY <1>3, <1>4, <1>5, <3>1, <3>2 DEF known
    <3>3. CASE ~(post.at = "sent" /\ post.op = body.op)
      BY <1>5, <3>1, <3>3 DEF BrowserInv, OperationsInv
    <3> QED BY <3>2, <3>3
  <2>5. ASSUME post'.answer = "conflict" \/ post'.told = "conflict"
        PROVE  /\ \A o \in world'.accepted : o.op # post'.op
               /\ \A b \in Sent' : b.op = post'.op => b.base < world'.revision
    <3>1. CASE post.at = "sent" /\ post.op = body.op
      <4>1. ~accepted
        BY <1>5, <2>5, <3>1 DEF BrowserInv, OperationsInv
      <4>2. world'.accepted = world.accepted /\ world'.revision = world.revision
        BY <1>4, <4>1
      <4>3. \A o \in world.accepted : o.op # body.op
        BY <4>1 DEF known
      <4>4. ASSUME NEW b \in Sent', b.op = body.op PROVE b.base < world.revision
        <5>1. b = body
          BY <1>0, <2>0, <4>4 DEF BrowserInv, OperationsInv
        <5> QED BY <1>0, <1>1, <4>1, <5>1 DEF Body
      <4> QED BY <1>5, <3>1, <4>2, <4>3, <4>4
    <3>2. CASE ~(post.at = "sent" /\ post.op = body.op)
      <4>1. /\ \A o \in world.accepted : o.op # post.op
            /\ \A b \in Sent : b.op = post.op => b.base < world.revision
        BY <1>5, <2>5, <3>2 DEF BrowserInv, OperationsInv
      <4>2. body.op = post.op => ~accepted \/ known
        BY <1>0, <1>1, <4>1 DEF Body
      <4>3. \A o \in world'.accepted : o.op # post.op
        BY <1>3, <1>4, <4>1, <4>2
      <4>4. \A b \in Sent' : b.op = post.op => b.base < world'.revision
        BY <1>0, <1>6, <2>0, <2>1, <4>1 DEF Body
      <4> QED BY <1>5, <4>3, <4>4
    <3> QED BY <3>1, <3>2
  <2>6. editor # Absent => editor.base <= world'.revision
    <3>1. editor # Absent => editor.base \in Nat /\ editor.base <= world.revision
      BY DEF BrowserInv, BrowserTyped, EditorState, OperationsInv
    <3> QED BY <1>0, <1>6, <3>1
  <2> QED BY <1>2, <1>4, <1>5, <2>0, <2>1, <2>2, <2>3, <2>4, <2>5, <2>6 DEF BrowserInv, OperationsInv
<1> QED BY <1>2, <1>4, <1>5, <1>6, <1>7, <1>8, PostAlone DEF BrowserInv, BrowserTyped, PageInv

(* A change was accepted: the page asks for a refresh.                     *)
LEMMA SucceedIsCurrent ==
  ASSUME BrowserInv, Succeed
  PROVE  BrowserInv'
<1> DEFINE since == RevisionOfOperation(post.op)
<1>0. /\ post.at = "sent" /\ post.answer = "done" /\ request /\ tab.at = "memory" /\ tab.at \in Pages
      /\ post' = [post EXCEPT !.at = "refreshing", !.asked = queue.attempt, !.told = "done",
                              !.since = since]
      /\ editor' = (IF post.kind = "edit" THEN Absent ELSE editor)
      /\ UNCHANGED <<tab, trail, list, detail, world>>
      /\ post \in PostState /\ queue.attempt \in Nat /\ world.revision \in Nat
  BY BrowserConstants DEF Succeed, BrowserInv, PageInv, Pages, BrowserTyped, QueueState, WorldState
<1>1. since \in Nat /\ since <= world.revision
  <2>1. PICK o \in world.accepted : o.op = post.op
    BY <1>0 DEF BrowserInv, OperationsInv
  <2>2. o \in [op: Nat, revision: Nat] /\ o.revision \in 1..world.revision
    BY <2>1 DEF BrowserInv, BrowserTyped, WorldState, OperationsInv
  <2>3. [op |-> post.op, revision |-> o.revision] \in world.accepted
    BY <2>1, <2>2
  <2>4. o.revision \in 1..MaxRevision
    BY <2>2, BrowserConstants DEF BrowserInv, BrowserTyped, WorldState
  <2>5. since \in 1..MaxRevision /\ [op |-> post.op, revision |-> since] \in world.accepted
    BY <2>3, <2>4 DEF RevisionOfOperation
  <2>6. since \in 1..world.revision
    BY <2>5 DEF BrowserInv, OperationsInv
  <2> QED BY <1>0, <2>6
<1> HIDE DEF since
<1>2. /\ post' \in PostState /\ post'.at = "refreshing" /\ post'.asked = queue.attempt
      /\ post'.told = "done" /\ post'.since = since /\ post'.op = post.op
      /\ post'.answer = post.answer
  BY <1>0, <1>1 DEF PostState
<1>3. /\ queue' \in QueueState /\ reads' \subseteq ReadState /\ panels' \in [Panels -> PanelState]
      /\ QueueInv' /\ ReadsInv' /\ PanelsAreCurrent'
  BY <1>0, RequestAsks
<1>4. BrowserTyped' /\ PageInv' /\ ListInv'
  BY <1>0, <1>2, <1>3 DEF BrowserInv, BrowserTyped, PageInv, ListInv
<1>5. OperationsInv'
  <2>1. Sent' \subseteq Sent
    BY <1>0, <1>2 DEF Sent
  <2>2. editor' = Absent \/ editor' = editor
    BY <1>0
  <2> QED BY <1>0, <1>2, <2>1, <2>2 DEF BrowserInv, OperationsInv
<1>6. ToldInv'
  <2>1. CASE queue.running
    <3>1. queue' = [queue EXCEPT !.queued = TRUE, !.waiting = @ \cup {queue.attempt}]
      BY <1>0, <2>1 DEF request
    <3>2. queue.attempt \in queue'.waiting
      BY <3>1 DEF BrowserInv, BrowserTyped, QueueState
    <3> QED BY <1>0, <1>1, <1>2, <3>2 DEF ToldInv
  <2>2. CASE ~queue.running
    <3>1. Run({queue.attempt})
      BY <1>0, <2>2 DEF request
    <3>2. queue'.active = {queue.attempt} /\ queue'.attempt = queue.attempt + 1
      BY <3>1 DEF Run
    <3>3. \A p \in Resources : Fresh(p)' /\ PanelIsRead(p)'
      BY <1>0, <3>1, RunIsFresh DEF Fresh, PanelIsRead
    <3> QED BY <1>0, <1>1, <1>2, <3>2, <3>3 DEF ToldInv
  <2> QED BY <2>1, <2>2
<1> QED BY <1>3, <1>4, <1>5, <1>6 DEF BrowserInv

(* The refresh has settled, or the change is refused, lost or in doubt.    *)
LEMMA SettledIsCurrent ==
  ASSUME BrowserInv, Refreshed \/ Conflicted \/ Lose \/ Vanish \/ \E outcome \in Outcomes : Errs(outcome)
  PROVE  BrowserInv'
<1>0. /\ world \in WorldState /\ world.revision \in Nat /\ post \in PostState
      /\ tab.latest \in Searches /\ tab.run \in RunIds /\ editor \in {Absent} \cup EditorState
      /\ world.travelling \subseteq Body
  BY BrowserConstants DEF BrowserInv, BrowserTyped, WorldState, TabState
<1>1. CASE Refreshed
  <2>1. /\ post.at = "refreshing" /\ post.asked \notin queue.active \cup queue.waiting
        /\ post' = [post EXCEPT !.at = "idle"]
        /\ UNCHANGED <<tab, trail, queue, reads, list, detail, panels, editor, world>>
    BY <1>1 DEF Refreshed
  <2>2. /\ post' \in PostState /\ post'.at = "idle" /\ post'.told = post.told /\ post'.op = post.op
        /\ post'.asked = post.asked /\ post'.since = post.since /\ post'.answer = post.answer
    BY <1>0, <2>1 DEF PostState
  <2>3. OperationsInv'
    BY <2>1, <2>2 DEF BrowserInv, OperationsInv, Sent
  <2>4. \A p \in Resources : /\ Fresh(p) => Fresh(p)'
                             /\ Shown(p) => Shown(p)'
    BY <2>1, <2>2 DEF Fresh, Shown, counts
  <2>5. ToldInv'
    BY <2>1, <2>2, <2>4 DEF BrowserInv, ToldInv
  <2> QED BY <1>0, <2>1, <2>2, <2>3, <2>5, PostAlone DEF BrowserInv, PageInv
<1>2. ASSUME NEW told \in {"conflict", "failed"}, post.at = "sent",
             post' = [post EXCEPT !.at = "idle", !.told = told],
             told = "conflict" => post.answer = "conflict",
             UNCHANGED <<tab, trail, queue, reads, list, detail, panels, editor, world>>
      PROVE  BrowserInv'
  <2>1. /\ post' \in PostState /\ post'.at = "idle" /\ post'.told = told /\ post'.op = post.op
        /\ post'.answer = post.answer
    BY <1>0, <1>2 DEF PostState
  <2>2. Sent' \subseteq Sent
    BY <1>2, <2>1 DEF Sent
  <2>3. OperationsInv'
    BY <1>2, <2>1, <2>2 DEF BrowserInv, OperationsInv
  <2>4. ToldInv'
    BY <1>2, <2>1 DEF ToldInv
  <2>5. tab.at = "memory"
    BY <1>2 DEF BrowserInv, PageInv
  <2> QED BY <1>0, <1>2, <2>1, <2>3, <2>4, <2>5, PostAlone
<1>3. CASE Conflicted
  BY <1>2, <1>3 DEF Conflicted
<1>4. ASSUME NEW outcome \in Outcomes, Errs(outcome) PROVE BrowserInv'
  <2>1. CASE Boundary("login")
    BY <1>0, <2>1, MountStarts DEF Boundary
  <2> QED BY <1>2, <1>4, <2>1 DEF Errs
<1>5. CASE Lose
  <2>1. CASE post.tries # 1
    BY <1>2, <1>5, <2>1 DEF Lose
  <2>2. CASE post.tries = 1
    <3>1. /\ post.at = "sent" /\ post' = [post EXCEPT !.tries = 2, !.answer = Absent]
          /\ world' = [world EXCEPT !.travelling = @ \cup {post.body}]
          /\ UNCHANGED <<tab, trail, queue, reads, list, detail, panels, editor>>
      BY <1>5, <2>2 DEF Lose
    <3>2. post.body \in Body
      BY <3>1 DEF BrowserInv, OperationsInv, Sent
    <3>3. /\ post' \in PostState /\ post'.at = post.at /\ post'.told = post.told
          /\ post'.op = post.op /\ post'.body = post.body /\ post'.answer = Absent
      <4>1. 2 \in 0..2 /\ Absent \in {Absent, "done", "conflict"}
        OBVIOUS
      <4>2. post' \in PostState
        BY <1>0, <3>1, <4>1 DEF PostState
      <4> QED BY <1>0, <3>1, <4>2 DEF PostState
    <3>4. /\ world' \in WorldState /\ world'.revision = world.revision /\ world'.used = world.used
          /\ world'.accepted = world.accepted
          /\ world'.travelling = world.travelling \cup {post.body}
      BY <1>0, <3>1, <3>2 DEF WorldState
    <3>5. Sent' = Sent
      BY <3>1, <3>3, <3>4 DEF Sent
    <3>6. post.told = "none" /\ tab.at = "memory"
      BY <3>1 DEF BrowserInv, OperationsInv, PageInv
    <3>7. OperationsInv'
      BY <3>1, <3>3, <3>4, <3>5, <3>6, AbsentIsNothing DEF BrowserInv, OperationsInv
    <3>8. ToldInv'
      BY <3>3, <3>6 DEF ToldInv
    <3> QED BY <1>0, <3>1, <3>3, <3>4, <3>6, <3>7, <3>8, PostAlone
  <2> QED BY <2>1, <2>2
<1>6. CASE Vanish
  <2>1. PICK body \in world.travelling :
          /\ world' = [world EXCEPT !.travelling = @ \ {body}]
          /\ UNCHANGED <<tab, trail, queue, reads, list, detail, panels, editor, post>>
    BY <1>6 DEF Vanish
  <2>2. /\ world' \in WorldState /\ world'.revision = world.revision /\ world'.used = world.used
        /\ world'.accepted = world.accepted /\ world'.travelling \subseteq world.travelling
    BY <1>0, <2>1 DEF WorldState
  <2>3. Sent' \subseteq Sent
    BY <2>1, <2>2 DEF Sent
  <2>4. OperationsInv'
    BY <2>1, <2>2, <2>3 DEF BrowserInv, OperationsInv
  <2>5. ToldInv'
    BY <1>0, <2>1, <2>2, TellingStays
  <2> QED BY <1>0, <2>1, <2>2, <2>4, <2>5, PostAlone DEF BrowserInv, PageInv
<1> QED BY <1>1, <1>3, <1>4, <1>5, <1>6

----------------------------------------------------------------------------
(* Every step of the tab, the server and the others, and stuttering.       *)
LEMMA NextIsCurrent == BrowserInv /\ [BrowserNext]_browserVars => BrowserInv'
<1> SUFFICES ASSUME BrowserInv, [BrowserNext]_browserVars PROVE BrowserInv'
  OBVIOUS
<1>0. tab \in TabState /\ tab.latest \in Searches /\ tab.run \in RunIds
  BY DEF BrowserInv, BrowserTyped, TabState
<1>b. Blank \in Searches /\ \A c \in Cursors \cup {First} : [Blank EXCEPT !.cursor = c] \in Searches
  BY DEF Blank, NoFilters, Searches
<1>1. CASE UNCHANGED browserVars
  <2>1. UNCHANGED <<tab, trail, queue, reads, list, detail, panels, editor, post, world>>
    BY <1>1 DEF browserVars
  <2>2. tab' \in TabState /\ tab'.latest.filters = tab'.picked
    BY <1>0, <2>1 DEF BrowserInv, PageInv
  <2> QED BY <2>1, <2>2, AddressIsCurrent DEF BrowserInv, BrowserTyped
<1>2. ASSUME NEW at \in Pages, NEW c \in Cursors \cup {First}, NEW run \in RunIds,
             Open(at, [Blank EXCEPT !.cursor = c], run)
      PROVE  BrowserInv'
  BY <1>2, <1>b, MountStarts DEF Open
<1>3. CASE Login
  BY <1>0, <1>b, <1>3, MountStarts DEF Login, Pages
<1>4. CASE ReadAnswered
  <2>1. PICK r \in reads :
          \/ \E outcome \in Outcomes : ListAnswer(r, outcome)
          \/ \E outcome \in Outcomes \cup {"missing"} : DetailAnswer(r, outcome)
          \/ \E outcome \in Outcomes : PanelAnswer(r, outcome)
          \/ \E outcome \in Outcomes : ContentAnswer(r, outcome)
    BY <1>4 DEF ReadAnswered
  <2> QED BY <2>1, ListAnswerIsCurrent, DetailAnswerIsCurrent, PanelAnswerIsCurrent, SessionIsCurrent
<1>5. CASE MemoryStep
  BY <1>5, ChooseIsCurrent, SessionIsCurrent, TypingIsCurrent, SendIsCurrent, ReceiveIsCurrent,
     SucceedIsCurrent, SettledIsCurrent DEF MemoryStep
<1> QED BY <1>1, <1>2, <1>3, <1>4, <1>5, RefreshIsCurrent, DrainIsCurrent, ListStepIsCurrent,
           HandleIsCurrent, ChangeIsCurrent DEF BrowserNext, Pages

(* A tab that was just opened.                                             *)
LEMMA InitIsCurrent == (\E at \in Pages : BrowserInit(at)) => BrowserInv
<1> SUFFICES ASSUME NEW at \in Pages, BrowserInit(at) PROVE BrowserInv
  OBVIOUS
<1>1. BrowserTyped
  <2>1. tab \in TabState
    <3>1. (CHOOSE r \in RunIds : TRUE) \in RunIds
      BY BrowserConstants
    <3>2. Blank \in Searches /\ NoFilters \in [Names -> Values \cup {Absent}]
      BY DEF Blank, NoFilters, Searches
    <3> QED BY <3>1, <3>2 DEF BrowserInit, TabState
  <2>2. queue \in QueueState /\ reads \subseteq ReadState
    BY DEF BrowserInit, QueueState, IdleQueue
  <2>3. list \in ListState /\ panels \in [Panels -> PanelState]
    BY DEF BrowserInit, ListState, EmptyList, PanelState, EmptyPanel, PanelKeys
  <2>4. post \in PostState
    BY DEF BrowserInit, PostState, NoPost
  <2>5. world \in WorldState
    BY BrowserConstants DEF BrowserInit, WorldState
  <2>6. DOMAIN trail = {}
    BY DEF BrowserInit
  <2> QED BY <2>1, <2>2, <2>3, <2>4, <2>5, <2>6 DEF BrowserInit, BrowserTyped
<1>2. QueueInv /\ PageInv /\ ListInv
  BY DEF BrowserInit, QueueInv, IdleQueue, PageInv, NoPost, ListInv, Pages, Blank
<1>3. ReadsInv /\ PanelsAreCurrent
  <2>1. \A p \in Panels : panels[p].newest = 0 /\ panels[p].data = Absent /\ panels[p].loading
    BY DEF BrowserInit, EmptyPanel
  <2>2. world.revision = 1 /\ reads = {}
    BY DEF BrowserInit
  <2> QED BY <2>1, <2>2 DEF ReadsInv, PanelsAreCurrent
<1>4. ToldInv
  BY DEF BrowserInit, ToldInv, NoPost
<1>5. OperationsInv
  <2>1. /\ Sent = {} /\ world.accepted = {} /\ world.used = 0 /\ editor = Absent
        /\ post.op = 0 /\ post.at = "idle" /\ post.told = "none" /\ post.answer = Absent
    BY DEF BrowserInit, NoPost, Sent
  <2> QED BY <2>1, AbsentIsNothing DEF OperationsInv
<1> QED BY <1>1, <1>2, <1>3, <1>4, <1>5 DEF BrowserInv

(* What the console shows and tells holds, for any number of refreshes,    *)
(* reads and operations: nobody who asked for a refresh is answered by an  *)
(* older one, the list is the one of the address, a panel never goes back  *)
(* to an older read, and a change that is told done is shown.              *)
THEOREM ConsoleIsAlwaysCurrent == BrowserSpec => []ConsoleIsCurrent
<1>1. BrowserInv => ConsoleIsCurrent
  <2> SUFFICES ASSUME BrowserInv PROVE ConsoleIsCurrent
    OBVIOUS
  <2>1. QueueIsFair /\ ListIsCurrent
    BY DEF BrowserInv, QueueInv, QueueIsFair, PageInv, ListInv, Listed, ListIsCurrent
  <2>2. ASSUME post.at = "idle", post.told = "done", NEW p \in Resources \ {"overview"}
        PROVE  panels[p].error \/ (panels[p].data # Absent /\ panels[p].data.version >= post.since)
    BY <2>2 DEF BrowserInv, ToldInv, Shown
  <2>3. ASSUME post.told = "conflict", editor # Absent, post.op \in editor.sent
        PROVE  \A o \in world.accepted : o.op \notin editor.sent
    BY <2>3 DEF BrowserInv, OperationsInv
  <2> QED BY <2>1, <2>2, <2>3 DEF BrowserInv, ConsoleIsCurrent, ChangesAreTold
<1> QED BY <1>1, InitIsCurrent, NextIsCurrent, PTL DEF BrowserSpec, Pages

-----------------------------------------------------------------------------
(***************************************************************************)
(* The Memory Catalog                                                      *)
(***************************************************************************)

Remembered == Extractions \cup Edits

RevisionIntents ==
  [owner: Publishers, trajectory: Trajectories, tree: SUBSET Remembered, expected: Nat,
   sources: SUBSET Extractions]

Row(intents) == [intent: intents, status: {"planned", "present", "selected"}]

Revision ==
  [owner: Publishers, predecessor: Nat, tree: SUBSET Remembered, trajectory: Trajectories]

Stages ==
  {"idle", "observe", "base", "reserve", "upload", "confirm", "register", "commit", "locked",
   "done", "dead"}

JobState ==
  [at: Stages, intent: {Null} \cup ExtractionIntents \cup RevisionIntents,
   batch: SUBSET Extractions]

(* What the catalog and its clients hold.                                  *)
CatalogTyped ==
  /\ candidates \subseteq Row(ExtractionIntents)
  /\ extractions \in [Extractions -> {Null} \cup ExtractionIntents]
  /\ observations \in [Extractions -> {Null} \cup 0..Len(revisions)]
  /\ publications \subseteq Row(RevisionIntents)
  /\ revisions \in Seq(Revision)
  /\ active \in 0..Len(revisions)
  /\ control \in ControlStates
  /\ ledger \in [Controls \cup Restores -> {Null} \cup Nat \cup ControlStates]
  /\ objects \in [trajectory: SUBSET Trajectories, tree: SUBSET SUBSET Remembered]
  /\ drafts \in [Operations -> {Null} \cup Drafts]
  /\ jobs \in [Owners -> [Attempts -> JobState]]
  /\ answers \in [Operations -> SUBSET (Nat \cup ControlStates)]
  /\ lost \in Nat

(* What an intent means: the tree of the revision it was built on, and what *)
(* its owner adds to it.                                                   *)
Builds(intent) ==
  /\ intent.expected \in 0..Len(revisions)
  /\ intent.tree = TreeOf(intent.expected) \cup
        (IF intent.owner \in Maintenances THEN intent.sources ELSE {intent.owner})
  /\ intent.owner \in Edits => intent.sources = {} /\ intent.trajectory = Null

(* An attempt works on an intent of its own, and has stored what it is     *)
(* about to confirm or commit.                                             *)
JobInv(o, job) ==
  /\ o \in Extractions /\ job.at \in {"reserve", "upload", "confirm", "register"} =>
       job.intent \in ExtractionIntents /\ job.intent.owner = o
  /\ o \in Publishers /\ job.at \in {"reserve", "upload", "confirm", "commit"} =>
       job.intent \in RevisionIntents /\ job.intent.owner = o /\ Builds(job.intent)
  /\ job.at \in {"confirm", "register", "commit"} => Uploaded(job.intent)
  /\ o \in Controls \cup Restores /\ job.at = "locked" => drafts[o] # Null

JobsInv == \A o \in Owners, a \in Attempts : JobInv(o, jobs[o][a])

(* Every record has the intent it was committed from.                      *)
IntentsInv ==
  /\ \A p \in publications : Builds(p.intent)
  /\ \A r \in DOMAIN revisions : \E p \in publications :
       p.intent.owner = revisions[r].owner /\ Identical(r, p.intent)
  /\ \A x \in Extractions :
       /\ extractions[x] # Null =>
            extractions[x].owner = x /\ \E p \in candidates : p.intent = extractions[x]
       /\ extractions[x] = Null => observations[x] = Null

(* What the operators asked for, and what they were told.                  *)
AnswersInv ==
  /\ \A o \in Edits : drafts[o] # Null =>
       drafts[o].expected \in 0..Len(revisions)
  /\ \A o \in Controls : drafts[o] # Null =>
       drafts[o] \in [expected: Nat, state: {"enabled", "paused"}]
  /\ \A o \in Restores : drafts[o] # Null =>
       drafts[o] \in [expected: Nat, target: Nat] /\ drafts[o].target \in 0..Len(revisions)
  /\ \A o \in Controls : ledger[o] # Null =>
       drafts[o] # Null /\ drafts[o].expected < control.generation
  /\ \A o \in Edits : answers[o] \subseteq RevisionOf(o)
  /\ \A o \in Controls \cup Restores : answers[o] \subseteq {ledger[o]} \ {Null}
  /\ control.generation = Cardinality({o \in Controls : ledger[o] # Null})

CatalogInv ==
  /\ CatalogTyped /\ JobsInv /\ IntentsInv /\ AnswersInv
  /\ CommittedIsStored /\ NothingIsForgotten /\ OneSelection

-----------------------------------------------------------------------------
(***************************************************************************)
(* What stays true while the catalog grows                                 *)
(***************************************************************************)

(* Revisions are only appended, objects only added, drafts only made.      *)
RevisionsGrow ==
  /\ revisions' \in Seq(Revision) /\ Len(revisions) <= Len(revisions')
  /\ \A r \in 1..Len(revisions) : revisions'[r] = revisions[r]

ObjectsGrow ==
  objects.trajectory \subseteq objects'.trajectory /\ objects.tree \subseteq objects'.tree

DraftsGrow == \A o \in Controls \cup Restores : drafts[o] # Null => drafts'[o] # Null

(* The two objects of an intent.                                           *)
LEMMA StoredMeans ==
  \A i, s : Stored(i, s) <=> /\ i.trajectory \in s.trajectory \cup {Null}
                             /\ i.tree \in s.tree \cup {Null}
BY DEF Stored

(* The tree of a revision is never rewritten.                              *)
LEMMA TreesKeep ==
  ASSUME CatalogTyped, RevisionsGrow
  PROVE  \A r \in 0..Len(revisions) : TreeOf(r)' = TreeOf(r)
<1> SUFFICES ASSUME NEW r \in 0..Len(revisions) PROVE TreeOf(r)' = TreeOf(r)
  OBVIOUS
<1>1. r = 0 \/ r \in 1..Len(revisions)
  BY DEF CatalogTyped
<1> QED BY <1>1 DEF TreeOf, RevisionsGrow

(* A tree is a set of what may be remembered.                              *)
LEMMA TreesAreTyped ==
  ASSUME CatalogTyped
  PROVE  \A r \in 0..Len(revisions) : TreeOf(r) \subseteq Remembered
<1> SUFFICES ASSUME NEW r \in 0..Len(revisions) PROVE TreeOf(r) \subseteq Remembered
  OBVIOUS
<1>1. CASE r = 0
  BY <1>1 DEF TreeOf
<1>2. CASE r # 0
  <2>1. revisions[r] \in Revision
    BY <1>2 DEF CatalogTyped
  <2> QED BY <1>2, <2>1 DEF TreeOf, Revision
<1> QED BY <1>1, <1>2

(* What an intent was built on stays what it was.                          *)
LEMMA BuildsKeeps ==
  ASSUME CatalogTyped, RevisionsGrow
  PROVE  \A i : Builds(i) => Builds(i)'
<1> SUFFICES ASSUME NEW i, Builds(i) PROVE Builds(i)'
  OBVIOUS
<1>1. i.expected \in 0..Len(revisions')
  BY DEF Builds, RevisionsGrow, CatalogTyped
<1>2. TreeOf(i.expected)' = TreeOf(i.expected)
  BY TreesKeep DEF Builds
<1> QED BY <1>1, <1>2 DEF Builds

(* What is stored stays stored.                                            *)
LEMMA UploadedKeeps ==
  ASSUME ObjectsGrow
  PROVE  \A i : Uploaded(i) => Uploaded(i)'
BY StoredMeans DEF Uploaded, ObjectsGrow

(* What holds of an attempt keeps holding.                                 *)
LEMMA JobKeeps ==
  ASSUME CatalogTyped, RevisionsGrow, ObjectsGrow, DraftsGrow
  PROVE  \A o, job : JobInv(o, job) => JobInv(o, job)'
<1> SUFFICES ASSUME NEW o, NEW job, JobInv(o, job) PROVE JobInv(o, job)'
  OBVIOUS
<1> QED BY BuildsKeeps, UploadedKeeps DEF JobInv, DraftsGrow

(* The attempt that moves brings its own invariant; the others keep theirs. *)
LEMMA JobsKeep ==
  ASSUME CatalogTyped, JobsInv, RevisionsGrow, ObjectsGrow, DraftsGrow,
         NEW o \in Owners, NEW a \in Attempts, NEW job \in JobState, JobInv(o, job)',
         \/ Goes(o, a, job)
         \/ lost < MaxLost /\ lost' = lost + 1 /\ UNCHANGED jobs
  PROVE  JobsInv' /\ jobs' \in [Owners -> [Attempts -> JobState]] /\ lost' \in Nat
<1> DEFINE dead == [Idle EXCEPT !.at = "dead"]
<1>1. dead \in JobState /\ JobInv(o, dead)'
  BY DEF Idle, JobState, Stages, JobInv
<1>2. CASE UNCHANGED jobs /\ lost' = lost + 1
  BY <1>2, JobKeeps DEF JobsInv, CatalogTyped
<1>3. ASSUME NEW new \in JobState, JobInv(o, new)', jobs' = [jobs EXCEPT ![o][a] = new]
      PROVE  JobsInv' /\ jobs' \in [Owners -> [Attempts -> JobState]]
  <2>1. jobs' \in [Owners -> [Attempts -> JobState]]
    BY <1>3 DEF CatalogTyped
  <2>2. ASSUME NEW p \in Owners, NEW b \in Attempts
        PROVE  JobInv(p, jobs[p][b])'
    <3>1. CASE p = o /\ b = a
      <4>1. jobs'[p][b] = new
        BY <1>3, <3>1 DEF CatalogTyped
      <4> QED BY <4>1, <1>3, <3>1 DEF JobInv, Builds, Uploaded, Stored, TreeOf
    <3>2. CASE ~(p = o /\ b = a)
      <4>1. jobs'[p][b] = jobs[p][b]
        BY <1>3, <3>2 DEF CatalogTyped
      <4>2. JobInv(p, jobs[p][b])
        BY DEF JobsInv
      <4>3. PICK j : j = jobs[p][b]
        OBVIOUS
      <4>4. JobInv(p, j)'
        BY <4>2, <4>3, JobKeeps
      <4> QED BY <4>1, <4>3, <4>4 DEF JobInv, Builds, Uploaded, Stored, TreeOf
    <3> QED BY <3>1, <3>2
  <2> QED BY <2>1, <2>2 DEF JobsInv
<1>4. lost' \in Nat
  BY DEF Goes, CatalogTyped
<1> QED BY <1>1, <1>2, <1>3, <1>4 DEF Goes

(* A step that only moves an attempt.                                      *)
LEMMA OnlyJobs ==
  ASSUME CatalogInv, UNCHANGED <<rows, objects, drafts, answers>>,
         NEW o \in Owners, NEW a \in Attempts, NEW job \in JobState, JobInv(o, job),
         \/ Goes(o, a, job)
         \/ lost < MaxLost /\ lost' = lost + 1 /\ UNCHANGED jobs
  PROVE  CatalogInv'
<1>1. /\ RevisionsGrow /\ ObjectsGrow /\ DraftsGrow
  BY DEF CatalogInv, CatalogTyped, RevisionsGrow, ObjectsGrow, DraftsGrow, rows
<1>2. JobInv(o, job)'
  BY <1>1, JobKeeps DEF CatalogInv
<1>3. JobsInv' /\ jobs' \in [Owners -> [Attempts -> JobState]] /\ lost' \in Nat
  BY <1>1, <1>2, JobsKeep DEF CatalogInv
<1>4. CatalogTyped'
  BY <1>3 DEF CatalogInv, CatalogTyped, rows
<1>5. IntentsInv'
  BY DEF CatalogInv, IntentsInv, Builds, TreeOf, Identical, ConsumedBy, rows
<1>6. AnswersInv'
  BY DEF CatalogInv, AnswersInv, RevisionOf, rows
<1>7. CommittedIsStored' /\ NothingIsForgotten' /\ OneSelection'
  BY DEF CatalogInv, CommittedIsStored, NothingIsForgotten, OneSelection, IsMaintenance, Uploaded,
         Stored, TreeOf, Identical, ConsumedBy, RevisionOf, rows
<1> QED BY <1>3, <1>4, <1>5, <1>6, <1>7 DEF CatalogInv

(* Where an attempt is found, and what holds of it.                        *)
LEMMA JobHolds ==
  ASSUME CatalogInv, NEW o \in Owners, NEW a \in Attempts
  PROVE  jobs[o][a] \in JobState /\ JobInv(o, jobs[o][a])
BY DEF CatalogInv, CatalogTyped, JobsInv

(* Attempts that only read, or that plan what they will publish.           *)
LEMMA PrepareExtraction ==
  ASSUME CatalogInv, NEW x \in Extractions, NEW a \in Attempts, prepare_memory_extraction(x, a)
  PROVE  CatalogInv'
<1>1. x \in Owners
  BY DEF Owners
<1>2. ASSUME NEW p \in Recovered(candidates, x),
             Goes(x, a, [Idle EXCEPT !.at = "confirm", !.intent = p.intent])
      PROVE  CatalogInv'
  <2>1. p \in candidates /\ p.intent.owner = x /\ Uploaded(p.intent)
    BY DEF Recovered, Recoverable
  <2>2. p.intent \in ExtractionIntents
    BY <2>1 DEF CatalogInv, CatalogTyped, Row
  <2>3. PICK job : job = [Idle EXCEPT !.at = "confirm", !.intent = p.intent]
    OBVIOUS
  <2>4. job = [at |-> "confirm", intent |-> p.intent, batch |-> {}]
    BY <2>3 DEF Idle
  <2>5. job \in JobState
    BY <2>2, <2>4 DEF JobState, Stages
  <2>6. JobInv(x, job)
    BY <2>1, <2>2, <2>4, OwnersAreApart DEF JobInv, Publishers, Operations
  <2>7. Goes(x, a, job)
    BY <1>2, <2>3
  <2> QED BY <1>1, <2>5, <2>6, <2>7, OnlyJobs DEF prepare_memory_extraction
<1>3. ASSUME NEW seen \in BOOLEAN,
             Goes(x, a, [Idle EXCEPT !.at = "reserve",
                 !.intent = [owner |-> x, trajectory |-> <<x, a>>, tree |-> Null,
                             observation |-> seen]])
      PROVE  CatalogInv'
  <2>1. PICK i : i = [owner |-> x, trajectory |-> <<x, a>>, tree |-> Null, observation |-> seen]
    OBVIOUS
  <2>2. i \in ExtractionIntents /\ i.owner = x
    BY <1>1, <2>1 DEF ExtractionIntents, Trajectories
  <2>3a. PICK job : job = [Idle EXCEPT !.at = "reserve", !.intent = i]
    OBVIOUS
  <2>3. job = [at |-> "reserve", intent |-> i, batch |-> {}]
    BY <2>3a DEF Idle
  <2>4. job \in JobState
    BY <2>2, <2>3 DEF JobState, Stages
  <2>5. JobInv(x, job)
    BY <2>2, <2>3, OwnersAreApart DEF JobInv, Publishers, Operations
  <2>7. Goes(x, a, job)
    BY <1>3, <2>1, <2>3a
  <2> QED BY <1>1, <2>4, <2>5, <2>7, OnlyJobs DEF prepare_memory_extraction
<1> QED BY <1>2, <1>3 DEF prepare_memory_extraction

(* A maintenance reads the pending observations and the active revision.   *)
LEMMA PrepareMaintenance ==
  ASSUME CatalogInv, NEW m \in Maintenances, NEW a \in Attempts,
         \/ prepare_memory_maintenance_activity(m, a)
         \/ SelectPending(m, a)
         \/ getMaintenanceInput(m, a)
  PROVE  CatalogInv'
<1>1. m \in Owners /\ m \in Publishers /\ m \notin Extractions /\ m \notin Controls \cup Restores
  BY OwnersAreApart DEF Owners, Publishers, Operations
<1>2. UNCHANGED <<rows, objects, drafts, answers>>
  BY DEF prepare_memory_maintenance_activity, SelectPending, getMaintenanceInput
<1>3. jobs[m][a] \in JobState /\ JobInv(m, jobs[m][a])
  BY <1>1, JobHolds
<1>4. ASSUME NEW at \in {"done", "observe"}, Next_(m, a, at) PROVE CatalogInv'
  <2>1. PICK job : job = [jobs[m][a] EXCEPT !.at = at]
    OBVIOUS
  <2>2. job \in JobState /\ job.at = at
    BY <1>3, <2>1 DEF JobState, Stages
  <2>3. JobInv(m, job)
    BY <2>2, <1>1 DEF JobInv
  <2> QED BY <1>1, <1>2, <1>4, <2>1, <2>2, <2>3, OnlyJobs DEF Next_
<1>5. ASSUME NEW p \in Recovered(publications, m),
             Goes(m, a, [Idle EXCEPT !.at = "confirm", !.intent = p.intent])
      PROVE  CatalogInv'
  <2>1. p \in publications /\ p.intent.owner = m /\ Uploaded(p.intent)
    BY DEF Recovered, Recoverable
  <2>2. p.intent \in RevisionIntents /\ Builds(p.intent)
    BY <2>1 DEF CatalogInv, CatalogTyped, Row, IntentsInv
  <2>3a. PICK job : job = [Idle EXCEPT !.at = "confirm", !.intent = p.intent]
    OBVIOUS
  <2>3. job = [at |-> "confirm", intent |-> p.intent, batch |-> {}]
    BY <2>3a DEF Idle
  <2>4. job \in JobState
    BY <2>2, <2>3 DEF JobState, Stages
  <2>5. JobInv(m, job)
    BY <1>1, <2>1, <2>2, <2>3 DEF JobInv
  <2>7. Goes(m, a, job)
    BY <1>5, <2>3a
  <2> QED BY <1>1, <1>2, <2>4, <2>5, <2>7, OnlyJobs
<1>6. CASE SelectPending(m, a)
  <2>1. CASE Next_(m, a, "done")
    BY <1>4, <2>1
  <2>2. ASSUME NEW batch \in SUBSET Pending, Goes(m, a, [Idle EXCEPT !.at = "base", !.batch = batch])
        PROVE  CatalogInv'
    <3>1a. PICK job : job = [Idle EXCEPT !.at = "base", !.batch = batch]
      OBVIOUS
    <3>1. job = [at |-> "base", intent |-> Null, batch |-> batch]
      BY <3>1a DEF Idle
    <3>2. job \in JobState
      BY <3>1 DEF JobState, Stages, Pending
    <3>3. JobInv(m, job)
      BY <3>1 DEF JobInv
    <3>5. Goes(m, a, job)
      BY <2>2, <3>1a
    <3> QED BY <1>1, <1>2, <3>2, <3>3, <3>5, OnlyJobs
  <2> QED BY <1>6, <2>1, <2>2 DEF SelectPending
<1>7. CASE getMaintenanceInput(m, a)
  <2>1. PICK i : i = [owner |-> m, trajectory |-> <<m, a>>, tree |-> TreeOf(active) \cup jobs[m][a].batch,
                      expected |-> active, sources |-> jobs[m][a].batch]
    OBVIOUS
  <2>2. jobs[m][a].batch \subseteq Extractions
    BY <1>3 DEF JobState
  <2>3. active \in 0..Len(revisions) /\ TreeOf(active) \subseteq Remembered
    BY TreesAreTyped DEF CatalogInv, CatalogTyped
  <2>4. i.tree \subseteq Remembered
    BY <2>1, <2>2, <2>3 DEF Remembered
  <2>5. i \in RevisionIntents
    BY <1>1, <2>1, <2>2, <2>3, <2>4 DEF RevisionIntents, Trajectories
  <2>6. Builds(i)
    BY <2>1, <2>3, OwnersAreApart DEF Builds, Operations
  <2>7a. PICK job : job = [jobs[m][a] EXCEPT !.at = "reserve", !.intent = i]
    OBVIOUS
  <2>7. job = [at |-> "reserve", intent |-> i, batch |-> jobs[m][a].batch]
    BY <2>7a, <1>3 DEF JobState
  <2>8. job \in JobState
    BY <2>2, <2>5, <2>7 DEF JobState, Stages
  <2>9. JobInv(m, job)
    BY <1>1, <2>1, <2>5, <2>6, <2>7 DEF JobInv
  <2>11. Goes(m, a, job)
    BY <1>7, <2>1, <2>7a DEF getMaintenanceInput
  <2> QED BY <1>1, <1>2, <2>8, <2>9, <2>11, OnlyJobs
<1> QED BY <1>4, <1>5, <1>6, <1>7 DEF prepare_memory_maintenance_activity

(* A step that leaves the history alone.                                   *)
LEMMA HistoryKeeps ==
  ASSUME CatalogInv, UNCHANGED <<candidates, extractions, observations, publications, revisions>>,
         ObjectsGrow
  PROVE  IntentsInv' /\ CommittedIsStored' /\ NothingIsForgotten' /\ OneSelection'
<1>1. IntentsInv'
  BY DEF CatalogInv, IntentsInv, Builds, TreeOf, Identical, ConsumedBy
<1>2. CommittedIsStored'
  <2>1. \A r \in DOMAIN revisions : Uploaded(revisions[r])'
    <3>1. \A r \in DOMAIN revisions : Uploaded(revisions[r])
      BY DEF CatalogInv, CommittedIsStored
    <3> QED BY <3>1, StoredMeans DEF Uploaded, ObjectsGrow
  <2>2. \A x \in Extractions : extractions[x] # Null => Uploaded(extractions[x])'
    <3>1. \A x \in Extractions : extractions[x] # Null => Uploaded(extractions[x])
      BY DEF CatalogInv, CommittedIsStored
    <3> QED BY <3>1, StoredMeans DEF Uploaded, ObjectsGrow
  <2> QED BY <2>1, <2>2 DEF CommittedIsStored
<1>3. NothingIsForgotten' /\ OneSelection'
  BY DEF CatalogInv, NothingIsForgotten, OneSelection, IsMaintenance, TreeOf, Identical, ConsumedBy,
         RevisionOf
<1> QED BY <1>1, <1>2, <1>3

(* Kinds of owners are told apart.                                         *)
LEMMA Kinds ==
  /\ \A o \in Extractions : o \in Owners /\ o \notin Publishers \cup Operations
  /\ \A o \in Maintenances : o \in Owners /\ o \in Publishers /\ o \notin Extractions \cup Operations
  /\ \A o \in Edits :
       /\ o \in Owners /\ o \in Publishers /\ o \in Operations
       /\ o \notin Extractions \cup Maintenances \cup Controls \cup Restores
  /\ \A o \in Controls :
       /\ o \in Owners /\ o \in Operations
       /\ o \notin Extractions \cup Publishers \cup Restores
  /\ \A o \in Restores :
       /\ o \in Owners /\ o \in Operations
       /\ o \notin Extractions \cup Publishers \cup Controls
BY OwnersAreApart DEF Owners, Publishers, Operations

(* The same job at another place.                                          *)
LEMMA Advanced ==
  ASSUME CatalogInv, NEW o \in Owners, NEW a \in Attempts, NEW at \in Stages
  PROVE  \E job \in JobState :
           /\ job.at = at /\ job.intent = jobs[o][a].intent /\ job.batch = jobs[o][a].batch
           /\ Next_(o, a, at) => Goes(o, a, job)
<1>1. jobs[o][a] \in JobState
  BY JobHolds
<1>2. PICK job : job = [jobs[o][a] EXCEPT !.at = at]
  OBVIOUS
<1>3. job = [at |-> at, intent |-> jobs[o][a].intent, batch |-> jobs[o][a].batch]
  BY <1>1, <1>2 DEF JobState
<1>4. job \in JobState
  BY <1>1, <1>3 DEF JobState
<1> QED BY <1>2, <1>3, <1>4 DEF Next_

(* An attempt that is done has nothing left to hold.                       *)
LEMMA Finishes ==
  ASSUME CatalogInv, UNCHANGED <<rows, objects, drafts, answers>>,
         NEW o \in Owners, NEW a \in Attempts,
         \/ Next_(o, a, "done")
         \/ lost < MaxLost /\ lost' = lost + 1 /\ UNCHANGED jobs
  PROVE  CatalogInv'
<1>1. PICK job \in JobState : job.at = "done" /\ (Next_(o, a, "done") => Goes(o, a, job))
  BY Advanced DEF Stages
<1>2. JobInv(o, job)
  BY <1>1 DEF JobInv
<1> QED BY <1>1, <1>2, OnlyJobs

(* The operator decides what an operation asks for.                        *)
LEMMA DraftIsSound ==
  ASSUME CatalogInv, NEW o \in Operations, Draft(o)
  PROVE  CatalogInv'
<1>1. PICK wish \in Wishes(o) : drafts' = [drafts EXCEPT ![o] = wish]
  BY DEF Draft
<1>2. drafts[o] = Null /\ UNCHANGED <<rows, objects, jobs, answers, lost>>
  BY DEF Draft
<1>3. /\ o \in Edits => wish \in [expected: Nat] /\ wish.expected \in 0..Len(revisions)
      /\ o \in Controls => wish \in [expected: Nat, state: {"enabled", "paused"}]
      /\ o \in Restores => wish \in [expected: Nat, target: Nat] /\ wish.target \in 0..Len(revisions)
      /\ o \in Edits \/ o \in Controls \/ o \in Restores
  <2>1. CASE o \in Edits
    <3>1. wish = [expected |-> active]
      BY <2>1, <1>1, Kinds DEF Wishes
    <3> QED BY <2>1, <3>1, Kinds DEF CatalogInv, CatalogTyped
  <2>2. CASE o \in Controls
    <3>1. wish \in [expected : {control.generation}, state : {"enabled", "paused"}]
      BY <2>2, <1>1, Kinds DEF Wishes
    <3> QED BY <2>2, <3>1, Kinds DEF CatalogInv, CatalogTyped, ControlStates
  <2>3. CASE o \in Restores
    <3>1. wish \in [expected : {active}, target : DOMAIN revisions]
      BY <2>3, <1>1, Kinds DEF Wishes
    <3> QED BY <2>3, <3>1, Kinds DEF CatalogInv, CatalogTyped
  <2> QED BY <2>1, <2>2, <2>3 DEF Operations
<1>4. wish \in Drafts /\ wish # Null
  BY <1>3, NullIsNothing DEF Drafts
<1>5. /\ drafts' \in [Operations -> {Null} \cup Drafts] /\ drafts'[o] = wish
      /\ \A p \in Operations \ {o} : drafts'[p] = drafts[p]
  BY <1>1, <1>4 DEF CatalogInv, CatalogTyped
<1>6. RevisionsGrow /\ ObjectsGrow /\ DraftsGrow
  BY <1>2, <1>4, <1>5 DEF CatalogInv, CatalogTyped, RevisionsGrow, ObjectsGrow, DraftsGrow, rows, Operations
<1>7. CatalogTyped'
  BY <1>2, <1>5 DEF CatalogInv, CatalogTyped, rows
<1>8. JobsInv'
  <2>1. ASSUME NEW p \in Owners, NEW a \in Attempts PROVE JobInv(p, jobs[p][a])'
    <3>1. PICK job : job = jobs[p][a]
      OBVIOUS
    <3>2. JobInv(p, job)'
      BY <1>6, <3>1, JobKeeps, JobHolds DEF CatalogInv
    <3> QED BY <1>2, <3>1, <3>2 DEF JobInv, Builds, Uploaded, Stored, TreeOf
  <2> QED BY <2>1 DEF JobsInv
<1>9. AnswersInv'
  <2>1. \A p \in Edits : drafts'[p] # Null => drafts'[p].expected \in 0..Len(revisions)
    BY <1>3, <1>5 DEF CatalogInv, AnswersInv, Operations
  <2>2. \A p \in Controls : drafts'[p] # Null =>
          drafts'[p] \in [expected: Nat, state: {"enabled", "paused"}]
    BY <1>3, <1>5 DEF CatalogInv, AnswersInv, Operations
  <2>3. \A p \in Restores : drafts'[p] # Null =>
          drafts'[p] \in [expected: Nat, target: Nat] /\ drafts'[p].target \in 0..Len(revisions)
    BY <1>3, <1>5 DEF CatalogInv, AnswersInv, Operations
  <2>4. \A p \in Controls : ledger[p] # Null =>
          drafts'[p] # Null /\ drafts'[p].expected < control.generation
    BY <1>2, <1>5 DEF CatalogInv, AnswersInv, Operations
  <2> QED BY <1>2, <2>1, <2>2, <2>3, <2>4 DEF CatalogInv, AnswersInv, RevisionOf, rows
<1> QED BY <1>2, <1>6, <1>7, <1>8, <1>9, HistoryKeeps DEF CatalogInv, rows

(* An edit is built on the revision its operator saw.                      *)
LEMMA PublishIsSound ==
  ASSUME CatalogInv, NEW o \in Edits, NEW a \in Attempts, publishMemoryEdit(o, a)
  PROVE  CatalogInv'
<1> DEFINE e == drafts[o].expected
<1>1. o \in Owners /\ o \in Publishers /\ o \notin Extractions \cup Maintenances \cup Controls \cup Restores
  BY Kinds
<1>2. e \in 0..Len(revisions) /\ e \in Nat /\ TreeOf(e) \subseteq Remembered
  BY TreesAreTyped DEF publishMemoryEdit, CatalogInv, AnswersInv, CatalogTyped
<1>3. PICK i : i = [owner |-> o, trajectory |-> Null, tree |-> TreeOf(e) \cup {o}, expected |-> e,
                    sources |-> {}]
  OBVIOUS
<1>4. i.tree \subseteq Remembered
  BY <1>2, <1>3 DEF Remembered
<1>5. i \in RevisionIntents /\ i.owner = o
  BY <1>1, <1>2, <1>3, <1>4 DEF RevisionIntents, Trajectories
<1>6. Builds(i)
  BY <1>1, <1>2, <1>3 DEF Builds
<1>7. PICK job : job = [Idle EXCEPT !.at = "reserve", !.intent = i]
  OBVIOUS
<1>8. job = [at |-> "reserve", intent |-> i, batch |-> {}]
  BY <1>7 DEF Idle
<1>9. job \in JobState /\ JobInv(o, job)
  BY <1>1, <1>5, <1>6, <1>8 DEF JobState, Stages, JobInv
<1>10. Goes(o, a, job) /\ UNCHANGED <<rows, objects, drafts, answers>>
  BY <1>3, <1>7 DEF publishMemoryEdit
<1> QED BY <1>1, <1>9, <1>10, OnlyJobs

(* An operator's client is answered, or the answer is lost.                *)
LEMMA AnsweredClient ==
  ASSUME CatalogInv, NEW o \in Operations, NEW a \in Attempts,
         NEW result \in Nat \cup ControlStates, Answers(o, a, result)
  PROVE  /\ answers' \in [Operations -> SUBSET (Nat \cup ControlStates)]
         /\ answers'[o] = answers[o] \cup {result}
         /\ \A p \in Operations \ {o} : answers'[p] = answers[p]
BY DEF CatalogInv, CatalogTyped, Answers

(* The attempt is done or stays, whatever else changes.                    *)
LEMMA FinishedJob ==
  ASSUME CatalogInv, NEW o \in Owners, NEW a \in Attempts, RevisionsGrow, ObjectsGrow, DraftsGrow,
         \/ Next_(o, a, "done")
         \/ lost < MaxLost /\ lost' = lost + 1 /\ UNCHANGED jobs
  PROVE  JobsInv' /\ jobs' \in [Owners -> [Attempts -> JobState]] /\ lost' \in Nat
<1>1. PICK job \in JobState : job.at = "done" /\ (Next_(o, a, "done") => Goes(o, a, job))
  BY Advanced DEF Stages
<1>2. JobInv(o, job)'
  BY <1>1 DEF JobInv
<1> QED BY <1>1, <1>2, JobsKeep DEF CatalogInv

(* A recorded result is told again.                                        *)
LEMMA LedgerReadIsSound ==
  ASSUME CatalogInv, NEW o \in Controls \cup Restores, NEW a \in Attempts, ReadLedger(o, a)
  PROVE  CatalogInv'
<1>1. o \in Owners /\ o \in Operations /\ o \notin Extractions \cup Publishers
  BY Kinds
<1>2. CASE ledger[o] = Null /\ Next_(o, a, "locked") /\ UNCHANGED answers
  <2>1. PICK job \in JobState : job.at = "locked" /\ (Next_(o, a, "locked") => Goes(o, a, job))
    BY <1>1, Advanced DEF Stages
  <2>2. JobInv(o, job)
    BY <1>1, <2>1 DEF JobInv, ReadLedger
  <2> QED BY <1>1, <1>2, <2>1, <2>2, OnlyJobs DEF ReadLedger
<1>3. CASE ledger[o] # Null /\ Answers(o, a, ledger[o])
  <2>1. ledger[o] \in Nat \cup ControlStates
    BY <1>3 DEF CatalogInv, CatalogTyped
  <2>2. /\ answers' \in [Operations -> SUBSET (Nat \cup ControlStates)]
        /\ answers'[o] = answers[o] \cup {ledger[o]}
        /\ \A p \in Operations \ {o} : answers'[p] = answers[p]
    BY <1>1, <1>3, <2>1, AnsweredClient
  <2>3. UNCHANGED <<rows, objects, drafts>>
    BY DEF ReadLedger
  <2>4. RevisionsGrow /\ ObjectsGrow /\ DraftsGrow
    BY <2>3 DEF CatalogInv, CatalogTyped, RevisionsGrow, ObjectsGrow, DraftsGrow, rows
  <2>5. JobsInv' /\ jobs' \in [Owners -> [Attempts -> JobState]] /\ lost' \in Nat
    BY <1>1, <1>3, <2>4, FinishedJob DEF Answers
  <2>6. CatalogTyped'
    BY <2>2, <2>3, <2>5 DEF CatalogInv, CatalogTyped, rows
  <2>7. AnswersInv'
    <3>1. \A p \in Edits : answers'[p] = answers[p]
      BY <1>1, <2>2, Kinds
    <3>2. \A p \in Controls \cup Restores : answers'[p] \subseteq {ledger[p]} \ {Null}
      BY <1>3, <2>2, Kinds DEF CatalogInv, AnswersInv
    <3> QED BY <2>3, <3>1, <3>2 DEF CatalogInv, AnswersInv, RevisionOf, rows
  <2> QED BY <2>3, <2>4, <2>5, <2>6, <2>7, HistoryKeeps DEF CatalogInv, rows
<1> QED BY <1>2, <1>3 DEF ReadLedger

(* Pause and resume: one operation, one generation.                        *)
LEMMA ControlIsSound ==
  ASSUME CatalogInv, NEW o \in Controls, NEW a \in Attempts, changeMaintenanceControl(o, a)
  PROVE  CatalogInv'
<1>1. o \in Owners /\ o \in Operations /\ o \notin Extractions \cup Publishers
  BY Kinds
<1>2. CASE ~Transitions(o) /\ Next_(o, a, "done") /\ UNCHANGED <<control, ledger, answers>>
  BY <1>1, <1>2, Finishes DEF changeMaintenanceControl, rows
<1>3. CASE /\ Transitions(o)
           /\ control' = [state |-> drafts[o].state, generation |-> control.generation + 1]
           /\ ledger' = [ledger EXCEPT ![o] = control']
           /\ Answers(o, a, control')
  <2>1. drafts[o] # Null
    BY <1>1, JobHolds DEF changeMaintenanceControl, At, JobInv
  <2>2. drafts[o] \in [expected: Nat, state: {"enabled", "paused"}]
    BY <2>1 DEF CatalogInv, AnswersInv
  <2>3. control.generation \in Nat
    BY DEF CatalogInv, CatalogTyped, ControlStates
  <2>4. control' \in ControlStates /\ control'.generation = control.generation + 1 /\ control' # Null
    BY <1>3, <2>2, <2>3, NullIsNothing DEF ControlStates
  <2>5. ledger[o] = Null
    BY <1>3, <2>2, <2>3 DEF Transitions, CatalogInv, AnswersInv
  <2>6. /\ ledger' \in [Controls \cup Restores -> {Null} \cup Nat \cup ControlStates]
        /\ ledger'[o] = control' /\ \A p \in (Controls \cup Restores) \ {o} : ledger'[p] = ledger[p]
    BY <1>3, <2>4 DEF CatalogInv, CatalogTyped
  <2>7. /\ answers' \in [Operations -> SUBSET (Nat \cup ControlStates)]
        /\ answers'[o] = answers[o] \cup {control'}
        /\ \A p \in Operations \ {o} : answers'[p] = answers[p]
    <3>1. PICK c : c = control'
      OBVIOUS
    <3>2. c \in Nat \cup ControlStates /\ Answers(o, a, c)
      BY <1>3, <2>4, <3>1 DEF Answers
    <3> QED BY <1>1, <3>1, <3>2, AnsweredClient
  <2>8. UNCHANGED <<candidates, extractions, observations, publications, revisions, active,
                    objects, drafts>>
    BY DEF changeMaintenanceControl
  <2>9. RevisionsGrow /\ ObjectsGrow /\ DraftsGrow
    BY <2>8 DEF CatalogInv, CatalogTyped, RevisionsGrow, ObjectsGrow, DraftsGrow
  <2>10. JobsInv' /\ jobs' \in [Owners -> [Attempts -> JobState]] /\ lost' \in Nat
    BY <1>1, <1>3, <2>9, FinishedJob DEF Answers
  <2>11. CatalogTyped'
    BY <2>4, <2>6, <2>7, <2>8, <2>10 DEF CatalogInv, CatalogTyped
  <2>12. AnswersInv'
    <3>1. /\ \A p \in Edits : answers'[p] = answers[p]
          /\ \A p \in Controls \cup Restores : answers'[p] \subseteq {ledger'[p]} \ {Null}
      <4>1. answers[o] = {}
        BY <2>5 DEF CatalogInv, AnswersInv
      <4> QED BY <1>1, <2>4, <2>6, <2>7, <4>1, Kinds DEF CatalogInv, AnswersInv
    <3>2. \A p \in Controls : ledger'[p] # Null =>
            drafts[p] # Null /\ drafts[p].expected < control'.generation
      <4> SUFFICES ASSUME NEW p \in Controls, ledger'[p] # Null
                   PROVE  drafts[p] # Null /\ drafts[p].expected < control'.generation
        OBVIOUS
      <4>1. CASE p = o
        BY <1>3, <2>1, <2>2, <2>3, <2>4, <4>1 DEF Transitions
      <4>2. CASE p # o
        <5>1. drafts[p] # Null /\ drafts[p].expected < control.generation
          BY <2>6, <4>2 DEF CatalogInv, AnswersInv
        <5>2. drafts[p].expected \in Nat
          BY <5>1 DEF CatalogInv, AnswersInv
        <5> QED BY <5>1, <5>2, <2>3, <2>4
      <4> QED BY <4>1, <4>2
    <3>3. control'.generation = Cardinality({p \in Controls : ledger'[p] # Null})
      <4> DEFINE before == {p \in Controls : ledger[p] # Null}
      <4>1. {p \in Controls : ledger'[p] # Null} = before \cup {o}
        BY <2>4, <2>6
      <4>2. IsFiniteSet(before) /\ o \notin before
        BY <2>5, OwnersAreApart, FS_Subset
      <4>3. Cardinality(before \cup {o}) = Cardinality(before) + 1
        BY <4>2, FS_AddElement
      <4> QED BY <2>4, <4>1, <4>3 DEF CatalogInv, AnswersInv
    <3> QED BY <2>8, <3>1, <3>2, <3>3 DEF CatalogInv, AnswersInv, RevisionOf
  <2> QED BY <2>8, <2>9, <2>10, <2>11, <2>12, HistoryKeeps DEF CatalogInv
<1> QED BY <1>2, <1>3 DEF changeMaintenanceControl

(* A restore moves the active pointer to a recorded revision, once.        *)
LEMMA RestoreIsSound ==
  ASSUME CatalogInv, NEW o \in Restores, NEW a \in Attempts, restoreMemoryTree(o, a)
  PROVE  CatalogInv'
<1>1. o \in Owners /\ o \in Operations /\ o \notin Extractions \cup Publishers
  BY Kinds
<1>2. CASE Next_(o, a, "done") /\ UNCHANGED <<active, ledger, answers>>
  BY <1>1, <1>2, Finishes DEF restoreMemoryTree, rows
<1>3. CASE /\ Restorable(o) /\ ledger[o] = Null
           /\ active' = drafts[o].target
           /\ ledger' = [ledger EXCEPT ![o] = drafts[o].target]
           /\ Answers(o, a, drafts[o].target)
  <2> DEFINE t == drafts[o].target
  <2>1. drafts[o] # Null
    BY <1>1, JobHolds DEF restoreMemoryTree, At, JobInv
  <2>2. t \in Nat /\ t \in 0..Len(revisions) /\ t # Null
    BY <2>1, NullIsNothing DEF CatalogInv, AnswersInv
  <2>3. /\ ledger' \in [Controls \cup Restores -> {Null} \cup Nat \cup ControlStates]
        /\ ledger'[o] = t /\ \A p \in (Controls \cup Restores) \ {o} : ledger'[p] = ledger[p]
    BY <1>3, <2>2 DEF CatalogInv, CatalogTyped
  <2>4. /\ answers' \in [Operations -> SUBSET (Nat \cup ControlStates)]
        /\ answers'[o] = answers[o] \cup {t}
        /\ \A p \in Operations \ {o} : answers'[p] = answers[p]
    <3>1. t \in Nat \cup ControlStates
      BY <2>2
    <3> QED BY <1>1, <1>3, <3>1, AnsweredClient
  <2>5. UNCHANGED <<candidates, extractions, observations, publications, revisions, control,
                    objects, drafts>>
    BY DEF restoreMemoryTree
  <2>6. RevisionsGrow /\ ObjectsGrow /\ DraftsGrow
    BY <2>5 DEF CatalogInv, CatalogTyped, RevisionsGrow, ObjectsGrow, DraftsGrow
  <2>7. JobsInv' /\ jobs' \in [Owners -> [Attempts -> JobState]] /\ lost' \in Nat
    BY <1>1, <1>3, <2>6, FinishedJob DEF Answers
  <2>8. CatalogTyped'
    BY <1>3, <2>2, <2>3, <2>4, <2>5, <2>7 DEF CatalogInv, CatalogTyped
  <2>9. AnswersInv'
    <3>1. /\ \A p \in Edits : answers'[p] = answers[p]
          /\ \A p \in Controls \cup Restores : answers'[p] \subseteq {ledger'[p]} \ {Null}
      <4>1. answers[o] = {}
        BY <1>3 DEF CatalogInv, AnswersInv
      <4> QED BY <1>1, <2>2, <2>3, <2>4, <4>1, Kinds DEF CatalogInv, AnswersInv
    <3>2. \A p \in Controls : ledger'[p] = ledger[p]
      BY <2>3, Kinds
    <3>3. {p \in Controls : ledger'[p] # Null} = {p \in Controls : ledger[p] # Null}
      BY <3>2
    <3> QED BY <2>5, <3>1, <3>2, <3>3 DEF CatalogInv, AnswersInv, RevisionOf
  <2> QED BY <2>5, <2>6, <2>7, <2>8, <2>9, HistoryKeeps DEF CatalogInv
<1> QED BY <1>2, <1>3 DEF restoreMemoryTree

-----------------------------------------------------------------------------
(***************************************************************************)
(* Publication intents                                                     *)
(***************************************************************************)

(* A confirmation changes the status of one intent, and no selection.      *)
LEMMA ConfirmMeans ==
  ASSUME NEW intents, NEW rowset \in SUBSET Row(intents), NEW i
  PROVE  /\ confirm(rowset, i) \subseteq Row(intents)
         /\ \A q \in confirm(rowset, i) : \E p \in rowset :
              q.intent = p.intent /\ (q.status = "selected" <=> p.status = "selected")
         /\ \A p \in rowset : \E q \in confirm(rowset, i) : q.intent = p.intent
<1> DEFINE new(p) == IF Same(p, i) /\ p.status # "selected" THEN [p EXCEPT !.status = "present"] ELSE p
<1>1. ASSUME NEW p \in rowset
      PROVE  /\ new(p) \in Row(intents) /\ new(p).intent = p.intent
             /\ new(p).status = "selected" <=> p.status = "selected"
  <2>1. p \in Row(intents)
    OBVIOUS
  <2> QED BY <2>1 DEF Row
<1>2. confirm(rowset, i) = {new(p) : p \in rowset}
  BY DEF confirm
<1> HIDE DEF new
<1> QED BY <1>1, <1>2

(* A selection changes the status of one intent.                           *)
LEMMA SelectMeans ==
  ASSUME NEW intents, NEW rowset \in SUBSET Row(intents), NEW i
  PROVE  /\ WithStatus(rowset, i, "selected") \subseteq Row(intents)
         /\ \A q \in WithStatus(rowset, i, "selected") : \E p \in rowset :
              q.intent = p.intent /\ q.status = IF p.intent = i THEN "selected" ELSE p.status
         /\ \A p \in rowset : \E q \in WithStatus(rowset, i, "selected") : q.intent = p.intent
<1> DEFINE new(p) == IF Same(p, i) THEN [p EXCEPT !.status = "selected"] ELSE p
<1>1. ASSUME NEW p \in rowset
      PROVE  /\ new(p) \in Row(intents) /\ new(p).intent = p.intent
             /\ new(p).status = IF p.intent = i THEN "selected" ELSE p.status
  <2>1. p \in Row(intents)
    OBVIOUS
  <2> QED BY <2>1 DEF Row, Same
<1>2. WithStatus(rowset, i, "selected") = {new(p) : p \in rowset}
  BY DEF WithStatus
<1> HIDE DEF new
<1> QED BY <1>1, <1>2

(* A reservation adds one planned row, and none for a recorded digest.     *)
LEMMA ReserveMeans ==
  ASSUME NEW intents, NEW rowset \in SUBSET Row(intents), NEW i \in intents
  PROVE  /\ reserve(rowset, i) \subseteq Row(intents)
         /\ rowset \subseteq reserve(rowset, i)
         /\ \A q \in reserve(rowset, i) \ rowset :
              /\ q.intent = i /\ q.status = "planned"
              /\ \A p \in rowset : p.intent # i
<1>1. CASE \E p \in rowset : Digest(p.intent) = Digest(i)
  BY <1>1 DEF reserve
<1>2. CASE ~\E p \in rowset : Digest(p.intent) = Digest(i)
  <2>1. reserve(rowset, i) = rowset \cup {[intent |-> i, status |-> "planned"]}
    BY <1>2 DEF reserve
  <2>2. [intent |-> i, status |-> "planned"] \in Row(intents)
    BY DEF Row
  <2>3. \A p \in rowset : p.intent # i
    BY <1>2
  <2> QED BY <2>1, <2>2, <2>3
<1> QED BY <1>1, <1>2

(* A revision tells its intent.                                            *)
LEMMA OneIntent ==
  ASSUME CatalogTyped, NEW r \in DOMAIN revisions, NEW i \in RevisionIntents, NEW j \in RevisionIntents,
         Builds(i), Builds(j), i.owner = j.owner, Identical(r, i), Identical(r, j)
  PROVE  i = j
<1>1. i.expected = j.expected /\ i.tree = j.tree
  BY DEF Identical
<1>2. i.trajectory = j.trajectory /\ i.sources = j.sources
  <2>1. CASE i.owner \in Maintenances
    BY <2>1 DEF Identical
  <2>2. CASE i.owner \in Edits
    BY <2>2 DEF Builds
  <2> QED BY <2>1, <2>2 DEF RevisionIntents, Publishers
<1> QED BY <1>1, <1>2 DEF RevisionIntents

(* What a change of the intents of revisions must leave.                   *)
LEMMA PublicationsChange ==
  ASSUME CatalogInv, UNCHANGED <<candidates, extractions, observations, revisions, objects>>,
         \A p \in publications' : Builds(p.intent),
         \A p \in publications : \E q \in publications' : q.intent = p.intent,
         \A p \in publications' : p.status = "selected" <=>
              \E r \in RevisionOf(p.intent.owner) : Identical(r, p.intent)
  PROVE  IntentsInv' /\ CommittedIsStored' /\ NothingIsForgotten' /\ OneSelection'
<1>1. IntentsInv'
  <2>1. \A r \in DOMAIN revisions : \E p \in publications' :
          p.intent.owner = revisions[r].owner /\ Identical(r, p.intent)
    BY DEF CatalogInv, IntentsInv
  <2> QED BY <2>1 DEF CatalogInv, IntentsInv, Builds, TreeOf, Identical, ConsumedBy
<1>2. CommittedIsStored' /\ NothingIsForgotten'
  BY DEF CatalogInv, CommittedIsStored, NothingIsForgotten, IsMaintenance, TreeOf, ConsumedBy, Uploaded,
         Stored
<1>3. OneSelection'
  BY DEF CatalogInv, OneSelection, Identical, ConsumedBy, RevisionOf
<1> QED BY <1>1, <1>2, <1>3

(* What a change of the intents of extractions must leave.                 *)
LEMMA CandidatesChange ==
  ASSUME CatalogInv, UNCHANGED <<publications, extractions, observations, revisions, objects>>,
         \A p \in candidates : \E q \in candidates' : q.intent = p.intent,
         \A p \in candidates' : p.status = "selected" <=> extractions[p.intent.owner] = p.intent
  PROVE  IntentsInv' /\ CommittedIsStored' /\ NothingIsForgotten' /\ OneSelection'
<1>1. IntentsInv'
  <2>1. \A x \in Extractions : extractions[x] # Null => \E p \in candidates' : p.intent = extractions[x]
    BY DEF CatalogInv, IntentsInv
  <2> QED BY <2>1 DEF CatalogInv, IntentsInv, Builds, TreeOf, Identical, ConsumedBy
<1>2. CommittedIsStored' /\ NothingIsForgotten'
  BY DEF CatalogInv, CommittedIsStored, NothingIsForgotten, IsMaintenance, TreeOf, ConsumedBy, Uploaded,
         Stored
<1>3. OneSelection'
  BY DEF CatalogInv, OneSelection, Identical, ConsumedBy, RevisionOf
<1> QED BY <1>1, <1>2, <1>3

(* What operators asked for does not depend on the intents.                *)
LEMMA OperationsKeep ==
  ASSUME CatalogInv, UNCHANGED <<revisions, control, ledger, drafts, answers>>
  PROVE  AnswersInv' /\ RevisionsGrow /\ DraftsGrow
<1>1. AnswersInv'
  BY DEF CatalogInv, AnswersInv, RevisionOf
<1>2. RevisionsGrow /\ DraftsGrow
  BY DEF CatalogInv, CatalogTyped, RevisionsGrow, DraftsGrow
<1> QED BY <1>1, <1>2

(* An attempt goes on with the intent it has.                              *)
LEMMA GoesOn ==
  ASSUME CatalogInv, NEW o \in Owners, NEW a \in Attempts, RevisionsGrow, ObjectsGrow, DraftsGrow,
         NEW at \in {"upload", "confirm", "register", "commit"}, Next_(o, a, at),
         o \in Extractions \/ o \in Publishers,
         jobs[o][a].at \in {"reserve", "upload", "confirm"},
         at # "upload" => Stored(jobs[o][a].intent, objects')
  PROVE  JobsInv' /\ jobs' \in [Owners -> [Attempts -> JobState]] /\ lost' \in Nat
<1>1. PICK i : i = jobs[o][a].intent
  OBVIOUS
<1>2. PICK job \in JobState : job.at = at /\ job.intent = i /\ Goes(o, a, job)
  BY <1>1, Advanced DEF Stages
<1>3. at # "upload" => Uploaded(i)'
  BY <1>1 DEF Uploaded
<1>4. /\ o \in Extractions => i \in ExtractionIntents /\ i.owner = o
      /\ o \in Publishers => i \in RevisionIntents /\ i.owner = o /\ Builds(i)
  BY <1>1, JobHolds DEF JobInv
<1>5. o \in Publishers => Builds(i)'
  BY <1>4, BuildsKeeps DEF CatalogInv
<1>6. o \notin Controls \cup Restores
  BY Kinds
<1>7. JobInv(o, job)'
  BY <1>2, <1>3, <1>4, <1>5, <1>6 DEF JobInv
<1> QED BY <1>2, <1>7, JobsKeep DEF CatalogInv

(* Intents are written before the objects they name.                       *)
LEMMA ReserveIsSound ==
  ASSUME CatalogInv, NEW a \in Attempts,
         \/ \E x \in Extractions : reserveExtractionPublication(x, a)
         \/ \E o \in Publishers : reserveRevisionPublication(o, a)
  PROVE  CatalogInv'
<1>1. ASSUME NEW x \in Extractions, reserveExtractionPublication(x, a) PROVE CatalogInv'
  <2>1. PICK i : i = jobs[x][a].intent
    OBVIOUS
  <2>2. i \in ExtractionIntents /\ i.owner = x /\ x \in Owners
    BY <1>1, <2>1, JobHolds, Kinds DEF reserveExtractionPublication, At, JobInv
  <2>3. /\ candidates' = reserve(candidates, i) /\ Next_(x, a, "upload") /\ jobs[x][a].at = "reserve"
        /\ UNCHANGED <<extractions, observations, publications, revisions, active, control,
                       ledger, objects, drafts, answers>>
    BY <1>1, <2>1 DEF reserveExtractionPublication, At
  <2>4. candidates \in SUBSET Row(ExtractionIntents)
    BY DEF CatalogInv, CatalogTyped
  <2>5. /\ candidates' \subseteq Row(ExtractionIntents) /\ candidates \subseteq candidates'
        /\ \A q \in candidates' \ candidates :
             q.intent = i /\ q.status = "planned" /\ \A p \in candidates : p.intent # i
    BY <2>2, <2>3, <2>4, ReserveMeans
  <2>6. AnswersInv' /\ RevisionsGrow /\ DraftsGrow
    BY <2>3, OperationsKeep
  <2>7. ObjectsGrow
    BY <2>3 DEF ObjectsGrow
  <2>8. JobsInv' /\ jobs' \in [Owners -> [Attempts -> JobState]] /\ lost' \in Nat
    BY <2>2, <2>3, <2>6, <2>7, GoesOn
  <2>9. CatalogTyped'
    BY <2>3, <2>5, <2>8 DEF CatalogInv, CatalogTyped
  <2>10. \A p \in candidates' : p.status = "selected" <=> extractions[p.intent.owner] = p.intent
    <3>1. extractions[x] = i => \E p \in candidates : p.intent = i
      BY <2>2, NullIsNothing DEF CatalogInv, IntentsInv
    <3> QED BY <2>2, <2>5, <3>1 DEF CatalogInv, OneSelection
  <2>11. IntentsInv' /\ CommittedIsStored' /\ NothingIsForgotten' /\ OneSelection'
    BY <2>3, <2>5, <2>10, CandidatesChange
  <2> QED BY <2>6, <2>8, <2>9, <2>11 DEF CatalogInv
<1>2. ASSUME NEW o \in Publishers, reserveRevisionPublication(o, a) PROVE CatalogInv'
  <2>1. PICK i : i = jobs[o][a].intent
    OBVIOUS
  <2>2. i \in RevisionIntents /\ i.owner = o /\ Builds(i) /\ o \in Owners
    BY <1>2, <2>1, JobHolds, Kinds DEF reserveRevisionPublication, At, JobInv, Publishers
  <2>3. /\ publications' = reserve(publications, i) /\ Next_(o, a, "upload") /\ jobs[o][a].at = "reserve"
        /\ UNCHANGED <<candidates, extractions, observations, revisions, active, control,
                       ledger, objects, drafts, answers>>
    BY <1>2, <2>1 DEF reserveRevisionPublication, At
  <2>4. publications \in SUBSET Row(RevisionIntents)
    BY DEF CatalogInv, CatalogTyped
  <2>5. /\ publications' \subseteq Row(RevisionIntents) /\ publications \subseteq publications'
        /\ \A q \in publications' \ publications :
             q.intent = i /\ q.status = "planned" /\ \A p \in publications : p.intent # i
    BY <2>2, <2>3, <2>4, ReserveMeans
  <2>6. AnswersInv' /\ RevisionsGrow /\ DraftsGrow
    BY <2>3, OperationsKeep
  <2>7. ObjectsGrow
    BY <2>3 DEF ObjectsGrow
  <2>8. JobsInv' /\ jobs' \in [Owners -> [Attempts -> JobState]] /\ lost' \in Nat
    BY <2>2, <2>3, <2>6, <2>7, GoesOn
  <2>9. CatalogTyped'
    BY <2>3, <2>5, <2>8 DEF CatalogInv, CatalogTyped
  <2>10. \A p \in publications' : p.status = "selected" <=>
           \E r \in RevisionOf(p.intent.owner) : Identical(r, p.intent)
    <3>1. ASSUME NEW r \in RevisionOf(o), Identical(r, i) PROVE \E p \in publications : p.intent = i
      <4>1. r \in DOMAIN revisions /\ revisions[r].owner = o
        BY DEF RevisionOf
      <4>2. PICK p \in publications : p.intent.owner = o /\ Identical(r, p.intent)
        BY <4>1 DEF CatalogInv, IntentsInv
      <4>3. p.intent \in RevisionIntents /\ Builds(p.intent)
        BY <2>4 DEF CatalogInv, IntentsInv, Row
      <4>4. p.intent = i
        BY <2>2, <3>1, <4>1, <4>2, <4>3, OneIntent DEF CatalogInv
      <4> QED BY <4>4
    <3> QED BY <2>2, <2>5, <3>1 DEF CatalogInv, OneSelection
  <2>11. \A p \in publications' : Builds(p.intent)
    BY <2>2, <2>5 DEF CatalogInv, IntentsInv
  <2>12. IntentsInv' /\ CommittedIsStored' /\ NothingIsForgotten' /\ OneSelection'
    BY <2>3, <2>5, <2>10, <2>11, PublicationsChange
  <2> QED BY <2>6, <2>8, <2>9, <2>12 DEF CatalogInv
<1> QED BY <1>1, <1>2

(* One object of an intent is written.                                     *)
LEMMA PutIsSound ==
  ASSUME CatalogInv, NEW o \in Extractions \cup Publishers, NEW a \in Attempts, putMemoryArtifact(o, a)
  PROVE  CatalogInv'
<1>1. PICK i : i = jobs[o][a].intent
  OBVIOUS
<1>2. PICK kind \in {"trajectory", "tree"} :
        objects' = [objects EXCEPT ![kind] = @ \cup ({i[kind]} \ {Null})]
  BY <1>1 DEF putMemoryArtifact
<1>3. o \in Owners /\ jobs[o][a].at = "upload" /\ UNCHANGED <<rows, drafts, answers>>
  BY Kinds DEF putMemoryArtifact, At, Publishers
<1>4. /\ o \in Extractions => i \in ExtractionIntents
      /\ o \in Publishers => i \in RevisionIntents
  BY <1>1, <1>3, JobHolds DEF JobInv
<1>5. i.trajectory \in Trajectories /\ i.tree \in {Null} \cup SUBSET Remembered
  BY <1>4 DEF ExtractionIntents, RevisionIntents
<1>6. objects = [trajectory |-> objects.trajectory, tree |-> objects.tree]
      /\ objects.trajectory \subseteq Trajectories /\ objects.tree \subseteq SUBSET Remembered
  BY DEF CatalogInv, CatalogTyped
<1>7. objects' \in [trajectory: SUBSET Trajectories, tree: SUBSET SUBSET Remembered] /\ ObjectsGrow
  <2>1. CASE kind = "trajectory"
    <3>1. objects' = [trajectory |-> objects.trajectory \cup ({i.trajectory} \ {Null}), tree |-> objects.tree]
      BY <1>2, <1>6, <2>1
    <3> QED BY <3>1, <1>5, <1>6 DEF ObjectsGrow
  <2>2. CASE kind = "tree"
    <3>1. objects' = [trajectory |-> objects.trajectory, tree |-> objects.tree \cup ({i.tree} \ {Null})]
      BY <1>2, <1>6, <2>2
    <3> QED BY <3>1, <1>5, <1>6 DEF ObjectsGrow
  <2> QED BY <2>1, <2>2
<1>8. AnswersInv' /\ RevisionsGrow /\ DraftsGrow
  BY <1>3, OperationsKeep DEF rows
<1>9. JobsInv' /\ jobs' \in [Owners -> [Attempts -> JobState]] /\ lost' \in Nat
  <2>1. PICK at \in {"upload", "confirm"} : Next_(o, a, at) /\ (at = "confirm" => Stored(i, objects'))
    BY <1>1 DEF putMemoryArtifact
  <2> QED BY <1>1, <1>3, <1>7, <1>8, <2>1, GoesOn
<1>10. CatalogTyped'
  BY <1>3, <1>7, <1>9 DEF CatalogInv, CatalogTyped, rows
<1> QED BY <1>3, <1>7, <1>8, <1>9, <1>10, HistoryKeeps DEF CatalogInv, rows

(* An intent whose objects are stored is marked so.                        *)
LEMMA ConfirmIsSound ==
  ASSUME CatalogInv, NEW a \in Attempts,
         \/ \E x \in Extractions : confirmExtractionPublication(x, a)
         \/ \E o \in Publishers : confirmRevisionPublication(o, a)
  PROVE  CatalogInv'
<1>1. ASSUME NEW x \in Extractions, confirmExtractionPublication(x, a) PROVE CatalogInv'
  <2>1. PICK i : i = jobs[x][a].intent
    OBVIOUS
  <2>2. x \in Owners /\ jobs[x][a].at = "confirm" /\ Uploaded(i)
    BY <1>1, <2>1, JobHolds, Kinds DEF confirmExtractionPublication, At, JobInv
  <2>3. /\ candidates' = confirm(candidates, i) /\ Next_(x, a, "register")
        /\ UNCHANGED <<extractions, observations, publications, revisions, active, control,
                       ledger, objects, drafts, answers>>
    BY <1>1, <2>1 DEF confirmExtractionPublication
  <2>4. candidates \in SUBSET Row(ExtractionIntents)
    BY DEF CatalogInv, CatalogTyped
  <2>5. /\ candidates' \subseteq Row(ExtractionIntents)
        /\ \A q \in candidates' : \E p \in candidates :
             q.intent = p.intent /\ (q.status = "selected" <=> p.status = "selected")
        /\ \A p \in candidates : \E q \in candidates' : q.intent = p.intent
    BY <2>3, <2>4, ConfirmMeans
  <2>6. AnswersInv' /\ RevisionsGrow /\ DraftsGrow
    BY <2>3, OperationsKeep
  <2>7. ObjectsGrow /\ Stored(i, objects')
    BY <2>2, <2>3 DEF ObjectsGrow, Uploaded
  <2>8. JobsInv' /\ jobs' \in [Owners -> [Attempts -> JobState]] /\ lost' \in Nat
    BY <2>1, <2>2, <2>3, <2>6, <2>7, GoesOn
  <2>9. CatalogTyped'
    BY <2>3, <2>5, <2>8 DEF CatalogInv, CatalogTyped
  <2>10. \A p \in candidates' : p.status = "selected" <=> extractions[p.intent.owner] = p.intent
    BY <2>5 DEF CatalogInv, OneSelection
  <2>11. IntentsInv' /\ CommittedIsStored' /\ NothingIsForgotten' /\ OneSelection'
    BY <2>3, <2>5, <2>10, CandidatesChange
  <2> QED BY <2>6, <2>8, <2>9, <2>11 DEF CatalogInv
<1>2. ASSUME NEW o \in Publishers, confirmRevisionPublication(o, a) PROVE CatalogInv'
  <2>1. PICK i : i = jobs[o][a].intent
    OBVIOUS
  <2>2. o \in Owners /\ jobs[o][a].at = "confirm" /\ Uploaded(i)
    BY <1>2, <2>1, JobHolds, Kinds DEF confirmRevisionPublication, At, JobInv, Publishers
  <2>3. /\ publications' = confirm(publications, i) /\ Next_(o, a, "commit")
        /\ UNCHANGED <<candidates, extractions, observations, revisions, active, control,
                       ledger, objects, drafts, answers>>
    BY <1>2, <2>1 DEF confirmRevisionPublication
  <2>4. publications \in SUBSET Row(RevisionIntents)
    BY DEF CatalogInv, CatalogTyped
  <2>5. /\ publications' \subseteq Row(RevisionIntents)
        /\ \A q \in publications' : \E p \in publications :
             q.intent = p.intent /\ (q.status = "selected" <=> p.status = "selected")
        /\ \A p \in publications : \E q \in publications' : q.intent = p.intent
    BY <2>3, <2>4, ConfirmMeans
  <2>6. AnswersInv' /\ RevisionsGrow /\ DraftsGrow
    BY <2>3, OperationsKeep
  <2>7. ObjectsGrow /\ Stored(i, objects')
    BY <2>2, <2>3 DEF ObjectsGrow, Uploaded
  <2>8. JobsInv' /\ jobs' \in [Owners -> [Attempts -> JobState]] /\ lost' \in Nat
    BY <2>1, <2>2, <2>3, <2>6, <2>7, GoesOn
  <2>9. CatalogTyped'
    BY <2>3, <2>5, <2>8 DEF CatalogInv, CatalogTyped
  <2>10. \A q \in publications' : q.status = "selected" <=>
           \E r \in RevisionOf(q.intent.owner) : Identical(r, q.intent)
    <3>1. \A p \in publications : p.status = "selected" <=>
            \E r \in RevisionOf(p.intent.owner) : Identical(r, p.intent)
      BY DEF CatalogInv, OneSelection
    <3> QED BY <2>5, <3>1
  <2>11. \A p \in publications' : Builds(p.intent)
    BY <2>5 DEF CatalogInv, IntentsInv
  <2>12. IntentsInv' /\ CommittedIsStored' /\ NothingIsForgotten' /\ OneSelection'
    BY <2>3, <2>5, <2>10, <2>11, PublicationsChange
  <2> QED BY <2>6, <2>8, <2>9, <2>12 DEF CatalogInv
<1> QED BY <1>1, <1>2

(* A pending observation that is consumed, or a new one, changes nothing   *)
(* about the revisions that were there.                                    *)
LEMMA PastKeeps ==
  ASSUME CatalogTyped, RevisionsGrow,
         \A x \in Extractions : observations'[x] # observations[x] =>
           observations[x] \in {Null, 0} /\ observations'[x] \notin 1..Len(revisions)
  PROVE  /\ \A r \in 1..Len(revisions) : ConsumedBy(r)' = ConsumedBy(r)
         /\ \A r \in 1..Len(revisions) : \A i : Identical(r, i)' <=> Identical(r, i)
<1>1. ASSUME NEW r \in 1..Len(revisions) PROVE ConsumedBy(r)' = ConsumedBy(r)
  <2>1. r # Null /\ r # 0
    BY NullIsNothing DEF CatalogTyped
  <2>2. \A x \in Extractions : observations'[x] = r <=> observations[x] = r
    BY <2>1
  <2> QED BY <2>2 DEF ConsumedBy
<1> QED BY <1>1 DEF Identical, RevisionsGrow

(* An extraction and its observation are registered once.                  *)
LEMMA RegisterIsSound ==
  ASSUME CatalogInv, NEW x \in Extractions, NEW a \in Attempts, registerExtraction(x, a)
  PROVE  CatalogInv'
<1>1. PICK i : i = jobs[x][a].intent
  OBVIOUS
<1>2. x \in Owners /\ i \in ExtractionIntents /\ i.owner = x /\ Uploaded(i)
  BY <1>1, JobHolds, Kinds DEF registerExtraction, At, JobInv
<1>3. /\ UNCHANGED <<publications, revisions, active, control, ledger, objects, drafts, answers>>
      /\ \/ Next_(x, a, "done")
         \/ lost < MaxLost /\ lost' = lost + 1 /\ UNCHANGED jobs
  BY DEF registerExtraction
<1>4. CASE UNCHANGED <<candidates, extractions, observations>>
  BY <1>2, <1>3, <1>4, Finishes DEF rows
<1>5. CASE /\ Selectable(candidates, i) /\ extractions[x] \in {Null, i}
           /\ candidates' = WithStatus(candidates, i, "selected")
           /\ extractions' = [extractions EXCEPT ![x] = i]
           /\ observations' = IF extractions[x] = Null /\ i.observation
                              THEN [observations EXCEPT ![x] = 0] ELSE observations
  <2>1. candidates \in SUBSET Row(ExtractionIntents)
    BY DEF CatalogInv, CatalogTyped
  <2>2. /\ candidates' \subseteq Row(ExtractionIntents)
        /\ \A q \in candidates' : \E p \in candidates :
             q.intent = p.intent /\ q.status = IF p.intent = i THEN "selected" ELSE p.status
        /\ \A p \in candidates : \E q \in candidates' : q.intent = p.intent
    BY <1>5, <2>1, SelectMeans
  <2>3. /\ extractions' \in [Extractions -> {Null} \cup ExtractionIntents]
        /\ extractions'[x] = i /\ \A y \in Extractions \ {x} : extractions'[y] = extractions[y]
    BY <1>2, <1>5 DEF CatalogInv, CatalogTyped
  <2>4. observations' \in [Extractions -> {Null} \cup 0..Len(revisions)]
    BY <1>5 DEF CatalogInv, CatalogTyped
  <2>5. \A y \in Extractions : observations'[y] # observations[y] =>
          y = x /\ observations[y] = Null /\ observations'[y] = 0
    BY <1>5 DEF CatalogInv, CatalogTyped, IntentsInv
  <2>6. AnswersInv' /\ RevisionsGrow /\ DraftsGrow /\ ObjectsGrow
    BY <1>3, OperationsKeep DEF ObjectsGrow
  <2>7. JobsInv' /\ jobs' \in [Owners -> [Attempts -> JobState]] /\ lost' \in Nat
    BY <1>2, <1>3, <2>6, FinishedJob
  <2>8. CatalogTyped'
    BY <1>3, <2>2, <2>3, <2>4, <2>7 DEF CatalogInv, CatalogTyped
  <2>9. /\ \A r \in 1..Len(revisions) : ConsumedBy(r)' = ConsumedBy(r)
        /\ \A r \in 1..Len(revisions) : \A j : Identical(r, j)' <=> Identical(r, j)
    <3>1. \A y \in Extractions : observations'[y] # observations[y] =>
            observations[y] \in {Null, 0} /\ observations'[y] \notin 1..Len(revisions)
      BY <2>5 DEF CatalogInv, CatalogTyped
    <3> QED BY <2>6, <3>1, PastKeeps DEF CatalogInv
  <2>10. DOMAIN revisions = 1..Len(revisions)
    BY DEF CatalogInv, CatalogTyped
  <2>11. PICK c \in candidates : c.intent = i
    BY <1>5 DEF Selectable, Same
  <2>12. IntentsInv'
    <3>1. \A p \in publications : Builds(p.intent)'
      BY <1>3 DEF CatalogInv, IntentsInv, Builds, TreeOf
    <3>2. \A r \in DOMAIN revisions : \E p \in publications :
            p.intent.owner = revisions[r].owner /\ Identical(r, p.intent)'
      <4>1. ASSUME NEW r \in DOMAIN revisions
            PROVE  \E p \in publications : p.intent.owner = revisions[r].owner /\ Identical(r, p.intent)'
        <5>1. PICK p \in publications : p.intent.owner = revisions[r].owner /\ Identical(r, p.intent)
          BY DEF CatalogInv, IntentsInv
        <5>2. PICK j : j = p.intent
          OBVIOUS
        <5>3. Identical(r, j)'
          BY <2>9, <2>10, <5>1, <5>2
        <5> QED BY <5>1, <5>2, <5>3
      <4> QED BY <4>1
    <3>3. \A y \in Extractions : extractions'[y] # Null =>
            extractions'[y].owner = y /\ \E p \in candidates' : p.intent = extractions'[y]
      BY <1>2, <2>2, <2>3, <2>11 DEF CatalogInv, IntentsInv
    <3>4. \A y \in Extractions : extractions'[y] = Null => observations'[y] = Null
      BY <1>2, <2>3, <2>5, NullIsNothing DEF CatalogInv, IntentsInv
    <3> QED BY <1>3, <3>1, <3>2, <3>3, <3>4 DEF IntentsInv
  <2>13. CommittedIsStored'
    <3>1. \A r \in DOMAIN revisions : Stored(revisions[r], objects)
      BY DEF CatalogInv, CommittedIsStored, Uploaded
    <3>2. \A y \in Extractions : extractions'[y] # Null => Stored(extractions'[y], objects)
      BY <1>2, <2>3 DEF CatalogInv, CommittedIsStored, Uploaded
    <3> QED BY <1>3, <3>1, <3>2 DEF CommittedIsStored, Uploaded
  <2>14. NothingIsForgotten'
    BY <1>3, <2>9, <2>10 DEF CatalogInv, NothingIsForgotten, IsMaintenance, TreeOf
  <2>15. OneSelection'
    <3>1. \A p \in publications : p.status = "selected" <=>
            \E r \in RevisionOf(p.intent.owner) : Identical(r, p.intent)'
      <4>1. ASSUME NEW p \in publications
            PROVE  \A r \in RevisionOf(p.intent.owner) : Identical(r, p.intent)' <=> Identical(r, p.intent)
        <5>1. PICK j : j = p.intent
          OBVIOUS
        <5>2. \A r \in RevisionOf(p.intent.owner) : Identical(r, j)' <=> Identical(r, j)
          BY <2>9, <2>10 DEF RevisionOf
        <5> QED BY <1>3, <5>1, <5>2
      <4> QED BY <4>1 DEF CatalogInv, OneSelection
    <3>2. \A q \in candidates' : q.status = "selected" <=> extractions'[q.intent.owner] = q.intent
      <4> SUFFICES ASSUME NEW q \in candidates'
                   PROVE  q.status = "selected" <=> extractions'[q.intent.owner] = q.intent
        OBVIOUS
      <4>1. PICK p \in candidates :
              q.intent = p.intent /\ q.status = IF p.intent = i THEN "selected" ELSE p.status
        BY <2>2
      <4>2. p.intent \in ExtractionIntents /\ p.intent.owner \in Extractions
        BY <2>1 DEF Row, ExtractionIntents
      <4>3. p.status = "selected" <=> extractions[p.intent.owner] = p.intent
        BY DEF CatalogInv, OneSelection
      <4>4. CASE p.intent = i
        BY <1>2, <2>3, <4>1, <4>4
      <4>5. CASE p.intent # i /\ p.intent.owner = x
        <5>1. p.status # "selected"
          BY <1>2, <1>5, <4>5 DEF Selectable, Same
        <5> QED BY <2>3, <4>1, <4>5, <5>1
      <4>6. CASE p.intent # i /\ p.intent.owner # x
        BY <2>3, <4>1, <4>2, <4>3, <4>6
      <4> QED BY <4>4, <4>5, <4>6
    <3>3. UNCHANGED <<publications, revisions>> /\ \A o : RevisionOf(o)' = RevisionOf(o)
      BY <1>3 DEF RevisionOf
    <3> QED BY <3>1, <3>2, <3>3 DEF CatalogInv, OneSelection, RevisionOf
  <2> QED BY <2>6, <2>7, <2>8, <2>12, <2>13, <2>14, <2>15 DEF CatalogInv
<1> QED BY <1>1, <1>4, <1>5 DEF registerExtraction

(* The rows after an intent was selected.                                  *)
LEMMA SelectedRows ==
  ASSUME CatalogInv, NEW i, publications' = WithStatus(publications, i, "selected")
  PROVE  /\ publications' \subseteq Row(RevisionIntents)
         /\ \A q \in publications' : \E p \in publications :
              q.intent = p.intent /\ q.status = IF p.intent = i THEN "selected" ELSE p.status
         /\ \A p \in publications : \E q \in publications' : q.intent = p.intent
<1>1. publications \in SUBSET Row(RevisionIntents)
  BY DEF CatalogInv, CatalogTyped
<1> QED BY <1>1, SelectMeans

(* A recorded revision answers a replay of its intent.                     *)
LEMMA ReplayIsSound ==
  ASSUME CatalogInv, NEW o \in Publishers, NEW a \in Attempts, createMemoryTreeRevision(o, a),
         NEW r \in RevisionOf(o), NEW i, i = jobs[o][a].intent,
         Identical(r, i), Answers(o, a, r),
         publications' = WithStatus(publications, i, "selected"),
         UNCHANGED <<observations, revisions, active>>
  PROVE  CatalogInv'
<1>1. o \in Owners /\ i \in RevisionIntents /\ i.owner = o /\ Builds(i)
  BY JobHolds, Kinds DEF createMemoryTreeRevision, At, JobInv, Publishers
<1>2. /\ UNCHANGED <<candidates, extractions, observations, revisions, active, control, ledger,
                     objects, drafts>>
  BY DEF createMemoryTreeRevision
<1>3. publications \in SUBSET Row(RevisionIntents)
  BY DEF CatalogInv, CatalogTyped
<1>4. /\ publications' \subseteq Row(RevisionIntents)
      /\ \A q \in publications' : \E p \in publications :
           q.intent = p.intent /\ q.status = IF p.intent = i THEN "selected" ELSE p.status
      /\ \A p \in publications : \E q \in publications' : q.intent = p.intent
  BY SelectedRows
<1>5. r \in DOMAIN revisions /\ r \in Nat
  BY DEF RevisionOf, CatalogInv, CatalogTyped
<1>6. /\ answers' \in [Operations -> SUBSET (Nat \cup ControlStates)]
      /\ \A p \in Operations \ {o} : answers'[p] = answers[p]
      /\ o \in Edits => answers'[o] = answers[o] \cup {r}
  <2>1. CASE o \in Operations
    <3>1. r \in Nat \cup ControlStates
      BY <1>5
    <3> QED BY <2>1, <3>1, AnsweredClient
  <2>2. CASE o \notin Operations
    BY <2>2, Kinds DEF Answers, CatalogInv, CatalogTyped
  <2> QED BY <2>1, <2>2
<1>7. RevisionsGrow /\ DraftsGrow /\ ObjectsGrow
  BY <1>2 DEF CatalogInv, CatalogTyped, RevisionsGrow, DraftsGrow, ObjectsGrow
<1>8. AnswersInv'
  <2>1. \A p \in Edits : answers'[p] \subseteq RevisionOf(p)
    BY <1>6, Kinds DEF CatalogInv, AnswersInv
  <2>2. \A p \in Controls \cup Restores : answers'[p] = answers[p]
    BY <1>6, Kinds
  <2> QED BY <1>2, <2>1, <2>2 DEF CatalogInv, AnswersInv, RevisionOf
<1>9. JobsInv' /\ jobs' \in [Owners -> [Attempts -> JobState]] /\ lost' \in Nat
  BY <1>1, <1>7, FinishedJob DEF Answers
<1>10. CatalogTyped'
  BY <1>2, <1>4, <1>6, <1>9 DEF CatalogInv, CatalogTyped
<1>11. \A q \in publications' : q.status = "selected" <=>
         \E s \in RevisionOf(q.intent.owner) : Identical(s, q.intent)
  <2>1. \A p \in publications : p.status = "selected" <=>
          \E s \in RevisionOf(p.intent.owner) : Identical(s, p.intent)
    BY DEF CatalogInv, OneSelection
  <2>2. ASSUME NEW q \in publications'
        PROVE  q.status = "selected" <=> \E s \in RevisionOf(q.intent.owner) : Identical(s, q.intent)
    <3>1. PICK p \in publications :
            q.intent = p.intent /\ q.status = IF p.intent = i THEN "selected" ELSE p.status
      BY <1>4
    <3>2. CASE p.intent = i
      <4>1. q.intent = i /\ q.intent.owner = o /\ q.status = "selected"
        BY <1>1, <3>1, <3>2
      <4>2. Identical(r, q.intent) /\ r \in RevisionOf(q.intent.owner)
        BY <4>1
      <4> QED BY <4>1, <4>2
    <3>3. CASE p.intent # i
      BY <2>1, <3>1, <3>3
    <3> QED BY <3>2, <3>3
  <2> QED BY <2>2
<1>12. \A p \in publications' : Builds(p.intent)
  BY <1>4 DEF CatalogInv, IntentsInv
<1>13. IntentsInv' /\ CommittedIsStored' /\ NothingIsForgotten' /\ OneSelection'
  BY <1>2, <1>4, <1>11, <1>12, PublicationsChange
<1> QED BY <1>8, <1>9, <1>10, <1>13 DEF CatalogInv

(* A new revision is appended and becomes the active one.                  *)
LEMMA CommitIsSound ==
  ASSUME CatalogInv, NEW o \in Publishers, NEW a \in Attempts, createMemoryTreeRevision(o, a),
         NEW i, i = jobs[o][a].intent,
         Selectable(publications, i), RevisionOf(o) = {}, Committable(i),
         publications' = WithStatus(publications, i, "selected"),
         insertRevision(i), NEW n, n = Len(revisions) + 1, Answers(o, a, n)
  PROVE  CatalogInv'
<1> DEFINE rec == [owner |-> i.owner, predecessor |-> i.expected, tree |-> i.tree,
                   trajectory |-> i.trajectory]
<1>1. o \in Owners /\ i \in RevisionIntents /\ i.owner = o /\ Builds(i) /\ Uploaded(i)
  BY JobHolds, Kinds DEF createMemoryTreeRevision, At, JobInv, Publishers
<1>2. UNCHANGED <<candidates, extractions, control, ledger, objects, drafts>>
  BY DEF createMemoryTreeRevision
<1>3. /\ i.owner \in Publishers /\ i.expected \in Nat /\ i.tree \subseteq Remembered
      /\ i.trajectory \in Trajectories /\ i.sources \subseteq Extractions
  BY <1>1 DEF RevisionIntents
<1>4. rec \in Revision
  BY <1>3 DEF Revision
<1>5. /\ revisions \in Seq(Revision) /\ Len(revisions) \in Nat /\ n \in Nat
      /\ DOMAIN revisions = 1..Len(revisions) /\ n = Len(revisions) + 1
  BY DEF CatalogInv, CatalogTyped
<1>6. revisions' = Append(revisions, rec) /\ active' = n
  BY DEF insertRevision
<1>7. /\ revisions' \in Seq(Revision) /\ Len(revisions') = n /\ DOMAIN revisions' = 1..n
      /\ revisions'[n] = rec /\ \A r \in 1..Len(revisions) : revisions'[r] = revisions[r]
  <2> HIDE DEF rec
  <2> QED BY <1>4, <1>5, <1>6
<1>8. RevisionsGrow /\ DraftsGrow /\ ObjectsGrow
  BY <1>2, <1>5, <1>7 DEF RevisionsGrow, DraftsGrow, ObjectsGrow
<1>9. /\ \A x \in Extractions : observations'[x] = IF x \in i.sources THEN n ELSE observations[x]
      /\ \A x \in i.sources : observations[x] = 0
      /\ observations' \in [Extractions -> {Null} \cup 0..n]
  BY <1>5 DEF insertRevision, Committable, CatalogInv, CatalogTyped
<1>10. /\ \A r \in 1..Len(revisions) : ConsumedBy(r)' = ConsumedBy(r)
       /\ \A r \in 1..Len(revisions) : \A j : Identical(r, j)' <=> Identical(r, j)
  <2>1. \A x \in Extractions : observations'[x] # observations[x] =>
          observations[x] \in {Null, 0} /\ observations'[x] \notin 1..Len(revisions)
    BY <1>5, <1>9
  <2> QED BY <1>8, <2>1, PastKeeps DEF CatalogInv
<1>11. ConsumedBy(n)' = i.sources
  <2>1. \A x \in Extractions : observations[x] # n
    BY <1>5, NullIsNothing DEF CatalogInv, CatalogTyped
  <2> QED BY <1>3, <1>9, <2>1 DEF ConsumedBy
<1>12. publications \in SUBSET Row(RevisionIntents)
  BY DEF CatalogInv, CatalogTyped
<1>13. /\ publications' \subseteq Row(RevisionIntents)
       /\ \A q \in publications' : \E p \in publications :
            q.intent = p.intent /\ q.status = IF p.intent = i THEN "selected" ELSE p.status
       /\ \A p \in publications : \E q \in publications' : q.intent = p.intent
  BY SelectedRows
<1>14. /\ answers' \in [Operations -> SUBSET (Nat \cup ControlStates)]
       /\ \A p \in Operations \ {o} : answers'[p] = answers[p]
       /\ o \in Edits => answers'[o] = answers[o] \cup {n}
  <2>1. CASE o \in Operations
    <3>1. n \in Nat \cup ControlStates /\ Answers(o, a, n)
      BY <1>5
    <3> QED BY <2>1, <3>1, AnsweredClient
  <2>2. CASE o \notin Operations
    BY <2>2, Kinds DEF Answers, CatalogInv, CatalogTyped
  <2> QED BY <2>1, <2>2
<1>15. /\ RevisionOf(o)' = {n}
       /\ \A p : p # o => RevisionOf(p)' = RevisionOf(p)
  <2>1. \A r \in 1..Len(revisions) : revisions[r].owner # o
    BY <1>5 DEF RevisionOf
  <2>2. \A r \in 1..n : r \in 1..Len(revisions) \/ r = n
    BY <1>5
  <2>3. revisions'[n].owner = o
    BY <1>1, <1>7
  <2>4. n \in 1..n /\ 1..Len(revisions) \subseteq 1..n
    BY <1>5
  <2> QED BY <1>5, <1>7, <2>1, <2>2, <2>3, <2>4 DEF RevisionOf
<1>16. Identical(n, i)'
  BY <1>7, <1>11 DEF Identical
<1>17. AnswersInv'
  <2>1. \A p \in Edits : answers'[p] \subseteq RevisionOf(p)'
    <3>1. answers[o] = {} \/ o \notin Edits
      BY DEF CatalogInv, AnswersInv
    <3> QED BY <1>14, <1>15, <3>1, Kinds DEF CatalogInv, AnswersInv
  <2>2. \A p \in Controls \cup Restores : answers'[p] = answers[p]
    BY <1>14, Kinds
  <2>3. 0..Len(revisions) \subseteq 0..Len(revisions')
    BY <1>5, <1>7
  <2> QED BY <1>2, <2>1, <2>2, <2>3 DEF CatalogInv, AnswersInv
<1>18. JobsInv' /\ jobs' \in [Owners -> [Attempts -> JobState]] /\ lost' \in Nat
  BY <1>1, <1>8, FinishedJob DEF Answers
<1>19. CatalogTyped'
  <2>1. active' \in 0..Len(revisions')
    BY <1>5, <1>6, <1>7
  <2> QED BY <1>2, <1>7, <1>9, <1>13, <1>14, <1>18, <2>1 DEF CatalogInv, CatalogTyped
<1>20. IntentsInv'
  <2>1. \A q \in publications' : Builds(q.intent)'
    <3>1. ASSUME NEW q \in publications' PROVE Builds(q.intent)'
      <4>1. PICK j : j = q.intent
        OBVIOUS
      <4>2. Builds(j)
        BY <1>13, <4>1 DEF CatalogInv, IntentsInv
      <4>3. Builds(j)'
        BY <1>8, <4>2, BuildsKeeps DEF CatalogInv
      <4> QED BY <4>1, <4>3
    <3> QED BY <3>1
  <2>2. ASSUME NEW r \in 1..n
        PROVE  \E q \in publications' :
                 q.intent.owner = revisions'[r].owner /\ Identical(r, q.intent)'
    <3>1. CASE r = n
      <4>1. PICK p \in publications : p.intent = i
        BY DEF Selectable, Same
      <4>2. PICK q \in publications' : q.intent = i
        BY <1>13, <4>1
      <4>3. Identical(r, q.intent)'
        BY <1>16, <3>1, <4>2
      <4> QED BY <1>7, <3>1, <4>2, <4>3
    <3>2. CASE r # n
      <4>1. r \in 1..Len(revisions)
        BY <1>5, <3>2
      <4>2. PICK p \in publications : p.intent.owner = revisions[r].owner /\ Identical(r, p.intent)
        BY <1>5, <4>1 DEF CatalogInv, IntentsInv
      <4>3. PICK q \in publications' : q.intent = p.intent
        BY <1>13
      <4>4. PICK j : j = q.intent
        OBVIOUS
      <4>5. Identical(r, j)'
        BY <1>10, <4>1, <4>2, <4>3, <4>4
      <4> QED BY <1>7, <4>1, <4>2, <4>3, <4>4, <4>5
    <3> QED BY <3>1, <3>2
  <2>3. \A x \in Extractions : extractions[x] = Null => observations'[x] = Null
    BY <1>9, NullIsNothing DEF CatalogInv, IntentsInv
  <2>4. \A x \in Extractions : extractions[x] # Null =>
          extractions[x].owner = x /\ \E p \in candidates : p.intent = extractions[x]
    BY DEF CatalogInv, IntentsInv
  <2> QED BY <1>2, <1>7, <2>1, <2>2, <2>3, <2>4 DEF IntentsInv
<1>21. CommittedIsStored'
  <2>1. \A r \in 1..n : Stored(revisions'[r], objects)
    <3>1. \A r \in 1..Len(revisions) : Stored(revisions[r], objects)
      BY <1>5 DEF CatalogInv, CommittedIsStored, Uploaded
    <3>2. Stored(rec, objects)
      BY <1>1, StoredMeans DEF Uploaded
    <3> QED BY <1>5, <1>7, <3>1, <3>2
  <2>2. \A x \in Extractions : extractions[x] # Null => Stored(extractions[x], objects)
    BY DEF CatalogInv, CommittedIsStored, Uploaded
  <2> HIDE DEF rec
  <2> QED BY <1>2, <1>7, <2>1, <2>2 DEF CommittedIsStored, Uploaded
<1>22. NothingIsForgotten'
  <2>1. ASSUME NEW r \in 1..n
        PROVE  /\ revisions'[r].predecessor < r
               /\ revisions'[r].tree = TreeOf(revisions[r].predecessor)' \cup
                    (IF IsMaintenance(r)' THEN ConsumedBy(r)' ELSE {revisions'[r].owner})
               /\ ~IsMaintenance(r)' => ConsumedBy(r)' = {}
    <3>1. CASE r = n
      <4>1. i.expected \in 0..Len(revisions) /\ TreeOf(i.expected)' = TreeOf(i.expected)
        BY <1>1, <1>8, TreesKeep DEF Builds, CatalogInv
      <4>2. TreeOf(revisions[r].predecessor)' = TreeOf(i.expected)'
        BY <1>7, <3>1 DEF TreeOf
      <4>3. IsMaintenance(r)' <=> o \in Maintenances
        BY <1>1, <1>7, <3>1 DEF IsMaintenance
      <4>4. o \notin Maintenances => o \in Edits
        BY DEF Publishers
      <4>5. i.expected < n
        BY <1>5, <4>1
      <4> QED BY <1>1, <1>7, <1>11, <3>1, <4>1, <4>2, <4>3, <4>4, <4>5 DEF Builds
    <3>2. CASE r # n
      <4>1. r \in 1..Len(revisions) /\ r \in DOMAIN revisions
        BY <1>5, <3>2
      <4>2. /\ revisions[r].predecessor < r /\ revisions[r].predecessor \in Nat
            /\ revisions[r].tree = TreeOf(revisions[r].predecessor) \cup
                 (IF IsMaintenance(r) THEN ConsumedBy(r) ELSE {revisions[r].owner})
            /\ ~IsMaintenance(r) => ConsumedBy(r) = {}
        <5>0. revisions[r] \in Revision
          BY <1>5, <4>1
        <5>1. revisions[r].predecessor \in Nat
          BY <5>0 DEF Revision
        <5> QED BY <4>1, <5>1 DEF CatalogInv, NothingIsForgotten
      <4>3. PICK e : e = revisions[r].predecessor
        OBVIOUS
      <4>4. e \in 0..Len(revisions)
        BY <1>5, <4>1, <4>2, <4>3
      <4>5. TreeOf(e)' = TreeOf(e)
        BY <1>8, <4>4, TreesKeep DEF CatalogInv
      <4>6. TreeOf(revisions[r].predecessor)' = TreeOf(e)'
        BY <1>7, <4>1, <4>3 DEF TreeOf
      <4>7. IsMaintenance(r)' <=> IsMaintenance(r)
        BY <1>7, <4>1 DEF IsMaintenance
      <4>8. revisions'[r] = revisions[r] /\ ConsumedBy(r)' = ConsumedBy(r)
        BY <1>7, <1>10, <4>1
      <4> QED BY <4>2, <4>3, <4>5, <4>6, <4>7, <4>8
    <3> QED BY <3>1, <3>2
  <2> QED BY <1>7, <2>1 DEF NothingIsForgotten
<1>23. OneSelection'
  <2>1. \A r, s \in 1..n : revisions'[r].owner = revisions'[s].owner => r = s
    <3>1. \A r, s \in 1..Len(revisions) : revisions[r].owner = revisions[s].owner => r = s
      BY <1>5 DEF CatalogInv, OneSelection
    <3>2. \A r \in 1..Len(revisions) : revisions[r].owner # o
      BY <1>5 DEF RevisionOf
    <3> QED BY <1>1, <1>5, <1>7, <3>1, <3>2
  <2>2. ASSUME NEW q \in publications'
        PROVE  q.status = "selected" <=> \E r \in RevisionOf(q.intent.owner)' : Identical(r, q.intent)'
    <3>1. PICK p \in publications :
            q.intent = p.intent /\ q.status = IF p.intent = i THEN "selected" ELSE p.status
      BY <1>13
    <3>2. p.status = "selected" <=> \E r \in RevisionOf(p.intent.owner) : Identical(r, p.intent)
      BY DEF CatalogInv, OneSelection
    <3>3. PICK j : j = q.intent
      OBVIOUS
    <3>4. j \in RevisionIntents /\ Builds(j)
      BY <1>12, <3>1, <3>3 DEF CatalogInv, IntentsInv, Row
    <3>5. CASE j = i
      BY <1>1, <1>15, <1>16, <3>1, <3>3, <3>5
    <3>6. CASE j # i /\ j.owner = o
      <4>1. q.status # "selected"
        BY <1>1, <3>1, <3>3, <3>6 DEF Selectable, Same
      <4>2. ~Identical(n, j)'
        <5>1. SUFFICES ASSUME Identical(n, j)' PROVE FALSE
          OBVIOUS
        <5>2. j.expected = i.expected /\ j.tree = i.tree
          BY <1>7, <5>1 DEF Identical
        <5>3. CASE o \in Maintenances
          <6>1. j.trajectory = i.trajectory /\ j.sources = i.sources
            BY <1>7, <1>11, <3>6, <5>1, <5>3 DEF Identical
          <6>2. j = i
            BY <1>1, <3>4, <3>6, <5>2, <6>1 DEF RevisionIntents
          <6> QED BY <3>6, <6>2
        <5>4. CASE o \in Edits
          <6>1. j.trajectory = i.trajectory /\ j.sources = i.sources
            BY <1>1, <3>4, <3>6, <5>4 DEF Builds
          <6>2. j = i
            BY <1>1, <3>4, <3>6, <5>2, <6>1 DEF RevisionIntents
          <6> QED BY <3>6, <6>2
        <5> QED BY <5>3, <5>4 DEF Publishers
      <4> QED BY <1>15, <3>3, <3>6, <4>1, <4>2
    <3>7. CASE j.owner # o
      <4>1. RevisionOf(j.owner)' = RevisionOf(j.owner)
        BY <1>15, <3>7
      <4>2. \A r \in RevisionOf(j.owner) : Identical(r, j)' <=> Identical(r, j)
        BY <1>5, <1>10 DEF RevisionOf
      <4> QED BY <1>1, <3>1, <3>2, <3>3, <3>7, <4>1, <4>2
    <3> QED BY <3>5, <3>6, <3>7
  <2>3. \A p \in candidates : p.status = "selected" <=> extractions[p.intent.owner] = p.intent
    BY DEF CatalogInv, OneSelection
  <2> QED BY <1>2, <1>7, <2>1, <2>2, <2>3 DEF OneSelection
<1> QED BY <1>17, <1>18, <1>19, <1>20, <1>21, <1>22, <1>23 DEF CatalogInv

(* What a commit does: a new revision, a replay, or a refusal.             *)
LEMMA CreateIsSound ==
  ASSUME CatalogInv, NEW o \in Publishers, NEW a \in Attempts, createMemoryTreeRevision(o, a)
  PROVE  CatalogInv'
<1>1. PICK i : i = jobs[o][a].intent
  OBVIOUS
<1>2. PICK n : n = Len(revisions) + 1
  OBVIOUS
<1>3. o \in Owners
  BY Kinds DEF Publishers
<1>4. CASE /\ Selectable(publications, i) /\ RevisionOf(o) = {} /\ Committable(i)
           /\ publications' = WithStatus(publications, i, "selected")
           /\ insertRevision(i) /\ Answers(o, a, n)
  BY <1>1, <1>2, <1>4, CommitIsSound
<1>5. ASSUME NEW r \in RevisionOf(o), Identical(r, i), Answers(o, a, r),
             publications' = WithStatus(publications, i, "selected"),
             UNCHANGED <<observations, revisions, active>>
      PROVE  CatalogInv'
  BY <1>1, <1>5, ReplayIsSound
<1>6. CASE /\ Next_(o, a, "done")
           /\ UNCHANGED <<publications, observations, revisions, active, answers>>
  BY <1>3, <1>6, Finishes DEF createMemoryTreeRevision, rows
<1> QED BY <1>1, <1>2, <1>4, <1>5, <1>6 DEF createMemoryTreeRevision

(* Every step of the catalog and its clients.                              *)
LEMMA CatalogNextIsSound ==
  ASSUME CatalogInv, [CatalogNext]_catalogVars
  PROVE  CatalogInv'
<1>1. CASE UNCHANGED catalogVars
  <2>1. UNCHANGED <<candidates, extractions, observations, publications, revisions, active, control,
                    ledger, objects, drafts, jobs, answers, lost>>
    BY <1>1 DEF catalogVars
  <2>2. CatalogTyped' /\ JobsInv'
    BY <2>1 DEF CatalogInv, CatalogTyped, JobsInv, JobInv, Builds, Uploaded, Stored, TreeOf
  <2>3. AnswersInv' /\ ObjectsGrow
    BY <2>1, OperationsKeep DEF ObjectsGrow
  <2> QED BY <2>1, <2>2, <2>3, HistoryKeeps DEF CatalogInv
<1>2. ASSUME NEW a \in Attempts, NEW o \in Operations,
             \/ publishMemoryEdit(o, a)
             \/ ReadLedger(o, a)
             \/ changeMaintenanceControl(o, a)
             \/ restoreMemoryTree(o, a)
      PROVE  CatalogInv'
  <2>1. CASE publishMemoryEdit(o, a)
    BY <2>1, PublishIsSound DEF publishMemoryEdit
  <2>2. CASE ReadLedger(o, a)
    BY <2>2, LedgerReadIsSound DEF ReadLedger
  <2>3. CASE changeMaintenanceControl(o, a)
    BY <2>3, ControlIsSound DEF changeMaintenanceControl
  <2>4. CASE restoreMemoryTree(o, a)
    BY <2>4, RestoreIsSound DEF restoreMemoryTree
  <2> QED BY <1>2, <2>1, <2>2, <2>3, <2>4
<1> QED BY <1>1, <1>2, DraftIsSound, PrepareExtraction, ReserveIsSound, PutIsSound, ConfirmIsSound,
           RegisterIsSound, PrepareMaintenance, CreateIsSound DEF CatalogNext

(* The catalog with some extractions registered.                           *)
LEMMA CatalogStartsSound ==
  ASSUME NEW prior \in SUBSET Extractions, NEW cast \in SUBSET (Owners \X Attempts),
         CatalogInit(prior, cast)
  PROVE  CatalogInv
<1>1. \A x \in Extractions : Registration(x) \in ExtractionIntents /\ Registration(x).owner = x
                             /\ Registration(x) # Null
  <2>1. \A x \in Extractions : <<x, 0>> \in Trajectories
    BY DEF Trajectories, Owners
  <2>2. \A x \in Extractions : Registration(x) \in ExtractionIntents /\ Registration(x).owner = x
    BY <2>1 DEF Registration, ExtractionIntents
  <2> QED BY <2>2, NullIsNothing
<1>2. \A p \in candidates : \E x \in prior : p = [intent |-> Registration(x), status |-> "selected"]
  BY DEF CatalogInit
<1>3. \A x \in prior : \E p \in candidates : p.intent = Registration(x)
  <2>1. \A x \in prior : [intent |-> Registration(x), status |-> "selected"] \in candidates
    BY DEF CatalogInit
  <2> QED BY <2>1
<1>4. \A x \in Extractions : extractions[x] = IF x \in prior THEN Registration(x) ELSE Null
  BY DEF CatalogInit
<1>5. CatalogTyped
  <2>1. candidates \subseteq Row(ExtractionIntents)
    BY <1>1, <1>2 DEF Row
  <2>2. extractions \in [Extractions -> {Null} \cup ExtractionIntents]
    BY <1>1 DEF CatalogInit
  <2>3. revisions = <<>> /\ Len(revisions) = 0 /\ active = 0 /\ publications = {} /\ lost = 0
    BY DEF CatalogInit
  <2>4. /\ observations \in [Extractions -> {Null} \cup 0..Len(revisions)]
        /\ revisions \in Seq(Revision) /\ active \in 0..Len(revisions)
    BY <2>3 DEF CatalogInit
  <2>5. control \in ControlStates
    BY DEF CatalogInit, ControlStates
  <2>6. /\ ledger \in [Controls \cup Restores -> {Null} \cup Nat \cup ControlStates]
        /\ drafts \in [Operations -> {Null} \cup Drafts]
        /\ answers \in [Operations -> SUBSET (Nat \cup ControlStates)]
    BY DEF CatalogInit
  <2>7. objects \in [trajectory: SUBSET Trajectories, tree: SUBSET SUBSET Remembered]
    <3>1. {<<x, 0>> : x \in prior} \subseteq Trajectories
      BY DEF Trajectories, Owners
    <3> QED BY <3>1 DEF CatalogInit
  <2>8. jobs \in [Owners -> [Attempts -> JobState]]
    <3>1. Idle \in JobState /\ [Idle EXCEPT !.at = "dead"] \in JobState
      BY DEF Idle, JobState, Stages
    <3> QED BY <3>1 DEF CatalogInit
  <2> QED BY <2>1, <2>2, <2>3, <2>4, <2>5, <2>6, <2>7, <2>8 DEF CatalogTyped
<1>6. JobsInv
  <2>1. \A o \in Owners, a \in Attempts : jobs[o][a].at \in {"idle", "dead"}
    BY DEF CatalogInit, Idle
  <2> QED BY <2>1 DEF JobsInv, JobInv
<1>7. publications = {} /\ DOMAIN revisions = {} /\ revisions = <<>>
  BY DEF CatalogInit
<1>8. IntentsInv
  <2>1. \A x \in Extractions : x \notin prior => observations[x] = Null
    BY DEF CatalogInit
  <2> QED BY <1>1, <1>3, <1>4, <1>7, <2>1 DEF IntentsInv
<1>9. AnswersInv
  <2>1. /\ \A o \in Operations : drafts[o] = Null /\ answers[o] = {}
        /\ \A o \in Controls : ledger[o] = Null
        /\ control.generation = 0
    BY DEF CatalogInit
  <2>2. {o \in Controls : ledger[o] # Null} = {} /\ Cardinality({}) = 0
    BY <2>1, FS_EmptySet
  <2> QED BY <2>1, <2>2 DEF AnswersInv, Operations
<1>10. CommittedIsStored
  <2>1. \A x \in prior : Stored(Registration(x), objects)
    BY StoredMeans DEF CatalogInit, Registration
  <2> QED BY <1>4, <1>7, <2>1 DEF CommittedIsStored, Uploaded
<1>11. NothingIsForgotten /\ OneSelection
  BY <1>1, <1>2, <1>4, <1>7 DEF NothingIsForgotten, OneSelection
<1> QED BY <1>5, <1>6, <1>8, <1>9, <1>10, <1>11 DEF CatalogInv

(* However many attempts of an extraction, a maintenance or an operator's  *)
(* operation overlap, die or repeat, the memory history is sound: nothing  *)
(* is committed unstored, nothing is forgotten or merged twice, and every  *)
(* job and operation takes effect once (catalog-store.ts,                  *)
(* createMemoryTreeRevision, registerExtraction, changeMaintenanceControl, *)
(* restoreMemoryTree).                                                     *)
THEOREM HistoryIsAlwaysSound == CatalogSpec => []MemoryHistoryIsSound
<1>1. CatalogInv => MemoryHistoryIsSound
  <2> SUFFICES ASSUME CatalogInv PROVE MemoryHistoryIsSound
    OBVIOUS
  <2>1. ASSUME NEW o \in Operations PROVE Cardinality(answers[o]) <= 1
    <3>1. \E r : answers[o] \subseteq {r}
      <4>1. CASE o \in Edits
        <5>1. answers[o] \subseteq RevisionOf(o)
          BY <4>1 DEF CatalogInv, AnswersInv
        <5>2. \A r, s \in RevisionOf(o) : r = s
          BY DEF CatalogInv, OneSelection, RevisionOf
        <5> QED BY <5>1, <5>2
      <4>2. CASE o \in Controls \cup Restores
        BY <4>2 DEF CatalogInv, AnswersInv
      <4> QED BY <4>1, <4>2 DEF Operations
    <3>2. PICK r : answers[o] = {} \/ answers[o] = {r}
      BY <3>1
    <3>3. Cardinality({}) = 0 /\ Cardinality({r}) = 1
      BY FS_EmptySet, FS_Singleton
    <3> QED BY <3>2, <3>3
  <2>2. AnsweredOnce
    BY <2>1 DEF CatalogInv, AnswersInv, AnsweredOnce
  <2> QED BY <2>2 DEF CatalogInv, MemoryHistoryIsSound
<1>2. (\E prior \in SUBSET Extractions, cast \in SUBSET (Owners \X Attempts) : CatalogInit(prior, cast))
      => CatalogInv
  BY CatalogStartsSound
<1> QED BY <1>1, <1>2, CatalogNextIsSound, PTL DEF CatalogSpec

=============================================================================
