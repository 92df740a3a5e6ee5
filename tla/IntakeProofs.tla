---------------------------- MODULE IntakeProofs ----------------------------
(***************************************************************************)
(* From a delivery to a prepared input, for any number of deliveries,      *)
(* arrivals, pushes, attempts and restarts: a delivery becomes one run, a  *)
(* fork is reviewed on command only, a pull request run is pinned to one   *)
(* snapshot, its input survives recovery, and a setup declaration is       *)
(* judged alike on both sides.                                             *)
(***************************************************************************)
EXTENDS RunIntake, FiniteSetTheorems, TLAPS

(***************************************************************************)
(* Shapes.  What an answer, an export or a workspace is made of does not   *)
(* matter here, only where the fields are.                                 *)
(***************************************************************************)
CallStages ==
  {"idle", "config", "authorise", "body", "dispatch", "admit", "insert", "conflict", "commit",
   "done", "dropped"}
CallShape(r) ==
  r \in [stage: CallStages, run: {r.run}, created: BOOLEAN, answer: {r.answer}]

RunShape(r) ==
  r \in [committed: BOOLEAN, status: {"none", "preparing", "pending", "failed", "submitted"},
         owner: Nat, input: {r.input}, submitted: {r.submitted}]

AttemptShape(r) ==
  r \in [stage: Running \cup {"dead", "failed", "submitted"}, pr: {r.pr}, window: {r.window},
         commits: {r.commits}, workspace: {r.workspace}, exported: {r.exported},
         linked: {r.linked}]

(* The attempts of one run.                                                *)
IsHistory(s) ==
  /\ s \in Seq(Range(s))
  /\ \A n \in 1 .. Len(s) : AttemptShape(s[n])

IntakeTyped ==
  /\ DOMAIN calls = Calls /\ \A c \in Calls : CallShape(calls[c])
  /\ DOMAIN runs = Calls /\ \A c \in Calls : RunShape(runs[c])
  /\ DOMAIN attempts = Calls /\ \A c \in Calls : IsHistory(attempts[c])

(***************************************************************************)
(* Admission.  The unique index leaves one row of a delivery, committed or *)
(* not; a handler in its transaction owns that row, and what was read      *)
(* after a conflict is committed for good.                                 *)
(***************************************************************************)
OneRow == \A c, d \in Calls : KeyOf(c) = KeyOf(d) /\ IsRow(c) /\ IsRow(d) => c = d

AdmissionIsSound ==
  /\ OneRow
  /\ \A c \in Calls :
       /\ runs[c].committed => IsRow(c)
       /\ calls[c].stage = "commit" => IsRow(c) /\ ~runs[c].committed
       /\ calls[c].stage = "conflict" => Committed(KeyOf(c)) # {}
       /\ calls[c].run # Null => calls[c].run \in Committed(KeyOf(c))
       /\ calls[c].created => c \in Committed(KeyOf(c))

(***************************************************************************)
(* Preparation.  A reference is resolved only while the run has no         *)
(* snapshot, and the holder of the claim is the only one that may still    *)
(* write one; so when it writes, no attempt is past the checkpoint.        *)
(***************************************************************************)
RunIsKept(run, history) ==
  /\ run.input \in Snapshots \cup {Null}
  /\ run.status # "none" /\ ~run.committed => run.status = "preparing"
  /\ ~run.committed => Len(history) = 0 /\ run.owner <= 1
  /\ run.committed => run.owner <= Len(history)

(* The snapshots, the deliveries that carry them, the runs that keep them. *)
SnapshotsAreTyped ==
  /\ event \in Scenarios /\ tip \in Seq(Nat) /\ pushes \in Nat
  /\ trunk \in 0 .. Len(Trunk)
  /\ DOMAIN payload = Keys /\ \A k \in Keys : payload[k] \in Snapshots \cup {Null, Unsent}
  /\ \A k \in Keys : payload[k] # Unsent => event[k] # Null
  /\ \A c \in Calls : calls[c].stage # "idle" => payload[KeyOf(c)] # Unsent
  /\ \A c \in Calls : RunIsKept(runs[c], attempts[c])

WindowIsOf(window, pr) ==
  window # Null =>
    /\ window.head = pr.head
    /\ \/ window.kind = "full" /\ window.base = pr.base
       \/ /\ window.kind = "push" /\ window.base = pr.previous
          /\ IsAncestor(window.base, window.head) /\ window.base # window.head

(* The n-th attempt of a run, in the workflow that the run has.            *)
AttemptIsPinned(run, workflow, n, at) ==
  /\ at.stage \in {"start", "resolve", "checkpoint"} => at.window = Null
  /\ at.stage = "checkpoint" =>
       /\ at.pr \in Snapshots
       /\ run.status = "preparing" /\ run.owner = n => run.input = Null
  /\ at.stage \in PastCheckpoint /\ workflow = "pull-request-review" =>
       /\ at.pr = run.input /\ run.input \in Snapshots
       /\ WindowIsOf(at.window, at.pr)

AttemptsArePinned ==
  \A c \in Calls : \A n \in 1 .. Len(attempts[c]) :
    AttemptIsPinned(runs[c], Workflow(c), n, attempts[c][n])

(* The inductive invariant.                                                *)
IntakeIsSound ==
  /\ IntakeTyped
  /\ AdmissionIsSound
  /\ SnapshotsAreTyped
  /\ AttemptsArePinned

-----------------------------------------------------------------------------
(***************************************************************************)
(* What follows from the invariant                                         *)
(***************************************************************************)
(* A set whose members are all the same has one member at most.            *)
LEMMA AtMostOne ==
  ASSUME NEW S, \A x, y \in S : x = y
  PROVE  Cardinality(S) <= 1
<1>1. S = {} \/ \E x : S = {x}
  OBVIOUS
<1>2. CASE S = {}
  BY <1>2, FS_EmptySet
<1>3. CASE \E x : S = {x}
  BY <1>3, FS_Singleton
<1> QED
  BY <1>1, <1>2, <1>3

(* A call is a delivery and one of its arrivals.                           *)
LEMMA CallsHaveKeys ==
  ASSUME NEW c \in Calls
  PROVE  KeyOf(c) \in Keys
  BY DEF Calls, KeyOf

(* One row of a delivery is one run of it.                                 *)
LEMMA SoundIsOneRun == AdmissionIsSound => OneRunPerDelivery
<1> SUFFICES ASSUME AdmissionIsSound, NEW k \in Keys
             PROVE  /\ Cardinality(Committed(k)) <= 1
                    /\ \A c \in Calls : KeyOf(c) = k /\ calls[c].run # Null =>
                           calls[c].run \in Committed(k)
                    /\ Cardinality({c \in Calls : KeyOf(c) = k /\ calls[c].created}) <= 1
  BY DEF OneRunPerDelivery
<1>1. \A c, d \in Committed(k) : c = d
  BY DEF AdmissionIsSound, OneRow, Committed, Rows
<1>2. {c \in Calls : KeyOf(c) = k /\ calls[c].created} \subseteq Committed(k)
  BY DEF AdmissionIsSound
<1>3. \A c, d \in {x \in Calls : KeyOf(x) = k /\ calls[x].created} : c = d
  BY <1>1, <1>2
<1>4. Cardinality(Committed(k)) <= 1
  BY <1>1, AtMostOne
<1>5. Cardinality({c \in Calls : KeyOf(c) = k /\ calls[c].created}) <= 1
  BY <1>3, AtMostOne
<1>6. \A c \in Calls : KeyOf(c) = k /\ calls[c].run # Null => calls[c].run \in Committed(k)
  BY DEF AdmissionIsSound
<1> QED
  BY <1>4, <1>5, <1>6

(* An attempt that was started is one of its run's.                        *)
LEMMA AttemptsAreListed ==
  ASSUME NEW a \in AttemptIds
  PROVE  a[1] \in Calls /\ a[2] \in Int /\ 1 <= a[2]
  BY DEF AttemptIds

(* Attempts that are pinned work on the run's snapshot.                    *)
LEMMA PinnedIsSnapshot == AttemptsArePinned /\ IntakeTyped => SnapshotIsPinned
<1> SUFFICES ASSUME AttemptsArePinned, IntakeTyped, NEW a \in AttemptIds,
                    Started(a), Workflow(a[1]) = "pull-request-review",
                    Attempt(a).stage \in PastCheckpoint
             PROVE  /\ Attempt(a).pr = runs[a[1]].input
                    /\ Attempt(a).window # Null =>
                          /\ Attempt(a).window.head = runs[a[1]].input.head
                          /\ \/ /\ Attempt(a).window.kind = "full"
                                /\ Attempt(a).window.base = runs[a[1]].input.base
                             \/ /\ Attempt(a).window.kind = "push"
                                /\ Attempt(a).window.base = runs[a[1]].input.previous
                                /\ IsAncestor(Attempt(a).window.base, Attempt(a).window.head)
                                /\ Attempt(a).window.base # Attempt(a).window.head
  BY DEF SnapshotIsPinned
<1>1. a[1] \in Calls /\ a[2] \in Int /\ 1 <= a[2]
  BY AttemptsAreListed
<1>2. IsHistory(attempts[a[1]])
  BY <1>1 DEF IntakeTyped
<1>3. a[2] \in 1 .. Len(attempts[a[1]])
  BY <1>1, <1>2 DEF Started, IsHistory
<1>4. AttemptIsPinned(runs[a[1]], Workflow(a[1]), a[2], Attempt(a))
  BY <1>1, <1>3 DEF AttemptsArePinned, Attempt
<1> QED
  BY <1>4 DEF AttemptIsPinned, WindowIsOf

-----------------------------------------------------------------------------
(***************************************************************************)
(* Histories                                                               *)
(***************************************************************************)
(* A sequence is a sequence of its own elements.                           *)
LEMMA OwnElements ==
  ASSUME NEW S, NEW s \in Seq(S)
  PROVE  s \in Seq(Range(s))
<1>1. \A n \in 1 .. Len(s) : s[n] \in Range(s)
  BY DEF Range
<1> QED
  BY <1>1

(* An attempt of a history is replaced.                                    *)
LEMMA HistoryExcept ==
  ASSUME NEW s, IsHistory(s), NEW n \in 1 .. Len(s), NEW at, AttemptShape(at)
  PROVE  LET t == [s EXCEPT ![n] = at]
         IN /\ IsHistory(t) /\ Len(t) = Len(s)
            /\ \A i \in 1 .. Len(s) : t[i] = IF i = n THEN at ELSE s[i]
<1> DEFINE t == [s EXCEPT ![n] = at]
<1>1. s \in Seq(Range(s) \cup {at})
  BY DEF IsHistory
<1>2. t \in Seq(Range(s) \cup {at}) /\ Len(t) = Len(s)
      /\ \A i \in 1 .. Len(s) : t[i] = IF i = n THEN at ELSE s[i]
  BY <1>1
<1>3. t \in Seq(Range(t))
  BY <1>2, OwnElements
<1>4. \A i \in 1 .. Len(t) : AttemptShape(t[i])
  BY <1>2 DEF IsHistory
<1> QED
  BY <1>2, <1>3, <1>4 DEF IsHistory

(* An attempt is added to a history.                                       *)
LEMMA HistoryAppend ==
  ASSUME NEW s, IsHistory(s), NEW at, AttemptShape(at)
  PROVE  LET t == Append(s, at)
         IN /\ IsHistory(t) /\ Len(t) = Len(s) + 1 /\ Len(s) \in Nat
            /\ \A i \in 1 .. Len(t) : t[i] = IF i = Len(s) + 1 THEN at ELSE s[i]
<1> DEFINE t == Append(s, at)
<1>1. s \in Seq(Range(s) \cup {at})
  BY DEF IsHistory
<1>2. t \in Seq(Range(s) \cup {at}) /\ Len(t) = Len(s) + 1 /\ Len(s) \in Nat
      /\ \A i \in 1 .. Len(t) : t[i] = IF i = Len(s) + 1 THEN at ELSE s[i]
  BY <1>1
<1>3. t \in Seq(Range(t))
  BY <1>2, OwnElements
<1>4. \A i \in 1 .. Len(t) : AttemptShape(t[i])
  BY <1>2 DEF IsHistory
<1> QED
  BY <1>2, <1>3, <1>4 DEF IsHistory

(* A first attempt is a history.                                           *)
LEMMA HistoryFirst ==
  ASSUME NEW at, AttemptShape(at)
  PROVE  IsHistory(<<at>>) /\ Len(<<at>>) = 1 /\ <<at>>[1] = at
<1>1. <<at>> \in Seq({at}) /\ Len(<<at>>) = 1 /\ <<at>>[1] = at
  OBVIOUS
<1>2. <<at>> \in Seq(Range(<<at>>))
  BY <1>1, OwnElements
<1> QED
  BY <1>1, <1>2 DEF IsHistory

(* A restart leaves a history of attempts, some of them ended.             *)
LEMMA HistoryMap ==
  ASSUME NEW s, IsHistory(s), NEW t, t = [n \in DOMAIN s |-> t[n]],
         \A n \in 1 .. Len(s) : AttemptShape(t[n])
  PROVE  IsHistory(t) /\ Len(t) = Len(s)
<1>1. DOMAIN s = 1 .. Len(s) /\ Len(s) \in Nat
  BY DEF IsHistory
<1> DEFINE T == {t[n] : n \in 1 .. Len(s)}
<1>2. t \in [1 .. Len(s) -> T]
  BY <1>1
<1>3. t \in Seq(T) /\ Len(t) = Len(s)
  BY <1>1, <1>2
<1>4. t \in Seq(Range(t))
  BY <1>3, OwnElements
<1> QED
  BY <1>3, <1>4 DEF IsHistory

(* A new attempt has a shape and nothing in it.                            *)
LEMMA FreshShape ==
  ASSUME NEW stage \in Running \cup {"dead", "failed", "submitted"}
  PROVE  AttemptShape(Fresh(stage)) /\ Fresh(stage).stage = stage /\ Fresh(stage).window = Null
  BY DEF Fresh, AttemptShape

-----------------------------------------------------------------------------
(***************************************************************************)
(* Steps by what they change                                               *)
(***************************************************************************)
(* A delivery keeps its workflow.                                          *)
LEMMA WorkflowsStay ==
  ASSUME event' = event
  PROVE  \A c \in Calls : Workflow(c)' = Workflow(c)
  BY DEF Workflow, Event, IsPull, KeyOf

(* The rows stay, and stay committed.                                      *)
LEMMA RowsStay ==
  ASSUME AdmissionIsSound, calls' = calls,
         \A d \in Calls : /\ runs'[d].committed = runs[d].committed
                          /\ runs'[d].status = "none" <=> runs[d].status = "none"
  PROVE  AdmissionIsSound'
<1>1. \A d \in Calls : IsRow(d)' = IsRow(d)
  BY DEF IsRow
<1>2. \A k : Committed(k)' = Committed(k)
  BY <1>1 DEF Committed, Rows
<1> QED
  BY <1>1, <1>2 DEF AdmissionIsSound, OneRow

(* GitHub moves on: a delivery that was sent does not change.              *)
LEMMA GitHubMoves ==
  ASSUME IntakeIsSound, UNCHANGED <<event, calls, runs, attempts>>,
         tip' \in Seq(Nat), pushes' \in Nat, trunk' \in 0 .. Len(Trunk), DOMAIN payload' = Keys,
         \A k \in Keys : /\ payload'[k] \in Snapshots \cup {Null, Unsent}
                         /\ payload[k] # Unsent => payload'[k] = payload[k]
                         /\ payload'[k] # Unsent => event[k] # Null
  PROVE  IntakeIsSound'
<1>1. IntakeTyped'
  BY DEF IntakeIsSound, IntakeTyped
<1>2. AdmissionIsSound'
  BY RowsStay DEF IntakeIsSound
<1>3. SnapshotsAreTyped'
  BY CallsHaveKeys DEF IntakeIsSound, SnapshotsAreTyped
<1>4. AttemptsArePinned'
  BY WorkflowsStay DEF IntakeIsSound, AttemptsArePinned
<1> QED
  BY <1>1, <1>2, <1>3, <1>4 DEF IntakeIsSound

(* A handler moves on without a write.                                     *)
LEMMA HandlerMoves ==
  ASSUME IntakeIsSound, NEW c \in Calls, NEW new, CallShape(new),
         UNCHANGED HandlerLeaves, UNCHANGED runs,
         calls' = [calls EXCEPT ![c] = new], payload[KeyOf(c)] # Unsent,
         new.stage # "commit",
         new.stage = "conflict" => Committed(KeyOf(c)) # {},
         new.run # Null => new.run \in Committed(KeyOf(c)),
         new.created => c \in Committed(KeyOf(c))
  PROVE  IntakeIsSound'
<1>1. DOMAIN calls' = Calls /\ \A d \in Calls : calls'[d] = IF d = c THEN new ELSE calls[d]
  BY DEF IntakeIsSound, IntakeTyped
<1>2. IntakeTyped'
  BY <1>1 DEF IntakeIsSound, IntakeTyped, HandlerLeaves
<1>3. \A d \in Calls : IsRow(d)' = IsRow(d)
  BY DEF IsRow
<1>4. \A k : Committed(k)' = Committed(k)
  BY <1>3 DEF Committed, Rows
<1>5. AdmissionIsSound'
  BY <1>1, <1>3, <1>4 DEF IntakeIsSound, AdmissionIsSound, OneRow
<1>6. SnapshotsAreTyped'
  BY <1>1 DEF IntakeIsSound, SnapshotsAreTyped, HandlerLeaves
<1>7. AttemptsArePinned'
  BY WorkflowsStay DEF IntakeIsSound, AttemptsArePinned, HandlerLeaves
<1> QED
  BY <1>2, <1>5, <1>6, <1>7 DEF IntakeIsSound

(* A committed run and its attempts are rewritten.                         *)
LEMMA RunIsRewritten ==
  ASSUME IntakeIsSound, UNCHANGED AttemptLeaves, NEW c \in Calls, NEW run, NEW history,
         DOMAIN runs' = Calls, DOMAIN attempts' = Calls,
         runs'[c] = run, attempts'[c] = history,
         \A d \in Calls : d # c => runs'[d] = runs[d] /\ attempts'[d] = attempts[d],
         RunShape(run), IsHistory(history),
         run.committed = runs[c].committed,
         run.status = "none" <=> runs[c].status = "none", RunIsKept(run, history),
         \A n \in 1 .. Len(history) : AttemptIsPinned(run, Workflow(c), n, history[n])
  PROVE  IntakeIsSound'
<1>1. IntakeTyped'
  BY DEF IntakeIsSound, IntakeTyped, AttemptLeaves
<1>2. AdmissionIsSound'
  <2>1. \A d \in Calls : /\ runs'[d].committed = runs[d].committed
                         /\ runs'[d].status = "none" <=> runs[d].status = "none"
    OBVIOUS
  <2> QED
    BY <2>1, RowsStay DEF IntakeIsSound, AttemptLeaves
<1>3. SnapshotsAreTyped'
  BY DEF IntakeIsSound, SnapshotsAreTyped, AttemptLeaves
<1>4. AttemptsArePinned'
  <2>1. \A d \in Calls : Workflow(d)' = Workflow(d)
    BY WorkflowsStay DEF AttemptLeaves
  <2> SUFFICES ASSUME NEW d \in Calls, NEW n \in 1 .. Len(attempts'[d])
               PROVE  AttemptIsPinned(runs'[d], Workflow(d), n, attempts'[d][n])
    BY <2>1 DEF AttemptsArePinned
  <2>2. CASE d = c
    BY <2>2
  <2>3. CASE d # c
    BY <2>3 DEF IntakeIsSound, AttemptsArePinned
  <2> QED
    BY <2>2, <2>3
<1> QED
  BY <1>1, <1>2, <1>3, <1>4 DEF IntakeIsSound

-----------------------------------------------------------------------------
(***************************************************************************)
(* GitHub and the handlers                                                 *)
(***************************************************************************)
(* What GitHub reports of a pull request is a snapshot.                    *)
LEMMA ReportsAreSnapshots ==
  ASSUME trunk \in 0 .. Len(Trunk), NEW head \in Seq(Nat), NEW previous \in Seq(Nat) \cup {Null}
  PROVE  CommitAt(trunk) \in Seq(Nat) /\ Snapshot(head, previous) \in Snapshots
<1>1. CommitAt(trunk) \in Seq(Nat)
  BY TrunkIsAHistory DEF CommitAt
<1> QED
  BY <1>1 DEF Snapshot, Snapshots

(* A push is reported by the deliveries that wait for one.                 *)
LEMMA PushIsSound ==
  ASSUME IntakeIsSound, NEW next \in Seq(Nat), Push(next)
  PROVE  IntakeIsSound'
<1>1. tip \in Seq(Nat) /\ pushes \in Nat /\ trunk \in 0 .. Len(Trunk)
      /\ \A k \in Keys : /\ payload[k] \in Snapshots \cup {Null, Unsent}
                         /\ payload[k] # Unsent => event[k] # Null
  BY DEF IntakeIsSound, SnapshotsAreTyped
<1>2. Snapshot(next, tip) \in Snapshots
  BY <1>1, ReportsAreSnapshots
<1>3. \A k \in Keys : /\ payload'[k] \in Snapshots \cup {Null, Unsent}
                      /\ payload[k] # Unsent => payload'[k] = payload[k]
                      /\ payload'[k] # Unsent => event[k] # Null
  BY <1>1, <1>2 DEF Push
<1>4. /\ tip' \in Seq(Nat) /\ pushes' \in Nat /\ DOMAIN payload' = Keys
      /\ trunk' \in 0 .. Len(Trunk)
  BY <1>1 DEF Push
<1>5. UNCHANGED <<event, calls, runs, attempts>>
  BY DEF Push
<1> QED
  BY <1>3, <1>4, <1>5, GitHubMoves

(* The steps of GitHub.                                                    *)
LEMMA GitHubIsSound ==
  ASSUME IntakeIsSound,
         PushCommit \/ ForcePush \/ MergeToTrunk \/ (\E k \in Keys : Send(k))
  PROVE  IntakeIsSound'
<1>1. /\ tip \in Seq(Nat) /\ pushes \in Nat /\ DOMAIN payload = Keys
      /\ trunk \in 0 .. Len(Trunk)
      /\ \A k \in Keys : /\ payload[k] \in Snapshots \cup {Null, Unsent}
                         /\ payload[k] # Unsent => event[k] # Null
  BY DEF IntakeIsSound, SnapshotsAreTyped
<1>2. CASE PushCommit
  <2>1. Append(tip, pushes + 2) \in Seq(Nat)
    BY <1>1
  <2> QED
    BY <1>2, <2>1, PushIsSound DEF PushCommit
<1>3. CASE ForcePush
  <2>1. Append(CommitAt(trunk), pushes + 2) \in Seq(Nat)
    BY <1>1, ReportsAreSnapshots
  <2> QED
    BY <1>3, <2>1, PushIsSound DEF ForcePush
<1>4. CASE MergeToTrunk
  <2>1. trunk' \in 0 .. Len(Trunk) /\ pushes' \in Nat
    BY <1>1, <1>4, TrunkIsAHistory DEF MergeToTrunk
  <2> QED
    BY <1>1, <1>4, <2>1, GitHubMoves DEF MergeToTrunk
<1>5. CASE \E k \in Keys : Send(k)
  <2> PICK k \in Keys : Send(k)
    BY <1>5
  <2>1. Snapshot(tip, Null) \in Snapshots
    BY <1>1, ReportsAreSnapshots
  <2>2. /\ DOMAIN payload' = Keys
        /\ \A j \in Keys : /\ payload'[j] \in Snapshots \cup {Null, Unsent}
                           /\ payload[j] # Unsent => payload'[j] = payload[j]
                           /\ payload'[j] # Unsent => event[j] # Null
    BY <1>1, <2>1 DEF Send
  <2> QED
    BY <1>1, <2>2, GitHubMoves DEF Send
<1> QED
  BY <1>2, <1>3, <1>4, <1>5

(* The handler goes on to its next await.                                  *)
LEMMA GotoIsSound ==
  ASSUME IntakeIsSound, NEW c \in Calls, NEW stage \in CallStages \ {"commit"}, Goto(c, stage),
         UNCHANGED HandlerLeaves, UNCHANGED runs, payload[KeyOf(c)] # Unsent,
         stage = "conflict" => Committed(KeyOf(c)) # {}
  PROVE  IntakeIsSound'
<1> DEFINE new == [calls[c] EXCEPT !.stage = stage]
<1>1. CallShape(calls[c])
  BY DEF IntakeIsSound, IntakeTyped
<1>2. CallShape(new) /\ new.stage = stage /\ new.run = calls[c].run
      /\ new.created = calls[c].created
  BY <1>1 DEF CallShape
<1>3. calls' = [calls EXCEPT ![c] = new]
  BY DEF Goto
<1>4. /\ calls[c].run # Null => calls[c].run \in Committed(KeyOf(c))
      /\ calls[c].created => c \in Committed(KeyOf(c))
  BY DEF IntakeIsSound, AdmissionIsSound
<1> HIDE DEF new
<1> QED
  BY <1>2, <1>3, <1>4, HandlerMoves

(* The handler answers.                                                    *)
LEMMA FinishIsSound ==
  ASSUME IntakeIsSound, NEW c \in Calls, NEW answer, Finish(c, answer),
         UNCHANGED HandlerLeaves, UNCHANGED runs, payload[KeyOf(c)] # Unsent
  PROVE  IntakeIsSound'
<1> DEFINE new == [calls[c] EXCEPT !.stage = "done", !.answer = answer]
<1>1. CallShape(calls[c])
  BY DEF IntakeIsSound, IntakeTyped
<1>2. CallShape(new) /\ new.stage = "done" /\ new.run = calls[c].run
      /\ new.created = calls[c].created
  BY <1>1 DEF CallShape, CallStages
<1>3. calls' = [calls EXCEPT ![c] = new]
  BY DEF Finish
<1>4. /\ calls[c].run # Null => calls[c].run \in Committed(KeyOf(c))
      /\ calls[c].created => c \in Committed(KeyOf(c))
  BY DEF IntakeIsSound, AdmissionIsSound
<1> HIDE DEF new
<1> QED
  BY <1>2, <1>3, <1>4, HandlerMoves

(* The handler answers with the run that is there.                         *)
LEMMA ReplayIsSound ==
  ASSUME IntakeIsSound, NEW c \in Calls, NEW run \in Committed(KeyOf(c)), AnswerReplay(c, run),
         UNCHANGED HandlerLeaves, UNCHANGED runs, payload[KeyOf(c)] # Unsent
  PROVE  IntakeIsSound'
<1> DEFINE new == [stage |-> "done", run |-> run, created |-> FALSE, answer |-> Accepted(c)]
<1>1. CallShape(new) /\ new.stage = "done" /\ new.run = run /\ ~new.created
  BY DEF CallShape, CallStages
<1>2. calls' = [calls EXCEPT ![c] = new]
  BY DEF AnswerReplay
<1> HIDE DEF new
<1> QED
  BY <1>1, <1>2, HandlerMoves

(* A handler that runs was sent its delivery.                              *)
LEMMA RunningIsSent ==
  ASSUME IntakeIsSound, NEW c \in Calls, calls[c].stage # "idle"
  PROVE  payload[KeyOf(c)] # Unsent
  BY DEF IntakeIsSound, SnapshotsAreTyped

(* What a handler asks first sends it to one of its awaits.                *)
LEMMA FirstAwait ==
  ASSUME NEW e
  PROVE  /\ handleIssueOpened(e) \in {"skip", "throw", "config"}
         /\ handlePullRequestOpened(e) \in {"skip", "throw", "config"}
         /\ handlePullRequestSynchronize(e) \in {"skip", "throw", "config"}
         /\ handlePullRequestReadyForReview(e) \in {"skip", "throw", "config"}
         /\ handleIssueCommentCreated(e) \in {"skip", "throw", "authorise"}
  BY DEF handleIssueOpened, handlePullRequestOpened, handlePullRequestSynchronize,
         handlePullRequestReadyForReview, handleIssueCommentCreated

(* A handler runs up to its first await.                                   *)
LEMMA ArriveIsSound ==
  ASSUME IntakeIsSound, NEW c \in Calls, Arrive(c)
  PROVE  IntakeIsSound'
<1> DEFINE e == Event(c)
           next == CASE e.kind = "issues.opened"                 -> handleIssueOpened(e)
                     [] e.kind = "pull_request.opened"           -> handlePullRequestOpened(e)
                     [] e.kind = "pull_request.synchronize"      -> handlePullRequestSynchronize(e)
                     [] e.kind = "pull_request.ready_for_review" -> handlePullRequestReadyForReview(e)
                     [] e.kind = "issue_comment.created"         -> handleIssueCommentCreated(e)
                     [] e.kind = "dispatch"                      -> "body"
<1>1. /\ payload[KeyOf(c)] # Unsent
      /\ CASE next = "skip"  -> Finish(c, 200)
           [] next = "throw" -> Finish(c, 500)
           [] OTHER          -> Goto(c, next)
      /\ UNCHANGED HandlerLeaves /\ UNCHANGED runs
  BY DEF Arrive
<1>2. e.kind \in EventKinds
  <2>1. event \in Scenarios /\ event[KeyOf(c)] # Null
    BY <1>1, CallsHaveKeys DEF IntakeIsSound, SnapshotsAreTyped
  <2> QED
    BY <2>1, CallsHaveKeys, ScenariosAreEvents DEF Event
<1>3. next \in {"skip", "throw", "config", "authorise", "body"}
  <2> HIDE DEF e
  <2>1. /\ handleIssueOpened(e) \in {"skip", "throw", "config"}
        /\ handlePullRequestOpened(e) \in {"skip", "throw", "config"}
        /\ handlePullRequestSynchronize(e) \in {"skip", "throw", "config"}
        /\ handlePullRequestReadyForReview(e) \in {"skip", "throw", "config"}
        /\ handleIssueCommentCreated(e) \in {"skip", "throw", "authorise"}
    BY FirstAwait
  <2> QED
    BY <1>2, <2>1 DEF EventKinds, PullRequestEvents
<1> HIDE DEF next
<1>4. CASE next = "skip"
  BY <1>1, <1>4, FinishIsSound
<1>5. CASE next = "throw"
  BY <1>1, <1>5, FinishIsSound
<1>6. CASE next \in {"config", "authorise", "body"}
  <2>1. Goto(c, next) /\ next \in CallStages \ {"commit"} /\ next # "conflict"
    BY <1>1, <1>6 DEF CallStages
  <2> QED
    BY <1>1, <2>1, GotoIsSound
<1> QED
  BY <1>3, <1>4, <1>5, <1>6

(* The stages a handler goes to by itself.                                 *)
LEMMA HandlerStages ==
  {"config", "authorise", "body", "dispatch", "admit", "insert", "conflict"}
     \subseteq CallStages \ {"commit"}
  BY DEF CallStages

(* The handlers up to admission.                                           *)
LEMMA HandlersAreSound ==
  ASSUME IntakeIsSound, NEW c \in Calls,
         \/ fetchTrustedRepositoryTriggerConfig(c) \/ AuthoriseCommand(c) \/ LookupFails(c)
         \/ \E outcome \in {"complete", "large", "slow", "broken"} : ReadBody(c, outcome)
         \/ handleRepositoryReviewDispatch(c)
  PROVE  IntakeIsSound'
<1>1. UNCHANGED HandlerLeaves /\ UNCHANGED runs /\ calls[c].stage # "idle"
  BY DEF fetchTrustedRepositoryTriggerConfig, AuthoriseCommand, LookupFails, ReadBody,
         handleRepositoryReviewDispatch
<1>2. payload[KeyOf(c)] # Unsent
  BY <1>1, RunningIsSent
<1>3. (\E answer : Finish(c, answer)) \/ (\E stage \in {"admit", "dispatch"} : Goto(c, stage))
  <2>1. CASE fetchTrustedRepositoryTriggerConfig(c)
    BY <2>1 DEF fetchTrustedRepositoryTriggerConfig
  <2>2. CASE AuthoriseCommand(c)
    BY <2>2 DEF AuthoriseCommand
  <2>3. CASE LookupFails(c)
    BY <2>3 DEF LookupFails
  <2>4. CASE \E outcome \in {"complete", "large", "slow", "broken"} : ReadBody(c, outcome)
    BY <2>4, ZenonT(30) DEF ReadBody
  <2>5. CASE handleRepositoryReviewDispatch(c)
    BY <2>5 DEF handleRepositoryReviewDispatch
  <2> QED
    BY <2>1, <2>2, <2>3, <2>4, <2>5
<1>4. CASE \E answer : Finish(c, answer)
  BY <1>1, <1>2, <1>4, FinishIsSound
<1>5. CASE \E stage \in {"admit", "dispatch"} : Goto(c, stage)
  <2> PICK stage \in {"admit", "dispatch"} : Goto(c, stage)
    BY <1>5
  <2>1. stage \in CallStages \ {"commit"} /\ stage # "conflict"
    BY HandlerStages
  <2> QED
    BY <1>1, <1>2, <2>1, GotoIsSound
<1> QED
  BY <1>3, <1>4, <1>5

(* The reads of an admission.                                              *)
LEMMA AdmissionReadsAreSound ==
  ASSUME IntakeIsSound, NEW c \in Calls, AdmitSelect(c) \/ InsertConflicts(c) \/ ReadWinner(c)
  PROVE  IntakeIsSound'
<1>1. UNCHANGED HandlerLeaves /\ UNCHANGED runs /\ calls[c].stage # "idle"
  BY DEF AdmitSelect, InsertConflicts, ReadWinner
<1>2. payload[KeyOf(c)] # Unsent
  BY <1>1, RunningIsSent
<1>3. \/ Goto(c, "insert")
      \/ Committed(KeyOf(c)) # {} /\ Goto(c, "conflict")
      \/ /\ Committed(KeyOf(c)) # {}
         /\ AnswerReplay(c, CHOOSE r \in Committed(KeyOf(c)) : TRUE)
  BY DEF AdmitSelect, InsertConflicts, ReadWinner, IntakeIsSound, AdmissionIsSound
<1>4. CASE Goto(c, "insert")
  BY <1>1, <1>2, <1>4, HandlerStages, GotoIsSound
<1>5. CASE Committed(KeyOf(c)) # {} /\ Goto(c, "conflict")
  BY <1>1, <1>2, <1>5, HandlerStages, GotoIsSound
<1>6. CASE /\ Committed(KeyOf(c)) # {}
           /\ AnswerReplay(c, CHOOSE r \in Committed(KeyOf(c)) : TRUE)
  <2>1. (CHOOSE r \in Committed(KeyOf(c)) : TRUE) \in Committed(KeyOf(c))
    BY <1>6
  <2> QED
    BY <1>1, <1>2, <1>6, <2>1, ReplayIsSound
<1> QED
  BY <1>3, <1>4, <1>5, <1>6

-----------------------------------------------------------------------------
(***************************************************************************)
(* The writes of an admission                                              *)
(***************************************************************************)
(* The runs and their attempts, one by one; what is said of the others     *)
(* stays.                                                                  *)
LEMMA OneRunChanges ==
  ASSUME IntakeIsSound, UNCHANGED <<event, payload, tip, pushes, trunk>>, NEW c \in Calls,
         NEW run, NEW history, RunShape(run), IsHistory(history), RunIsKept(run, history),
         \A n \in 1 .. Len(history) : AttemptIsPinned(run, Workflow(c), n, history[n]),
         DOMAIN runs' = Calls, DOMAIN attempts' = Calls,
         runs'[c] = run, attempts'[c] = history,
         \A d \in Calls : d # c => runs'[d] = runs[d] /\ attempts'[d] = attempts[d],
         DOMAIN calls' = Calls, \A d \in Calls : CallShape(calls'[d]),
         \A d \in Calls : calls'[d].stage # "idle" => payload[KeyOf(d)] # Unsent
  PROVE  IntakeTyped' /\ SnapshotsAreTyped' /\ AttemptsArePinned'
<1>1. IntakeTyped'
  BY DEF IntakeIsSound, IntakeTyped
<1>2. SnapshotsAreTyped'
  BY DEF IntakeIsSound, SnapshotsAreTyped
<1>3. AttemptsArePinned'
  <2>1. \A d \in Calls : Workflow(d)' = Workflow(d)
    BY WorkflowsStay
  <2> SUFFICES ASSUME NEW d \in Calls, NEW n \in 1 .. Len(attempts'[d])
               PROVE  AttemptIsPinned(runs'[d], Workflow(d), n, attempts'[d][n])
    BY <2>1 DEF AttemptsArePinned
  <2>2. CASE d = c
    BY <2>2
  <2>3. CASE d # c
    BY <2>3 DEF IntakeIsSound, AttemptsArePinned
  <2> QED
    BY <2>2, <2>3
<1> QED
  BY <1>1, <1>2, <1>3

(* The insert finds no row of its delivery.                                *)
LEMMA InsertIsSound ==
  ASSUME IntakeIsSound, NEW c \in Calls, InsertRow(c)
  PROVE  IntakeIsSound'
<1> DEFINE run == NewRun(c)
           new == [calls[c] EXCEPT !.stage = "commit"]
<1>1. /\ calls[c].stage = "insert" /\ Rows(KeyOf(c)) = {} /\ UNCHANGED HandlerLeaves
      /\ runs' = [runs EXCEPT ![c] = run] /\ calls' = [calls EXCEPT ![c] = new]
  BY DEF InsertRow, Goto
<1>2. payload[KeyOf(c)] \in Snapshots \cup {Null} /\ payload[KeyOf(c)] # Unsent
  BY <1>1, RunningIsSent, CallsHaveKeys DEF IntakeIsSound, SnapshotsAreTyped
<1>3. /\ RunShape(run) /\ run.status = "preparing" /\ ~run.committed
      /\ run.input \in Snapshots \cup {Null} /\ run.owner = 1
  BY <1>2 DEF RunShape, NewRun
<1>4. CallShape(calls[c])
  BY DEF IntakeIsSound, IntakeTyped
<1>5. /\ CallShape(new) /\ new.stage = "commit" /\ new.run = calls[c].run
      /\ new.created = calls[c].created
  BY <1>4 DEF CallShape, CallStages
<1> HIDE DEF run, new
<1>6. \A d \in Calls : KeyOf(d) = KeyOf(c) => ~IsRow(d)
  BY <1>1 DEF Rows
<1>7. ~runs[c].committed
  BY <1>6 DEF IntakeIsSound, AdmissionIsSound
<1>8. /\ DOMAIN runs' = Calls /\ runs'[c] = run /\ \A d \in Calls : d # c => runs'[d] = runs[d]
      /\ DOMAIN calls' = Calls /\ calls'[c] = new
      /\ \A d \in Calls : d # c => calls'[d] = calls[d]
  BY <1>1 DEF IntakeIsSound, IntakeTyped
<1>9. IntakeTyped' /\ SnapshotsAreTyped' /\ AttemptsArePinned'
  <2>1. IsHistory(attempts[c]) /\ Len(attempts[c]) = 0 /\ DOMAIN attempts' = Calls
        /\ attempts' = attempts
    BY <1>1, <1>7 DEF IntakeIsSound, IntakeTyped, SnapshotsAreTyped, RunIsKept, HandlerLeaves
  <2>2. RunIsKept(run, attempts[c])
    BY <1>3, <2>1 DEF RunIsKept
  <2>3. \A d \in Calls : /\ CallShape(calls'[d])
                         /\ calls'[d].stage # "idle" => payload[KeyOf(d)] # Unsent
    BY <1>2, <1>5, <1>8 DEF IntakeIsSound, IntakeTyped, SnapshotsAreTyped
  <2>4. \A n \in 1 .. Len(attempts[c]) : AttemptIsPinned(run, Workflow(c), n, attempts[c][n])
    BY <2>1
  <2> QED
    BY <1>1, <1>3, <1>8, <2>1, <2>2, <2>3, <2>4, OneRunChanges DEF HandlerLeaves
<1>10. AdmissionIsSound'
  <2>1. \A d \in Calls : IsRow(d)' = (IsRow(d) \/ d = c)
    BY <1>3, <1>8 DEF IsRow
  <2>2. \A d \in Calls : runs'[d].committed = runs[d].committed
    BY <1>3, <1>7, <1>8 DEF IntakeIsSound, IntakeTyped, RunShape
  <2>3. \A d \in Calls : runs[d].committed => IsRow(d)
    BY DEF IntakeIsSound, AdmissionIsSound
  <2>4. \A k : Committed(k)' = Committed(k)
    BY <2>1, <2>2, <1>7 DEF Committed, Rows
  <2>5. OneRow'
    BY <1>6, <2>1 DEF OneRow, IntakeIsSound, AdmissionIsSound
  <2> QED
    BY <1>5, <1>7, <1>8, <2>1, <2>2, <2>4, <2>5 DEF IntakeIsSound, AdmissionIsSound
<1> QED
  BY <1>9, <1>10 DEF IntakeIsSound

(* The row that is committed is the only one of its delivery.              *)
LEMMA CommitIsSound ==
  ASSUME IntakeIsSound, NEW c \in Calls, NEW told \in BOOLEAN, Commit(c, told)
  PROVE  IntakeIsSound'
<1> DEFINE run == [runs[c] EXCEPT !.committed = TRUE]
           at == Fresh(IF told THEN "start" ELSE "dead")
           new == IF told
                  THEN [stage |-> "done", run |-> c, created |-> TRUE, answer |-> Accepted(c)]
                  ELSE [calls[c] EXCEPT !.stage = "done",
                          !.answer = IF Event(c).kind = "dispatch" THEN 500 ELSE 200]
<1>1. /\ calls[c].stage = "commit" /\ UNCHANGED <<event, payload, tip, pushes, trunk>>
      /\ runs' = [runs EXCEPT ![c] = run] /\ attempts' = [attempts EXCEPT ![c] = <<at>>]
  BY DEF Commit
<1>2. calls' = [calls EXCEPT ![c] = new]
  BY ZenonT(30) DEF Commit, Finish
<1>3. CallShape(calls[c]) /\ RunShape(runs[c]) /\ RunIsKept(runs[c], attempts[c])
  BY DEF IntakeIsSound, IntakeTyped, SnapshotsAreTyped
<1>4. /\ CallShape(new) /\ new.stage = "done"
      /\ new.run \in {c, calls[c].run} /\ (new.created => new.run = c \/ calls[c].created)
  <2>1. CASE told
    BY <2>1 DEF CallShape, CallStages
  <2>2. CASE ~told
    <3> DEFINE r == [calls[c] EXCEPT !.stage = "done",
                       !.answer = IF Event(c).kind = "dispatch" THEN 500 ELSE 200]
    <3>1. /\ CallShape(r) /\ r.stage = "done" /\ r.run = calls[c].run
          /\ r.created = calls[c].created
      BY <1>3, ZenonT(30) DEF CallShape, CallStages
    <3> QED
      BY <2>2, <3>1
  <2> QED
    BY <2>1, <2>2
<1>5. IsRow(c) /\ ~runs[c].committed
  BY <1>1 DEF IntakeIsSound, AdmissionIsSound
<1>6. /\ RunShape(run) /\ run.committed /\ run.status = runs[c].status
      /\ run.input = runs[c].input /\ run.owner = runs[c].owner
  BY <1>3 DEF RunShape
<1>7. AttemptShape(at) /\ at.stage \in {"start", "dead"} /\ at.window = Null
  BY FreshShape DEF Running
<1>8. payload[KeyOf(c)] # Unsent
  BY <1>1, RunningIsSent
<1> HIDE DEF run, at, new
<1>9. /\ DOMAIN runs' = Calls /\ runs'[c] = run /\ \A d \in Calls : d # c => runs'[d] = runs[d]
      /\ DOMAIN calls' = Calls /\ calls'[c] = new
      /\ \A d \in Calls : d # c => calls'[d] = calls[d]
      /\ DOMAIN attempts' = Calls /\ attempts'[c] = <<at>>
      /\ \A d \in Calls : d # c => attempts'[d] = attempts[d]
  BY <1>1, <1>2 DEF IntakeIsSound, IntakeTyped
<1>10. IntakeTyped' /\ SnapshotsAreTyped' /\ AttemptsArePinned'
  <2> DEFINE history == <<at>>
  <2>1. IsHistory(history) /\ Len(history) = 1 /\ history[1] = at
    BY <1>7, HistoryFirst
  <2> HIDE DEF history
  <2>2. runs[c].owner <= 1
    BY <1>3, <1>5 DEF RunIsKept
  <2>3. RunIsKept(run, history)
    BY <1>3, <1>6, <2>1, <2>2 DEF RunIsKept
  <2>4. \A d \in Calls : /\ CallShape(calls'[d])
                         /\ calls'[d].stage # "idle" => payload[KeyOf(d)] # Unsent
    BY <1>4, <1>8, <1>9 DEF IntakeIsSound, IntakeTyped, SnapshotsAreTyped
  <2>5. \A n \in 1 .. Len(history) : AttemptIsPinned(run, Workflow(c), n, history[n])
    BY <1>7, <2>1 DEF AttemptIsPinned, PastCheckpoint
  <2>6. attempts'[c] = history
    BY <1>9 DEF history
  <2> QED
    BY <1>1, <1>6, <1>9, <2>1, <2>3, <2>4, <2>5, <2>6, OneRunChanges
<1>11. AdmissionIsSound'
  <2>1. \A d \in Calls : IsRow(d)' = IsRow(d)
    BY <1>6, <1>9 DEF IsRow
  <2>2. \A d \in Calls : runs'[d].committed <=> runs[d].committed \/ d = c
    BY <1>6, <1>9
  <2>3. \A k : Committed(k) \subseteq Committed(k)'
    BY <2>1, <2>2 DEF Committed, Rows
  <2>4. c \in Committed(KeyOf(c))'
    BY <1>5, <2>1, <2>2 DEF Committed, Rows
  <2>5. OneRow'
    BY <2>1 DEF OneRow, IntakeIsSound, AdmissionIsSound
  <2>6. \A d \in Calls : d # c /\ calls[d].stage = "commit" => ~runs'[d].committed /\ IsRow(d)
    BY <2>2 DEF IntakeIsSound, AdmissionIsSound
  <2> QED
    BY <1>4, <1>5, <1>9, <2>1, <2>2, <2>3, <2>4, <2>5, <2>6 DEF IntakeIsSound, AdmissionIsSound
<1> QED
  BY <1>10, <1>11 DEF IntakeIsSound

(* What was not committed was never answered with.                         *)
LEMMA AdmissionFailsIsSound ==
  ASSUME IntakeIsSound, NEW c \in Calls, AdmissionFails(c)
  PROVE  IntakeIsSound'
<1> DEFINE new == [calls[c] EXCEPT !.stage = "done",
                     !.answer = IF Event(c).kind = "dispatch" THEN 500 ELSE 200]
<1>1. /\ calls[c].stage = "commit" /\ UNCHANGED HandlerLeaves
      /\ runs' = [runs EXCEPT ![c] = NoRun] /\ calls' = [calls EXCEPT ![c] = new]
  BY ZenonT(30) DEF AdmissionFails, Finish
<1>2. CallShape(calls[c])
  BY DEF IntakeIsSound, IntakeTyped
<1>3. /\ CallShape(new) /\ new.stage = "done" /\ new.run = calls[c].run
      /\ new.created = calls[c].created
  BY <1>2, ZenonT(30) DEF CallShape, CallStages
<1>4. IsRow(c) /\ ~runs[c].committed
  BY <1>1 DEF IntakeIsSound, AdmissionIsSound
<1>5. RunShape(NoRun) /\ ~NoRun.committed /\ NoRun.status = "none" /\ NoRun.input = Null
      /\ NoRun.owner = 0
  BY DEF NoRun, RunShape
<1>6. payload[KeyOf(c)] # Unsent
  BY <1>1, RunningIsSent
<1> HIDE DEF new
<1>7. /\ DOMAIN runs' = Calls /\ runs'[c] = NoRun
      /\ \A d \in Calls : d # c => runs'[d] = runs[d]
      /\ DOMAIN calls' = Calls /\ calls'[c] = new
      /\ \A d \in Calls : d # c => calls'[d] = calls[d]
  BY <1>1 DEF IntakeIsSound, IntakeTyped
<1>8. IntakeTyped' /\ SnapshotsAreTyped' /\ AttemptsArePinned'
  <2>1. IsHistory(attempts[c]) /\ Len(attempts[c]) = 0 /\ DOMAIN attempts' = Calls
        /\ attempts' = attempts
    BY <1>1, <1>4 DEF IntakeIsSound, IntakeTyped, SnapshotsAreTyped, RunIsKept, HandlerLeaves
  <2>2. RunIsKept(NoRun, attempts[c])
    BY <1>5, <2>1 DEF RunIsKept
  <2>3. \A d \in Calls : /\ CallShape(calls'[d])
                         /\ calls'[d].stage # "idle" => payload[KeyOf(d)] # Unsent
    BY <1>3, <1>6, <1>7 DEF IntakeIsSound, IntakeTyped, SnapshotsAreTyped
  <2>4. \A n \in 1 .. Len(attempts[c]) : AttemptIsPinned(NoRun, Workflow(c), n, attempts[c][n])
    BY <2>1
  <2> QED
    BY <1>1, <1>5, <1>7, <2>1, <2>2, <2>3, <2>4, OneRunChanges DEF HandlerLeaves
<1>9. AdmissionIsSound'
  <2>1. \A d \in Calls : IsRow(d)' = (IsRow(d) /\ d # c)
    BY <1>5, <1>7 DEF IsRow
  <2>2. \A d \in Calls : runs'[d].committed <=> runs[d].committed
    BY <1>4, <1>5, <1>7
  <2>3. \A k : Committed(k)' = Committed(k)
    BY <1>4, <2>1, <2>2 DEF Committed, Rows
  <2>4. OneRow'
    BY <2>1 DEF OneRow, IntakeIsSound, AdmissionIsSound
  <2> QED
    BY <1>3, <1>4, <1>7, <2>1, <2>2, <2>3, <2>4 DEF IntakeIsSound, AdmissionIsSound
<1> QED
  BY <1>8, <1>9 DEF IntakeIsSound

(* A restart ends every attempt and rolls back what was not committed.     *)
LEMMA CrashIsSound ==
  ASSUME IntakeIsSound, Crash
  PROVE  IntakeIsSound'
<1>1. /\ DOMAIN calls' = Calls /\ DOMAIN runs' = Calls /\ DOMAIN attempts' = Calls
      /\ UNCHANGED <<event, payload, tip, pushes, trunk>>
  BY DEF Crash
<1>2. \A c \in Calls : runs'[c] = IF runs[c].committed THEN runs[c] ELSE NoRun
  BY DEF Crash
<1>3. \A c \in Calls :
        /\ CallShape(calls'[c]) /\ calls'[c].stage \in {"idle", "done", "dropped"}
        /\ calls'[c].run = calls[c].run /\ calls'[c].created = calls[c].created
        /\ calls[c].stage = "idle" => calls'[c].stage = "idle"
  <2> SUFFICES ASSUME NEW c \in Calls
               PROVE  /\ CallShape(calls'[c]) /\ calls'[c].stage \in {"idle", "done", "dropped"}
                      /\ calls'[c].run = calls[c].run /\ calls'[c].created = calls[c].created
                      /\ calls[c].stage = "idle" => calls'[c].stage = "idle"
    OBVIOUS
  <2>1. CallShape(calls[c])
    BY DEF IntakeIsSound, IntakeTyped
  <2>2. calls'[c] = IF calls[c].stage \in {"idle", "done"} THEN calls[c]
                    ELSE [calls[c] EXCEPT !.stage = "dropped"]
    BY DEF Crash
  <2>3. CASE calls[c].stage \in {"idle", "done"}
    BY <2>1, <2>2, <2>3
  <2>4. CASE calls[c].stage \notin {"idle", "done"}
    BY <2>1, <2>2, <2>4 DEF CallShape, CallStages
  <2> QED
    BY <2>3, <2>4
<1>4. \A c \in Calls :
        /\ IsHistory(attempts'[c]) /\ Len(attempts'[c]) = Len(attempts[c])
        /\ \A n \in 1 .. Len(attempts[c]) : attempts'[c][n].stage \notin Running
  <2> SUFFICES ASSUME NEW c \in Calls
               PROVE  /\ IsHistory(attempts'[c]) /\ Len(attempts'[c]) = Len(attempts[c])
                      /\ \A n \in 1 .. Len(attempts[c]) : attempts'[c][n].stage \notin Running
    OBVIOUS
  <2> DEFINE s == attempts[c]
             t == [n \in DOMAIN s |-> IF s[n].stage \in Running THEN Fresh("dead") ELSE s[n]]
  <2>1. IsHistory(s)
    BY DEF IntakeIsSound, IntakeTyped
  <2>2. attempts'[c] = t
    BY DEF Crash
  <2>3. DOMAIN s = 1 .. Len(s)
    BY <2>1 DEF IsHistory
  <2>4. AttemptShape(Fresh("dead")) /\ Fresh("dead").stage = "dead"
    BY FreshShape
  <2>5. \A n \in 1 .. Len(s) : AttemptShape(t[n]) /\ t[n].stage \notin Running
    BY <2>1, <2>3, <2>4 DEF IsHistory, Running
  <2>6. t = [n \in DOMAIN s |-> t[n]]
    OBVIOUS
  <2> HIDE DEF s, t
  <2>7. IsHistory(t) /\ Len(t) = Len(s)
    BY <2>1, <2>5, <2>6, HistoryMap
  <2> QED
    BY <2>2, <2>5, <2>7 DEF s
<1>5. RunShape(NoRun) /\ ~NoRun.committed /\ NoRun.status = "none" /\ NoRun.input = Null
      /\ NoRun.owner = 0
  BY DEF NoRun, RunShape
<1>6. IntakeTyped'
  BY <1>1, <1>2, <1>3, <1>4, <1>5 DEF IntakeIsSound, IntakeTyped
<1>7. SnapshotsAreTyped'
  <2>1. \A c \in Calls : RunIsKept(runs'[c], attempts'[c])
    <3> SUFFICES ASSUME NEW c \in Calls PROVE RunIsKept(runs'[c], attempts'[c])
      OBVIOUS
    <3>1. RunIsKept(runs[c], attempts[c])
      BY DEF IntakeIsSound, SnapshotsAreTyped
    <3> QED
      BY <1>2, <1>4, <1>5, <3>1 DEF RunIsKept
  <2> QED
    BY <1>1, <1>3, <2>1 DEF IntakeIsSound, SnapshotsAreTyped
<1>8. AttemptsArePinned'
  <2> SUFFICES ASSUME NEW c \in Calls, NEW n \in 1 .. Len(attempts'[c])
               PROVE  AttemptIsPinned(runs'[c], Workflow(c)', n, attempts'[c][n])
    BY DEF AttemptsArePinned
  <2>1. attempts'[c][n].stage \notin Running
    BY <1>4
  <2> QED
    BY <2>1 DEF AttemptIsPinned, Running, PastCheckpoint
<1>9. AdmissionIsSound'
  <2>1. \A d \in Calls : IsRow(d)' <=> runs[d].committed
    BY <1>2, <1>5 DEF IsRow, IntakeIsSound, AdmissionIsSound
  <2>2. \A d \in Calls : runs'[d].committed <=> runs[d].committed
    BY <1>2, <1>5
  <2>3. \A k : Committed(k)' = Committed(k)
    BY <2>1, <2>2 DEF Committed, Rows, IntakeIsSound, AdmissionIsSound
  <2>4. OneRow'
    BY <2>1 DEF OneRow, IntakeIsSound, AdmissionIsSound
  <2> QED
    BY <1>3, <2>1, <2>2, <2>3, <2>4 DEF IntakeIsSound, AdmissionIsSound
<1> QED
  BY <1>6, <1>7, <1>8, <1>9 DEF IntakeIsSound

-----------------------------------------------------------------------------
(***************************************************************************)
(* The attempts                                                            *)
(***************************************************************************)
(* An attempt that runs belongs to a committed run.                        *)
LEMMA AttemptsAreKnown ==
  ASSUME IntakeIsSound, NEW a \in AttemptIds, Started(a)
  PROVE  /\ a[1] \in Calls /\ a[2] \in 1 .. Len(attempts[a[1]])
         /\ IsHistory(attempts[a[1]]) /\ AttemptShape(Attempt(a))
         /\ RunShape(runs[a[1]]) /\ runs[a[1]].committed /\ runs[a[1]].status # "none"
         /\ RunIsKept(runs[a[1]], attempts[a[1]])
         /\ \A n \in 1 .. Len(attempts[a[1]]) :
              AttemptIsPinned(runs[a[1]], Workflow(a[1]), n, attempts[a[1]][n])
<1>1. a[1] \in Calls /\ a[2] \in Int /\ 1 <= a[2]
  BY AttemptsAreListed
<1>2. IsHistory(attempts[a[1]]) /\ RunShape(runs[a[1]])
  BY <1>1 DEF IntakeIsSound, IntakeTyped
<1>3. a[2] \in 1 .. Len(attempts[a[1]]) /\ Len(attempts[a[1]]) # 0
  BY <1>1, <1>2 DEF Started, IsHistory
<1>4. AttemptShape(Attempt(a))
  BY <1>2, <1>3 DEF Attempt, IsHistory
<1>5. RunIsKept(runs[a[1]], attempts[a[1]])
  BY <1>1 DEF IntakeIsSound, SnapshotsAreTyped
<1>6. runs[a[1]].committed
  BY <1>3, <1>5 DEF RunIsKept
<1>7. runs[a[1]].status # "none"
  BY <1>1, <1>6 DEF IntakeIsSound, AdmissionIsSound, IsRow
<1> QED
  BY <1>1, <1>2, <1>3, <1>4, <1>5, <1>6, <1>7 DEF IntakeIsSound, AttemptsArePinned

(* An attempt is rewritten, and its run with it.                           *)
LEMMA AttemptIsRewritten ==
  ASSUME IntakeIsSound, NEW a \in AttemptIds, Started(a), NEW at, Step(a, at), AttemptShape(at),
         NEW run, RunShape(run), DOMAIN runs' = Calls, runs'[a[1]] = run,
         \A d \in Calls : d # a[1] => runs'[d] = runs[d],
         run.committed, run.status # "none", run.input \in Snapshots \cup {Null},
         run.owner <= Len(attempts[a[1]]),
         AttemptIsPinned(run, Workflow(a[1]), a[2], at),
         \A n \in 1 .. Len(attempts[a[1]]) :
            n # a[2] => AttemptIsPinned(run, Workflow(a[1]), n, attempts[a[1]][n])
  PROVE  IntakeIsSound'
<1> DEFINE s == attempts[a[1]]
           t == [s EXCEPT ![a[2]] = at]
<1>1. /\ a[1] \in Calls /\ a[2] \in 1 .. Len(s) /\ IsHistory(s) /\ RunShape(runs[a[1]])
      /\ runs[a[1]].committed /\ runs[a[1]].status # "none"
  BY AttemptsAreKnown
<1>2. attempts' = [attempts EXCEPT ![a[1]] = t] /\ UNCHANGED AttemptLeaves
  BY DEF Step
<1> HIDE DEF s
<1>3. /\ IsHistory(t) /\ Len(t) = Len(s)
      /\ \A i \in 1 .. Len(s) : t[i] = IF i = a[2] THEN at ELSE s[i]
  BY <1>1, HistoryExcept
<1> HIDE DEF t
<1>4. /\ DOMAIN attempts' = Calls /\ attempts'[a[1]] = t
      /\ \A d \in Calls : d # a[1] => attempts'[d] = attempts[d]
  BY <1>1, <1>2 DEF IntakeIsSound, IntakeTyped
<1>5. \A n \in 1 .. Len(t) : AttemptIsPinned(run, Workflow(a[1]), n, t[n])
  BY <1>3 DEF s
<1>6. RunIsKept(run, t)
  BY <1>3 DEF RunIsKept, s
<1>7. run.committed = runs[a[1]].committed
  BY <1>1 DEF RunShape
<1> QED
  BY <1>1, <1>2, <1>3, <1>4, <1>5, <1>6, <1>7, RunIsRewritten

(* An attempt goes on; its run stays as it is.                             *)
LEMMA AttemptGoesOn ==
  ASSUME IntakeIsSound, NEW a \in AttemptIds, Started(a), NEW at, Step(a, at), AttemptShape(at),
         UNCHANGED runs, AttemptIsPinned(runs[a[1]], Workflow(a[1]), a[2], at)
  PROVE  IntakeIsSound'
<1>1. /\ a[1] \in Calls /\ RunShape(runs[a[1]]) /\ runs[a[1]].committed
      /\ runs[a[1]].status # "none" /\ RunIsKept(runs[a[1]], attempts[a[1]])
      /\ \A n \in 1 .. Len(attempts[a[1]]) :
           AttemptIsPinned(runs[a[1]], Workflow(a[1]), n, attempts[a[1]][n])
  BY AttemptsAreKnown
<1>2. DOMAIN runs' = Calls
  BY DEF IntakeIsSound, IntakeTyped
<1> DEFINE run == runs[a[1]]
<1>3. /\ RunShape(run) /\ runs'[a[1]] = run /\ run.committed /\ run.status # "none"
      /\ run.input \in Snapshots \cup {Null} /\ run.owner <= Len(attempts[a[1]])
      /\ AttemptIsPinned(run, Workflow(a[1]), a[2], at)
      /\ \A n \in 1 .. Len(attempts[a[1]]) :
           n # a[2] => AttemptIsPinned(run, Workflow(a[1]), n, attempts[a[1]][n])
  BY <1>1 DEF RunIsKept
<1>4. \A d \in Calls : d # a[1] => runs'[d] = runs[d]
  OBVIOUS
<1> HIDE DEF run
<1> QED
  BY <1>2, <1>3, <1>4, AttemptIsRewritten

(* The claim is given up, whatever becomes of the run.                     *)
LEMMA GivenUpStaysPinned ==
  ASSUME NEW run, NEW new, NEW workflow, NEW n, NEW at, AttemptIsPinned(run, workflow, n, at),
         new.status # "preparing", new.input = run.input
  PROVE  AttemptIsPinned(new, workflow, n, at)
  BY DEF AttemptIsPinned

(* An attempt that ended says nothing.                                     *)
LEMMA EndedIsPinned ==
  ASSUME NEW run, NEW workflow, NEW n, NEW at, at.stage \in {"failed", "submitted", "dead"}
  PROVE  AttemptIsPinned(run, workflow, n, at)
  BY DEF AttemptIsPinned, PastCheckpoint

(* An attempt ends and its run with it, or its claim.                      *)
LEMMA AttemptEnds ==
  ASSUME IntakeIsSound, NEW a \in AttemptIds, Started(a),
         NEW stage \in {"failed", "submitted"}, Step(a, Fresh(stage)),
         NEW status \in {"pending", "failed", "submitted"}, NEW submitted,
         runs' = [runs EXCEPT ![a[1]] = [runs[a[1]] EXCEPT !.status = status, !.owner = 0,
                                                           !.submitted = submitted]]
  PROVE  IntakeIsSound'
<1>1. /\ a[1] \in Calls /\ RunShape(runs[a[1]]) /\ runs[a[1]].committed
      /\ RunIsKept(runs[a[1]], attempts[a[1]]) /\ IsHistory(attempts[a[1]])
      /\ \A n \in 1 .. Len(attempts[a[1]]) :
           AttemptIsPinned(runs[a[1]], Workflow(a[1]), n, attempts[a[1]][n])
  BY AttemptsAreKnown
<1> DEFINE run == [runs[a[1]] EXCEPT !.status = status, !.owner = 0, !.submitted = submitted]
           at == Fresh(stage)
<1>2. /\ RunShape(run) /\ run.committed /\ run.status = status /\ run.owner = 0
      /\ run.input = runs[a[1]].input
  BY <1>1 DEF RunShape
<1>3. AttemptShape(at) /\ at.stage = stage
  BY FreshShape
<1>4. Step(a, at) /\ runs' = [runs EXCEPT ![a[1]] = run]
  OBVIOUS
<1> HIDE DEF run, at
<1>5. /\ DOMAIN runs' = Calls /\ runs'[a[1]] = run
      /\ \A d \in Calls : d # a[1] => runs'[d] = runs[d]
  BY <1>1, <1>4 DEF IntakeIsSound, IntakeTyped
<1>6. AttemptIsPinned(run, Workflow(a[1]), a[2], at)
  BY <1>3, EndedIsPinned
<1>7. \A n \in 1 .. Len(attempts[a[1]]) :
        AttemptIsPinned(run, Workflow(a[1]), n, attempts[a[1]][n])
  BY <1>1, <1>2, GivenUpStaysPinned
<1>8. run.input \in Snapshots \cup {Null} /\ run.owner <= Len(attempts[a[1]])
      /\ run.status # "none"
  BY <1>1, <1>2 DEF RunIsKept, IsHistory
<1> QED
  BY <1>2, <1>3, <1>4, <1>5, <1>6, <1>7, <1>8, AttemptIsRewritten

(* An attempt that lost its claim ends without a trace.                    *)
LEMMA OvertakenEnds ==
  ASSUME IntakeIsSound, NEW a \in AttemptIds, Started(a), Step(a, Fresh("failed")),
         UNCHANGED runs
  PROVE  IntakeIsSound'
<1> DEFINE at == Fresh("failed")
<1>1. AttemptShape(at) /\ at.stage = "failed" /\ Step(a, at)
  BY FreshShape
<1> HIDE DEF at
<1> QED
  BY <1>1, EndedIsPinned, AttemptGoesOn

(* A failure is recorded by the holder of the claim.                       *)
LEMMA FailIsSound ==
  ASSUME IntakeIsSound, NEW a \in AttemptIds, Started(a), NEW retry, Fail(a, retry)
  PROVE  IntakeIsSound'
<1>1. CASE Owns(a)
  <2> DEFINE status == AfterFailure(a[1], retry)
  <2>1. status \in {"pending", "failed", "submitted"}
    BY DEF AfterFailure
  <2>2. RunShape(runs[a[1]])
    BY AttemptsAreKnown
  <2>3. runs' = [runs EXCEPT ![a[1]] = [runs[a[1]] EXCEPT !.status = status, !.owner = 0]]
    BY <1>1 DEF Fail
  <2> HIDE DEF status
  <2>4. [runs[a[1]] EXCEPT !.status = status, !.owner = 0]
        = [runs[a[1]] EXCEPT !.status = status, !.owner = 0, !.submitted = runs[a[1]].submitted]
    BY <2>2 DEF RunShape
  <2>5. runs' = [runs EXCEPT ![a[1]] = [runs[a[1]] EXCEPT !.status = status, !.owner = 0,
                                          !.submitted = runs[a[1]].submitted]]
    BY <2>3, <2>4
  <2>6. Step(a, Fresh("failed"))
    BY DEF Fail
  <2> QED
    BY <2>1, <2>5, <2>6, AttemptEnds
<1>2. CASE ~Owns(a)
  BY <1>2, OvertakenEnds DEF Fail
<1> QED
  BY <1>1, <1>2

(* The window of a snapshot ends at its head and starts at its base, or at *)
(* the head before the push.                                               *)
LEMMA WindowsAreOfTheSnapshot ==
  ASSUME NEW pr \in Snapshots, NEW event_ \in {"synchronize", "other"}, NEW gone \in BOOLEAN
  PROVE  WindowIsOf(resolveReviewWindowFiles(pr, event_,
                      IF pr.previous = Null THEN Null ELSE compareCommitsBetween(pr, gone)), pr)
<1> DEFINE compared == IF pr.previous = Null THEN Null ELSE compareCommitsBetween(pr, gone)
           window == resolveReviewWindowFiles(pr, event_, compared)
<1>2. \/ \E reason : window = fullReviewWindow(pr, reason)
      \/ /\ IsAncestor(pr.previous, pr.head) /\ pr.previous # pr.head
         /\ window = pushReviewWindow(pr)
  <2>1. CASE event_ = "other"
    BY <2>1 DEF resolveReviewWindowFiles
  <2>2. CASE event_ = "synchronize" /\ pr.previous = Null
    BY <2>2 DEF resolveReviewWindowFiles
  <2>3. CASE event_ = "synchronize" /\ pr.previous # Null
    <3>1. compared.ancestor /\ ~compared.empty =>
            gone \/ (IsAncestor(pr.previous, pr.head) /\ pr.previous # pr.head)
      BY <2>3 DEF compareCommitsBetween
    <3>2. gone => compared.status = 404
      BY <2>3 DEF compareCommitsBetween
    <3> HIDE DEF compared
    <3>3. window = IF compared.status = 404
                   THEN fullReviewWindow(pr, "previous head unreachable")
                   ELSE IF ~compared.ancestor
                   THEN fullReviewWindow(pr, "previous head not ancestor")
                   ELSE IF compared.empty THEN fullReviewWindow(pr, "no files changed")
                   ELSE pushReviewWindow(pr)
      BY <2>3 DEF resolveReviewWindowFiles
    <3> QED
      BY <3>1, <3>2, <3>3
  <2> QED
    BY <2>1, <2>2, <2>3
<1> HIDE DEF window
<1>3. WindowIsOf(window, pr)
  BY <1>2 DEF fullReviewWindow, pushReviewWindow, WindowIsOf
<1> QED
  BY <1>3 DEF window

(* The attempt that runs, as the other lemmas need it.                     *)
LEMMA AttemptInStage ==
  ASSUME IntakeIsSound, NEW a \in AttemptIds, NEW stage, InStage(a, stage)
  PROVE  /\ Started(a) /\ Attempt(a).stage = stage /\ AttemptShape(Attempt(a))
         /\ AttemptIsPinned(runs[a[1]], Workflow(a[1]), a[2], Attempt(a))
<1>1. Started(a) /\ Attempt(a).stage = stage
  BY DEF InStage
<1> QED
  BY <1>1, AttemptsAreKnown DEF Attempt

(* An attempt past the checkpoint goes on with what it has.                *)
LEMMA PinnedGoesOn ==
  ASSUME NEW run, NEW workflow, NEW n, NEW at, NEW new, AttemptIsPinned(run, workflow, n, at),
         at.stage \in PastCheckpoint, new.stage \in PastCheckpoint,
         new.pr = at.pr, new.window = at.window
  PROVE  AttemptIsPinned(run, workflow, n, new)
  BY DEF AttemptIsPinned, PastCheckpoint

(* Outside the pull request workflow nothing is pinned.                    *)
LEMMA OthersAreNotPinned ==
  ASSUME NEW run, NEW workflow, NEW n, NEW new, new.stage \in PastCheckpoint,
         workflow # "pull-request-review"
  PROVE  AttemptIsPinned(run, workflow, n, new)
  BY DEF AttemptIsPinned, PastCheckpoint

(* The first step of an attempt.                                           *)
LEMMA ExecuteIsSound ==
  ASSUME IntakeIsSound, NEW a \in AttemptIds, executeClaimedPreparation(a)
  PROVE  IntakeIsSound'
<1>1. /\ Started(a) /\ Attempt(a).stage = "start" /\ AttemptShape(Attempt(a))
      /\ AttemptIsPinned(runs[a[1]], Workflow(a[1]), a[2], Attempt(a))
  BY AttemptInStage DEF executeClaimedPreparation
<1>2. CASE Fail(a, FALSE)
  BY <1>1, <1>2, FailIsSound
<1>3. CASE Advance(a, IF Workflow(a[1]) = "issue-review" THEN "fetch" ELSE "resolve")
  <2> DEFINE at == [Attempt(a) EXCEPT !.stage = IF Workflow(a[1]) = "issue-review" THEN "fetch"
                                                ELSE "resolve"]
  <2>1. /\ AttemptShape(at) /\ at.window = Attempt(a).window
        /\ at.stage = IF Workflow(a[1]) = "issue-review" THEN "fetch" ELSE "resolve"
    BY <1>1 DEF AttemptShape, Running
  <2>2. Step(a, at) /\ UNCHANGED runs
    BY <1>3 DEF Advance
  <2> HIDE DEF at
  <2>3. AttemptIsPinned(runs[a[1]], Workflow(a[1]), a[2], at)
    BY <1>1, <2>1 DEF AttemptIsPinned, PastCheckpoint
  <2> QED
    BY <1>1, <2>1, <2>2, <2>3, AttemptGoesOn
<1> QED
  BY <1>2, <1>3 DEF executeClaimedPreparation

(* The recovered snapshot is the run's; a reference is resolved only while *)
(* the run has none.                                                       *)
LEMMA ContextIsSound ==
  ASSUME IntakeIsSound, NEW a \in AttemptIds, getPullRequestContext(a)
  PROVE  IntakeIsSound'
<1>1. /\ Started(a) /\ Attempt(a).stage = "resolve" /\ AttemptShape(Attempt(a))
      /\ AttemptIsPinned(runs[a[1]], Workflow(a[1]), a[2], Attempt(a))
  BY AttemptInStage DEF getPullRequestContext
<1>2. a[1] \in Calls /\ RunIsKept(runs[a[1]], attempts[a[1]])
  BY <1>1, AttemptsAreKnown
<1>3. Attempt(a).window = Null
  BY <1>1 DEF AttemptIsPinned
<1>4. CASE runs[a[1]].input # Null
  <2> DEFINE at == [Attempt(a) EXCEPT !.stage = "window", !.pr = runs[a[1]].input]
  <2>1. /\ AttemptShape(at) /\ at.window = Null /\ at.stage = "window"
        /\ at.pr = runs[a[1]].input
    BY <1>1, <1>3 DEF AttemptShape, Running
  <2>2. Step(a, at) /\ UNCHANGED runs
    BY <1>4 DEF getPullRequestContext
  <2> HIDE DEF at
  <2>3. runs[a[1]].input \in Snapshots
    BY <1>2, <1>4 DEF RunIsKept
  <2>4. AttemptIsPinned(runs[a[1]], Workflow(a[1]), a[2], at)
    BY <2>1, <2>3 DEF AttemptIsPinned, WindowIsOf
  <2> QED
    BY <1>1, <2>1, <2>2, <2>4, AttemptGoesOn
<1>5. CASE runs[a[1]].input = Null
  <2> DEFINE at == [Attempt(a) EXCEPT !.stage = "checkpoint", !.pr = Snapshot(tip, Null)]
  <2>1. /\ AttemptShape(at) /\ at.window = Null /\ at.stage = "checkpoint"
        /\ at.pr = Snapshot(tip, Null)
    BY <1>1, <1>3 DEF AttemptShape, Running
  <2>2. Step(a, at) /\ UNCHANGED runs
    BY <1>5 DEF getPullRequestContext
  <2> HIDE DEF at
  <2>3. tip \in Seq(Nat) /\ trunk \in 0 .. Len(Trunk)
    BY DEF IntakeIsSound, SnapshotsAreTyped
  <2>4. Snapshot(tip, Null) \in Snapshots
    BY <2>3, ReportsAreSnapshots
  <2>5. AttemptIsPinned(runs[a[1]], Workflow(a[1]), a[2], at)
    BY <1>5, <2>1, <2>4 DEF AttemptIsPinned, PastCheckpoint
  <2> QED
    BY <1>1, <2>1, <2>2, <2>5, AttemptGoesOn
<1> QED
  BY <1>4, <1>5

(* The holder writes the snapshot while no attempt is past the checkpoint. *)
LEMMA CheckpointIsSound ==
  ASSUME IntakeIsSound, NEW a \in AttemptIds, checkpointPreparationInput(a)
  PROVE  IntakeIsSound'
<1>1. /\ Started(a) /\ Attempt(a).stage = "checkpoint" /\ AttemptShape(Attempt(a))
      /\ AttemptIsPinned(runs[a[1]], Workflow(a[1]), a[2], Attempt(a))
  BY AttemptInStage DEF checkpointPreparationInput
<1>2. /\ a[1] \in Calls /\ RunShape(runs[a[1]]) /\ runs[a[1]].committed
      /\ RunIsKept(runs[a[1]], attempts[a[1]]) /\ IsHistory(attempts[a[1]])
      /\ runs[a[1]].status # "none"
      /\ \A n \in 1 .. Len(attempts[a[1]]) :
           AttemptIsPinned(runs[a[1]], Workflow(a[1]), n, attempts[a[1]][n])
  BY <1>1, AttemptsAreKnown
<1>3. CASE Owns(a)
  <2> DEFINE at == [Attempt(a) EXCEPT !.stage = "window"]
             run == [runs[a[1]] EXCEPT !.input = Attempt(a).pr]
  <2>1. /\ AttemptShape(at) /\ at.window = Attempt(a).window /\ at.stage = "window"
        /\ at.pr = Attempt(a).pr
    BY <1>1 DEF AttemptShape, Running
  <2>2. /\ RunShape(run) /\ run.committed = runs[a[1]].committed /\ run.status = runs[a[1]].status
        /\ run.owner = runs[a[1]].owner /\ run.input = Attempt(a).pr
    BY <1>2 DEF RunShape
  <2>3. Step(a, at) /\ runs' = [runs EXCEPT ![a[1]] = run]
    BY <1>3 DEF checkpointPreparationInput
  <2> HIDE DEF at, run
  <2>4. /\ DOMAIN runs' = Calls /\ runs'[a[1]] = run
        /\ \A d \in Calls : d # a[1] => runs'[d] = runs[d]
    BY <1>2, <2>3 DEF IntakeIsSound, IntakeTyped
  <2>5. /\ runs[a[1]].input = Null /\ Attempt(a).pr \in Snapshots /\ Attempt(a).window = Null
        /\ runs[a[1]].owner = a[2]
    BY <1>1, <1>3 DEF AttemptIsPinned, Owns
  <2>6. AttemptIsPinned(run, Workflow(a[1]), a[2], at)
    BY <2>1, <2>2, <2>5 DEF AttemptIsPinned, WindowIsOf
  <2>7. ASSUME NEW n \in 1 .. Len(attempts[a[1]]), n # a[2]
        PROVE  AttemptIsPinned(run, Workflow(a[1]), n, attempts[a[1]][n])
    <3>1. AttemptIsPinned(runs[a[1]], Workflow(a[1]), n, attempts[a[1]][n])
      BY <1>2, <2>7
    <3> QED
      BY <2>2, <2>5, <2>7, <3>1, NoSnapshotIsNull DEF AttemptIsPinned
  <2>8. run.input \in Snapshots \cup {Null} /\ run.owner <= Len(attempts[a[1]])
    BY <1>2, <2>2, <2>5 DEF RunIsKept
  <2> QED
    BY <1>1, <1>2, <2>1, <2>2, <2>3, <2>4, <2>6, <2>7, <2>8, AttemptIsRewritten
<1>4. CASE ~Owns(a)
  BY <1>1, <1>4, OvertakenEnds DEF checkpointPreparationInput
<1> QED
  BY <1>3, <1>4

(* The window is opened on the snapshot of the run.                        *)
LEMMA WindowIsSound ==
  ASSUME IntakeIsSound, NEW a \in AttemptIds, NEW gone \in BOOLEAN, resolveEventWindow(a, gone)
  PROVE  IntakeIsSound'
<1>1. /\ Started(a) /\ Attempt(a).stage = "window" /\ AttemptShape(Attempt(a))
      /\ AttemptIsPinned(runs[a[1]], Workflow(a[1]), a[2], Attempt(a))
  BY AttemptInStage DEF resolveEventWindow
<1> DEFINE pr == Attempt(a).pr
           window == resolveReviewWindowFiles(pr, ReviewEvent(a[1]),
                       IF pr.previous = Null THEN Null ELSE compareCommitsBetween(pr, gone))
           at == [Attempt(a) EXCEPT !.stage = "commits", !.window = window]
<1>2. Step(a, at) /\ UNCHANGED runs
  BY DEF resolveEventWindow
<1>3. Workflow(a[1]) = "pull-request-review" =>
        pr \in Snapshots /\ pr = runs[a[1]].input /\ WindowIsOf(window, pr)
  <2> SUFFICES ASSUME Workflow(a[1]) = "pull-request-review"
               PROVE  pr \in Snapshots /\ pr = runs[a[1]].input /\ WindowIsOf(window, pr)
    OBVIOUS
  <2>1. pr \in Snapshots /\ pr = runs[a[1]].input
    BY <1>1 DEF AttemptIsPinned, PastCheckpoint
  <2>2. ReviewEvent(a[1]) \in {"synchronize", "other"}
    BY DEF ReviewEvent
  <2> HIDE DEF pr
  <2> QED
    BY <2>1, <2>2, WindowsAreOfTheSnapshot
<1> HIDE DEF window
<1>4. AttemptShape(at) /\ at.window = window /\ at.stage = "commits" /\ at.pr = pr
  BY <1>1 DEF AttemptShape, Running
<1> HIDE DEF at, pr
<1>5. AttemptIsPinned(runs[a[1]], Workflow(a[1]), a[2], at)
  BY <1>3, <1>4 DEF AttemptIsPinned
<1> QED
  BY <1>1, <1>2, <1>4, <1>5, AttemptGoesOn

(* The commits of the pull request, as many as a review takes.             *)
LEMMA ListCommitsIsSound ==
  ASSUME IntakeIsSound, NEW a \in AttemptIds, ListCommits(a)
  PROVE  IntakeIsSound'
<1>1. /\ Started(a) /\ Attempt(a).stage = "commits" /\ AttemptShape(Attempt(a))
      /\ AttemptIsPinned(runs[a[1]], Workflow(a[1]), a[2], Attempt(a))
  BY AttemptInStage DEF ListCommits
<1> DEFINE commits == listCommitChainRefsForPullRequest(tip, CommitAt(trunk), Attempt(a).pr)
           at == [Attempt(a) EXCEPT !.stage = "fetch", !.commits = commits]
<1>2. Fail(a, TRUE) \/ (Step(a, at) /\ UNCHANGED runs)
  BY DEF ListCommits
<1> HIDE DEF commits
<1>3. /\ AttemptShape(at) /\ at.window = Attempt(a).window /\ at.stage = "fetch"
      /\ at.pr = Attempt(a).pr
  BY <1>1 DEF AttemptShape, Running
<1> HIDE DEF at
<1>4. AttemptIsPinned(runs[a[1]], Workflow(a[1]), a[2], at)
  BY <1>1, <1>3, PinnedGoesOn DEF PastCheckpoint
<1> QED
  BY <1>1, <1>2, <1>3, <1>4, AttemptGoesOn, FailIsSound

(* A dispatch is resolved in its own workflow.                             *)
LEMMA ResolveDispatchIsSound ==
  ASSUME IntakeIsSound, NEW a \in AttemptIds, ResolveDispatch(a)
  PROVE  IntakeIsSound'
<1>1. /\ Started(a) /\ Attempt(a).stage = "resolve" /\ AttemptShape(Attempt(a))
      /\ Workflow(a[1]) = "repository-review"
  BY AttemptInStage DEF ResolveDispatch
<1>2. \/ \E retry : Fail(a, retry)
      \/ \E window : /\ Step(a, [Attempt(a) EXCEPT !.stage = "fetch", !.window = window])
                     /\ UNCHANGED runs
  BY DEF ResolveDispatch
<1>3. CASE \E retry : Fail(a, retry)
  BY <1>1, <1>3, FailIsSound
<1>4. CASE \E window : /\ Step(a, [Attempt(a) EXCEPT !.stage = "fetch", !.window = window])
                       /\ UNCHANGED runs
  <2> PICK window : /\ Step(a, [Attempt(a) EXCEPT !.stage = "fetch", !.window = window])
                    /\ UNCHANGED runs
    BY <1>4
  <2> DEFINE at == [Attempt(a) EXCEPT !.stage = "fetch", !.window = window]
  <2>1. AttemptShape(at) /\ at.stage = "fetch"
    BY <1>1 DEF AttemptShape, Running
  <2>2. Step(a, at) /\ UNCHANGED runs
    OBVIOUS
  <2> HIDE DEF at
  <2>3. AttemptIsPinned(runs[a[1]], Workflow(a[1]), a[2], at)
    BY <1>1, <2>1, OthersAreNotPinned DEF PastCheckpoint
  <2> QED
    BY <1>1, <2>1, <2>2, <2>3, AttemptGoesOn
<1> QED
  BY <1>2, <1>3, <1>4

(* The workspace is made of the attempt's refs.                            *)
LEMMA WorkspaceIsSound ==
  ASSUME IntakeIsSound, NEW a \in AttemptIds, materializeWorkspace(a)
  PROVE  IntakeIsSound'
<1>1. /\ Started(a) /\ Attempt(a).stage = "fetch" /\ AttemptShape(Attempt(a))
      /\ AttemptIsPinned(runs[a[1]], Workflow(a[1]), a[2], Attempt(a))
  BY AttemptInStage DEF materializeWorkspace
<1> DEFINE workspace == materializeWorkspaceWithCommitHistory(Refs(a), WindowBase(a))
           stage == IF Workflow(a[1]) = "repository-review" /\ HasExport(a) THEN "export"
                    ELSE "setup"
           at == [Attempt(a) EXCEPT !.workspace = workspace, !.stage = stage]
<1>2. Fail(a, TRUE) \/ (Step(a, at) /\ UNCHANGED runs)
  BY DEF materializeWorkspace
<1>3. stage \in {"export", "setup"}
  OBVIOUS
<1> HIDE DEF workspace, stage
<1>4. /\ AttemptShape(at) /\ at.window = Attempt(a).window /\ at.stage = stage
      /\ at.pr = Attempt(a).pr
  BY <1>1, <1>3 DEF AttemptShape, Running
<1> HIDE DEF at
<1>5. AttemptIsPinned(runs[a[1]], Workflow(a[1]), a[2], at)
  BY <1>1, <1>3, <1>4, PinnedGoesOn DEF PastCheckpoint
<1> QED
  BY <1>1, <1>2, <1>4, <1>5, AttemptGoesOn, FailIsSound

(* The export of the window.                                               *)
LEMMA ExportIsSound ==
  ASSUME IntakeIsSound, NEW a \in AttemptIds, ExportWindow(a)
  PROVE  IntakeIsSound'
<1>1. /\ Started(a) /\ Attempt(a).stage = "export" /\ AttemptShape(Attempt(a))
      /\ AttemptIsPinned(runs[a[1]], Workflow(a[1]), a[2], Attempt(a))
  BY AttemptInStage DEF ExportWindow
<1> DEFINE linked == IF Workflow(a[1]) = "repository-review" THEN Null ELSE LinkedIssues
           stage == IF Workflow(a[1]) = "repository-review" THEN "setup" ELSE "submit"
           at == [Attempt(a) EXCEPT !.exported = TRUE, !.linked = linked, !.stage = stage]
<1>2. Fail(a, TRUE) \/ (Step(a, at) /\ UNCHANGED runs)
  BY DEF ExportWindow
<1>3. stage \in {"submit", "setup"}
  OBVIOUS
<1> HIDE DEF linked, stage
<1>4. /\ AttemptShape(at) /\ at.window = Attempt(a).window /\ at.stage = stage
      /\ at.pr = Attempt(a).pr
  BY <1>1, <1>3 DEF AttemptShape, Running
<1> HIDE DEF at
<1>5. AttemptIsPinned(runs[a[1]], Workflow(a[1]), a[2], at)
  BY <1>1, <1>3, <1>4, PinnedGoesOn DEF PastCheckpoint
<1> QED
  BY <1>1, <1>2, <1>4, <1>5, AttemptGoesOn, FailIsSound

(* The setup declaration.                                                  *)
LEMMA SetupIsSound ==
  ASSUME IntakeIsSound, NEW a \in AttemptIds, ReadSetup(a)
  PROVE  IntakeIsSound'
<1>1. /\ Started(a) /\ Attempt(a).stage = "setup" /\ AttemptShape(Attempt(a))
      /\ AttemptIsPinned(runs[a[1]], Workflow(a[1]), a[2], Attempt(a))
  BY AttemptInStage DEF ReadSetup
<1> DEFINE stage == IF Workflow(a[1]) = "pull-request-review" THEN "export" ELSE "submit"
           at == [Attempt(a) EXCEPT !.stage = stage]
<1>2. (\E retry : Fail(a, retry)) \/ (Step(a, at) /\ UNCHANGED runs)
  BY DEF ReadSetup, Advance
<1>3. stage \in {"submit", "export"}
  OBVIOUS
<1> HIDE DEF stage
<1>4. /\ AttemptShape(at) /\ at.window = Attempt(a).window /\ at.stage = stage
      /\ at.pr = Attempt(a).pr
  BY <1>1, <1>3 DEF AttemptShape, Running
<1> HIDE DEF at
<1>5. AttemptIsPinned(runs[a[1]], Workflow(a[1]), a[2], at)
  BY <1>1, <1>3, <1>4, PinnedGoesOn DEF PastCheckpoint
<1> QED
  BY <1>1, <1>2, <1>4, <1>5, AttemptGoesOn, FailIsSound

(* The fenced submission.                                                  *)
LEMMA SubmitIsSound ==
  ASSUME IntakeIsSound, NEW a \in AttemptIds, SubmitPrepared(a)
  PROVE  IntakeIsSound'
<1>1. Started(a)
  BY DEF SubmitPrepared, InStage
<1>2. CASE Owns(a)
  <2> DEFINE submitted == Attempt(a)
  <2>1. /\ Step(a, Fresh("submitted"))
        /\ runs' = [runs EXCEPT ![a[1]] = [runs[a[1]] EXCEPT !.status = "submitted", !.owner = 0,
                                                             !.submitted = submitted]]
    BY <1>2 DEF SubmitPrepared
  <2> HIDE DEF submitted
  <2> QED
    BY <1>1, <2>1, AttemptEnds
<1>3. CASE ~Owns(a)
  BY <1>1, <1>3, OvertakenEnds DEF SubmitPrepared
<1> QED
  BY <1>2, <1>3

-----------------------------------------------------------------------------
(***************************************************************************)
(* The coordinator                                                         *)
(***************************************************************************)
(* A lease that ran out is taken back.                                     *)
LEMMA ExpireIsSound ==
  ASSUME IntakeIsSound, NEW c \in Calls, ExpireLease(c)
  PROVE  IntakeIsSound'
<1> DEFINE status == AfterFailure(c, TRUE)
           run == [runs[c] EXCEPT !.status = status, !.owner = 0]
<1>1. /\ runs[c].committed /\ runs[c].status = "preparing" /\ UNCHANGED <<HandlerLeaves, calls>>
      /\ runs' = [runs EXCEPT ![c] = run]
  BY DEF ExpireLease
<1>2. status \in {"pending", "failed"}
  BY DEF AfterFailure
<1>3. /\ RunShape(runs[c]) /\ RunIsKept(runs[c], attempts[c]) /\ IsHistory(attempts[c])
      /\ \A n \in 1 .. Len(attempts[c]) :
           AttemptIsPinned(runs[c], Workflow(c), n, attempts[c][n])
  BY DEF IntakeIsSound, IntakeTyped, SnapshotsAreTyped, AttemptsArePinned
<1> HIDE DEF status
<1>4. /\ RunShape(run) /\ run.committed = runs[c].committed /\ run.status = status
      /\ run.owner = 0 /\ run.input = runs[c].input
  BY <1>2, <1>3 DEF RunShape
<1> HIDE DEF run
<1>5. /\ DOMAIN runs' = Calls /\ runs'[c] = run /\ \A d \in Calls : d # c => runs'[d] = runs[d]
      /\ DOMAIN attempts' = Calls /\ attempts' = attempts
  BY <1>1 DEF IntakeIsSound, IntakeTyped, HandlerLeaves
<1>6. \A n \in 1 .. Len(attempts[c]) : AttemptIsPinned(run, Workflow(c), n, attempts[c][n])
  BY <1>2, <1>3, <1>4, GivenUpStaysPinned
<1>7. RunIsKept(run, attempts[c])
  BY <1>1, <1>3, <1>4 DEF RunIsKept, IsHistory
<1>8. UNCHANGED AttemptLeaves /\ (run.status = "none" <=> runs[c].status = "none")
  BY <1>1, <1>2, <1>4 DEF HandlerLeaves, AttemptLeaves
<1> QED
  BY <1>3, <1>4, <1>5, <1>6, <1>7, <1>8, RunIsRewritten

(* The next attempt has a number that no attempt had.                      *)
LEMMA ClaimIsSound ==
  ASSUME IntakeIsSound, NEW c \in Calls, ClaimNextPreparation(c)
  PROVE  IntakeIsSound'
<1> DEFINE s == attempts[c]
           at == Fresh("start")
           t == Append(s, at)
           run == [runs[c] EXCEPT !.status = "preparing", !.owner = Len(s) + 1]
<1>1. /\ runs[c].status = "pending" /\ UNCHANGED AttemptLeaves
      /\ runs' = [runs EXCEPT ![c] = run] /\ attempts' = [attempts EXCEPT ![c] = t]
  BY DEF ClaimNextPreparation
<1>2. /\ RunShape(runs[c]) /\ RunIsKept(runs[c], s) /\ IsHistory(s)
      /\ \A n \in 1 .. Len(s) : AttemptIsPinned(runs[c], Workflow(c), n, s[n])
  BY DEF IntakeIsSound, IntakeTyped, SnapshotsAreTyped, AttemptsArePinned
<1>3. runs[c].committed
  BY <1>1, <1>2 DEF RunIsKept
<1>4. AttemptShape(at) /\ at.stage = "start" /\ at.window = Null
  BY FreshShape DEF Running
<1> HIDE DEF s, at
<1>5. /\ IsHistory(t) /\ Len(t) = Len(s) + 1 /\ Len(s) \in Nat
      /\ \A i \in 1 .. Len(t) : t[i] = IF i = Len(s) + 1 THEN at ELSE s[i]
  BY <1>2, <1>4, HistoryAppend
<1> HIDE DEF t
<1>6. /\ RunShape(run) /\ run.committed = runs[c].committed /\ run.status = "preparing"
      /\ run.owner = Len(s) + 1 /\ run.input = runs[c].input
  <2> DEFINE owner == Len(s) + 1
  <2>1. owner \in Nat
    BY <1>5
  <2> HIDE DEF owner
  <2>2. run = [runs[c] EXCEPT !.status = "preparing", !.owner = owner]
    BY DEF owner
  <2>3. /\ RunShape(run) /\ run.committed = runs[c].committed /\ run.status = "preparing"
        /\ run.owner = owner /\ run.input = runs[c].input
    BY <1>2, <2>1, <2>2 DEF RunShape
  <2> QED
    BY <2>3 DEF owner
<1> HIDE DEF run
<1>7. /\ DOMAIN runs' = Calls /\ runs'[c] = run /\ \A d \in Calls : d # c => runs'[d] = runs[d]
      /\ DOMAIN attempts' = Calls /\ attempts'[c] = t
      /\ \A d \in Calls : d # c => attempts'[d] = attempts[d]
  BY <1>1 DEF IntakeIsSound, IntakeTyped
<1>8. ASSUME NEW n \in 1 .. Len(t) PROVE AttemptIsPinned(run, Workflow(c), n, t[n])
  <2>1. CASE n = Len(s) + 1
    BY <1>4, <1>5, <1>8, <2>1 DEF AttemptIsPinned, PastCheckpoint
  <2>2. CASE n # Len(s) + 1
    <3>1. n \in 1 .. Len(s) /\ t[n] = s[n]
      BY <1>5, <1>8, <2>2
    <3>2. AttemptIsPinned(runs[c], Workflow(c), n, s[n])
      BY <1>2, <3>1
    <3> QED
      BY <1>6, <2>2, <3>1, <3>2 DEF AttemptIsPinned
  <2> QED
    BY <2>1, <2>2
<1>9. RunIsKept(run, t)
  BY <1>2, <1>3, <1>5, <1>6 DEF RunIsKept
<1>10. run.status = "none" <=> runs[c].status = "none"
  BY <1>1, <1>6
<1> QED
  BY <1>1, <1>5, <1>6, <1>7, <1>8, <1>9, <1>10, RunIsRewritten

-----------------------------------------------------------------------------
(***************************************************************************)
(* The theorems                                                            *)
(***************************************************************************)
(* Nothing has arrived.                                                    *)
LEMMA IntakeStartsSound == IntakeInit => IntakeIsSound
<1> SUFFICES ASSUME IntakeInit PROVE IntakeIsSound
  OBVIOUS
<1>1. /\ DOMAIN calls = Calls /\ DOMAIN runs = Calls /\ DOMAIN attempts = Calls
      /\ DOMAIN payload = Keys /\ event \in Scenarios /\ tip = <<1>> /\ pushes = 0
      /\ trunk = Len(Days) - 1
      /\ \A k \in Keys : payload[k] = Unsent
  BY DEF IntakeInit
<1>2. \A c \in Calls : /\ calls[c] = [stage |-> "idle", run |-> Null, created |-> FALSE,
                                      answer |-> Null]
                       /\ runs[c] = NoRun /\ attempts[c] = << >>
  BY DEF IntakeInit
<1>3. RunShape(NoRun) /\ ~NoRun.committed /\ NoRun.status = "none" /\ NoRun.input = Null
      /\ NoRun.owner = 0
  BY DEF NoRun, RunShape
<1>4. \A c \in Calls : /\ CallShape(calls[c]) /\ calls[c].stage = "idle"
                       /\ calls[c].run = Null /\ ~calls[c].created
  <2> DEFINE idle == [stage |-> "idle", run |-> Null, created |-> FALSE, answer |-> Null]
  <2>1. CallShape(idle) /\ idle.stage = "idle" /\ idle.run = Null /\ ~idle.created
    BY DEF CallShape, CallStages
  <2> HIDE DEF idle
  <2>2. \A c \in Calls : calls[c] = idle
    BY <1>2 DEF idle
  <2> QED
    BY <2>1, <2>2
<1>5. IsHistory(<< >>) /\ Len(<< >>) = 0
  <2>1. << >> \in Seq({}) /\ Len(<< >>) = 0
    OBVIOUS
  <2>2. << >> \in Seq(Range(<< >>))
    BY <2>1, OwnElements
  <2> QED
    BY <2>1, <2>2 DEF IsHistory
<1>6. IntakeTyped
  BY <1>1, <1>2, <1>3, <1>4, <1>5 DEF IntakeTyped
<1>7. AdmissionIsSound
  BY <1>2, <1>3, <1>4 DEF AdmissionIsSound, OneRow, IsRow
<1>8. SnapshotsAreTyped
  <2>1. RunIsKept(NoRun, << >>)
    BY <1>3, <1>5 DEF RunIsKept
  <2> QED
    BY <1>1, <1>2, <1>4, <2>1, TrunkIsAHistory DEF SnapshotsAreTyped
<1>9. AttemptsArePinned
  BY <1>2, <1>5 DEF AttemptsArePinned
<1> QED
  BY <1>6, <1>7, <1>8, <1>9 DEF IntakeIsSound

(* A step of an attempt.                                                   *)
LEMMA AttemptStepIsSound ==
  ASSUME IntakeIsSound, NEW a \in AttemptIds,
         AttemptStep(a) \/ \E status \in {Null, 403} : PreparationFails(a, status)
  PROVE  IntakeIsSound'
<1>1. CASE executeClaimedPreparation(a)
  BY <1>1, ExecuteIsSound
<1>2. CASE getPullRequestContext(a)
  BY <1>2, ContextIsSound
<1>3. CASE checkpointPreparationInput(a)
  BY <1>3, CheckpointIsSound
<1>4. CASE \E gone \in BOOLEAN : resolveEventWindow(a, gone)
  BY <1>4, WindowIsSound
<1>5. CASE ListCommits(a)
  BY <1>5, ListCommitsIsSound
<1>6. CASE ResolveDispatch(a)
  BY <1>6, ResolveDispatchIsSound
<1>7. CASE materializeWorkspace(a)
  BY <1>7, WorkspaceIsSound
<1>8. CASE ExportWindow(a)
  BY <1>8, ExportIsSound
<1>9. CASE ReadSetup(a)
  BY <1>9, SetupIsSound
<1>10. CASE SubmitPrepared(a)
  BY <1>10, SubmitIsSound
<1>11. CASE \E status \in {Null, 403} : PreparationFails(a, status)
  <2> PICK status \in {Null, 403} : PreparationFails(a, status)
    BY <1>11
  <2> DEFINE retry == classifyPreparationFailure(status, FALSE)
  <2>1. Started(a) /\ Fail(a, retry)
    BY DEF PreparationFails
  <2> HIDE DEF retry
  <2> QED
    BY <2>1, FailIsSound
<1> QED
  BY <1>1, <1>2, <1>3, <1>4, <1>5, <1>6, <1>7, <1>8, <1>9, <1>10, <1>11 DEF AttemptStep

(* A step of a handler or of the coordinator.                              *)
LEMMA CallStepIsSound ==
  ASSUME IntakeIsSound, NEW c \in Calls,
         \/ Arrive(c) \/ CallStep(c) \/ LookupFails(c) \/ AdmissionFails(c)
         \/ ExpireLease(c) \/ ClaimNextPreparation(c)
  PROVE  IntakeIsSound'
<1>1. CASE Arrive(c)
  BY <1>1, ArriveIsSound
<1>2. CASE \/ fetchTrustedRepositoryTriggerConfig(c) \/ AuthoriseCommand(c) \/ LookupFails(c)
           \/ \E outcome \in {"complete", "large", "slow", "broken"} : ReadBody(c, outcome)
           \/ handleRepositoryReviewDispatch(c)
  BY <1>2, HandlersAreSound
<1>3. CASE AdmitSelect(c) \/ InsertConflicts(c) \/ ReadWinner(c)
  BY <1>3, AdmissionReadsAreSound
<1>4. CASE InsertRow(c)
  BY <1>4, InsertIsSound
<1>5. CASE \E told \in BOOLEAN : Commit(c, told)
  BY <1>5, CommitIsSound
<1>6. CASE AdmissionFails(c)
  BY <1>6, AdmissionFailsIsSound
<1>7. CASE ExpireLease(c)
  BY <1>7, ExpireIsSound
<1>8. CASE ClaimNextPreparation(c)
  BY <1>8, ClaimIsSound
<1> QED
  BY <1>1, <1>2, <1>3, <1>4, <1>5, <1>6, <1>7, <1>8 DEF CallStep

(* The invariant is inductive.                                             *)
LEMMA IntakeStaysSound == IntakeIsSound /\ [IntakeNext]_intakeVars => IntakeIsSound'
<1> SUFFICES ASSUME IntakeIsSound, [IntakeNext]_intakeVars PROVE IntakeIsSound'
  OBVIOUS
<1>1. CASE PushCommit \/ ForcePush \/ MergeToTrunk \/ (\E k \in Keys : Send(k))
  BY <1>1, GitHubIsSound
<1>2. CASE Crash
  BY <1>2, CrashIsSound
<1>3. CASE \E c \in Calls : Arrive(c) \/ CallStep(c) \/ LookupFails(c) \/ AdmissionFails(c)
                            \/ ExpireLease(c) \/ ClaimNextPreparation(c)
  BY <1>3, CallStepIsSound
<1>4. CASE \E a \in AttemptIds : AttemptStep(a)
                                 \/ \E status \in {Null, 403} : PreparationFails(a, status)
  BY <1>4, AttemptStepIsSound
<1>5. CASE UNCHANGED intakeVars
  <2>1. /\ UNCHANGED <<event, calls, runs, attempts>> /\ tip' \in Seq(Nat) /\ pushes' \in Nat
        /\ DOMAIN payload' = Keys /\ trunk' \in 0 .. Len(Trunk)
        /\ \A k \in Keys : /\ payload'[k] \in Snapshots \cup {Null, Unsent}
                           /\ payload[k] # Unsent => payload'[k] = payload[k]
                           /\ payload'[k] # Unsent => event[k] # Null
    BY <1>5 DEF intakeVars, IntakeIsSound, SnapshotsAreTyped
  <2> QED
    BY <2>1, GitHubMoves
<1> QED
  BY <1>1, <1>2, <1>3, <1>4, <1>5 DEF IntakeNext

(* However often a delivery arrives, however its admissions interleave and *)
(* whatever restarts they meet, one run is committed for it, everyone who  *)
(* is answered with a run is answered with that one, and one caller at     *)
(* most is told to prepare it (review-run-admission-store.ts).             *)
THEOREM DeliveriesBecomeOneRun == IntakeSpec => []OneRunPerDelivery
<1>1. IntakeSpec => []IntakeIsSound
  BY IntakeStartsSound, IntakeStaysSound, PTL DEF IntakeSpec
<1>2. IntakeIsSound => OneRunPerDelivery
  BY SoundIsOneRun DEF IntakeIsSound
<1> QED
  BY <1>1, <1>2, PTL

(* Every attempt of a pull request run that is past the checkpoint, one    *)
(* that lost its claim included, works on the snapshot the run keeps, in a *)
(* window that ends at its head and starts at an ancestor of it, however   *)
(* the branch is pushed and whoever takes the preparation over             *)
(* (pull-request-review.ts, preparation-coordinator.ts, review-window.ts). *)
THEOREM AttemptsShareTheSnapshot == IntakeSpec => []SnapshotIsPinned
<1>1. IntakeSpec => []IntakeIsSound
  BY IntakeStartsSound, IntakeStaysSound, PTL DEF IntakeSpec
<1>2. IntakeIsSound => SnapshotIsPinned
  BY PinnedIsSnapshot DEF IntakeIsSound
<1> QED
  BY <1>1, <1>2, PTL

-----------------------------------------------------------------------------
(***************************************************************************)
(* What a handler has asked by the time it waits: a second invariant,      *)
(* which follows every event from the handler that took it up to the row.  *)
(***************************************************************************)
Automatic(e) ==
  /\ ~isSelfOriginatedWebhookEvent(e.sender)
  /\ e.kind \in PullRequestEvents \cup {"issues.opened"}
  /\ e.kind \in PullRequestEvents =>
       ~isForkPullRequest(e.pr) /\ requirePullRequestContext(e.raw)
  /\ e.kind = "issues.opened" => e.target # "pull" /\ requireIssueContext(e.raw)

Commented(e) ==
  /\ ~isSelfOriginatedWebhookEvent(e.sender)
  /\ e.kind = "issue_comment.created" /\ requireIssueContext(e.raw)

Reviewable(e) ==
  \/ Automatic(e)
  \/ Commented(e) /\ authorizeManualCommentCommand(e.sender.login, e.permission)
  \/ e.kind = "dispatch"

StageIsCleared(stage, e) ==
  /\ stage = "config" => Automatic(e)
  /\ stage = "authorise" => Commented(e)
  /\ stage \in {"body", "dispatch"} => e.kind = "dispatch"
  /\ stage \in {"admit", "insert", "conflict", "commit"} => Reviewable(e)

(* Only a pull request event carries a pull request.                       *)
PayloadsAreOfTheirKind ==
  \A k \in Keys : payload[k] \in {Unsent, Null} \/ event[k].kind \in PullRequestEvents

EventsAreCleared ==
  /\ PayloadsAreOfTheirKind
  /\ \A c \in Calls : /\ StageIsCleared(calls[c].stage, Event(c))
                      /\ IsRow(c) => Reviewable(Event(c)) /\ payload[KeyOf(c)] # Unsent

(* What the database keeps of a context reads like the context.            *)
LEMMA StoredReadsBack ==
  ASSUME NEW context, NEW f \in DOMAIN context
  PROVE  ReadField(Stored(context), f) = context[f]
  BY DEF ReadField, Stored, Restrict

(* An issue with what a review needs is read back.                         *)
LEMMA IssueSurvives ==
  ASSUME NEW raw, requireIssueContext(raw)
  PROVE  parsePreparationInput("issue-review", [issue |-> Stored(extractIssueContext(raw))])
<1> DEFINE context == extractIssueContext(raw)
           stored == Stored(context)
<1>1. DOMAIN context = IssueFields
  BY DEF extractIssueContext
<1>2. \A f \in IssueRequired : context[f] = "text"
  BY DEF extractIssueContext, requireIssueContext, asString, IssueFields, IssueRequired,
         IssueStrings, IssueLogins
<1>3. \A f \in IssueStrings : context[f] \in Texts
  BY DEF extractIssueContext, asString, IssueFields, IssueRequired, IssueStrings, IssueLogins,
         Texts
<1>4. \A f \in IssueLogins : context[f] \in {Undefined, "text"}
  BY DEF extractIssueContext, trimmedOrUndefined, IssueFields, IssueRequired, IssueStrings,
         IssueLogins
<1>5. context["issue_body"] \in Texts \cup {Null}
  BY DEF extractIssueContext, trimmedOrNull, IssueFields, IssueRequired, IssueStrings,
         IssueLogins, Texts
<1>6. context["issue_number"] \in {"number", "zero"}
  BY DEF extractIssueContext, asNumber, IssueFields, IssueRequired, IssueStrings, IssueLogins
<1>7. context["is_pull_request"] \in {"true", "false"}
  BY DEF extractIssueContext, asBoolean, IssueFields, IssueRequired, IssueStrings, IssueLogins
<1> HIDE DEF context
<1>8. \A f \in IssueFields : ReadField(stored, f) = context[f]
  BY <1>1, StoredReadsBack
<1>9. RecoveredIssueIsReadable(stored)
  <2>1. IssueRequired \cup IssueStrings \cup IssueLogins \subseteq IssueFields
        /\ {"issue_number", "issue_body", "is_pull_request"} \subseteq IssueFields
    BY DEF IssueFields
  <2>2. ReadField(stored, "issue_number") # Undefined /\ ReadField(stored, "is_pull_request") # Undefined
    BY <1>6, <1>7, <1>8, <2>1, UndefinedIsNoValue DEF Values
  <2> QED
    BY <1>2, <1>3, <1>4, <1>5, <1>8, <2>1, <2>2 DEF RecoveredIssueIsReadable, optionalLogin
<1>10. stored # Null
  <2> DEFINE fields == {f \in IssueFields : context[f] # Undefined}
  <2>1. \A f \in IssueFields : context[f] \in Values \cup {Undefined}
    BY <1>2, <1>3, <1>4, <1>5, <1>6, <1>7 DEF Values, Texts, IssueFields
  <2>2. stored = [f \in fields |-> context[f]]
    BY <1>1 DEF Stored, Restrict
  <2>3. stored \in [fields -> Values]
    BY <2>1, <2>2
  <2> QED
    BY <2>3, NoRecordIsNull
<1> HIDE DEF stored
<1> DEFINE input == [issue |-> stored]
<1>11. DOMAIN input = {"issue"} /\ input.issue = stored
  OBVIOUS
<1>12. parsePreparationInput("issue-review", input)
  BY <1>9, <1>10, <1>11 DEF parsePreparationInput, parseIssuePreparationInput
<1> QED
  BY <1>12 DEF stored, context

(* So is a pull request,                                                   *)
LEMMA PullSurvives ==
  ASSUME NEW raw, requirePullRequestContext(raw)
  PROVE  parsePreparationInput("pull-request-review",
                               [pr |-> Stored(buildPullRequestContextFromRaw(raw))])
<1> DEFINE context == buildPullRequestContextFromRaw(raw)
           stored == Stored(context)
<1>1. DOMAIN context = PullFields
  BY DEF buildPullRequestContextFromRaw
<1>2. \A f \in PullRequired : context[f] = "text"
  BY DEF buildPullRequestContextFromRaw, requirePullRequestContext, asString, PullFields,
         PullRequired, PullStrings, PullOptional, PullNumbers, PullBooleans
<1>3. \A f \in PullStrings : context[f] \in Texts
  BY DEF buildPullRequestContextFromRaw, asString, PullFields, PullRequired, PullStrings,
         PullOptional, PullNumbers, PullBooleans, Texts
<1>4. \A f \in PullOptional : context[f] \in Texts \cup {Null}
  BY DEF buildPullRequestContextFromRaw, trimmedOrNull, PullFields, PullRequired, PullStrings,
         PullOptional, PullNumbers, PullBooleans, Texts
<1>5. \A f \in PullNumbers : context[f] \in {"number", "zero"}
  BY DEF buildPullRequestContextFromRaw, asNumber, PullFields, PullRequired, PullStrings,
         PullOptional, PullNumbers, PullBooleans
<1>6. \A f \in PullBooleans : context[f] \in {"true", "false"}
  BY DEF buildPullRequestContextFromRaw, asBoolean, PullFields, PullRequired, PullStrings,
         PullOptional, PullNumbers, PullBooleans
<1> HIDE DEF context
<1>7. \A f \in PullFields : ReadField(stored, f) = context[f]
  BY <1>1, StoredReadsBack
<1>8. requirePersistedPullRequest(stored)
  <2>1. PullRequired \cup PullStrings \cup PullOptional \cup PullNumbers \cup PullBooleans
          = PullFields
    BY DEF PullFields
  <2>2. \A f \in PullNumbers \cup PullBooleans : ReadField(stored, f) # Undefined
    BY <1>5, <1>6, <1>7, <2>1, UndefinedIsNoValue DEF Values
  <2> QED
    BY <1>2, <1>3, <1>4, <1>7, <2>1, <2>2 DEF requirePersistedPullRequest, optionalStringOrNull
<1> HIDE DEF stored
<1> DEFINE input == [pr |-> stored]
<1>9. DOMAIN input = {"pr"} /\ input.pr = stored
  OBVIOUS
<1>10. parsePreparationInput("pull-request-review", input)
  BY <1>8, <1>9 DEF parsePreparationInput, parsePullRequestPreparationInput
<1> QED
  BY <1>10 DEF stored, context

(* the name of one, and a dispatch.                                        *)
LEMMA ReferencesSurvive ==
  /\ parsePreparationInput("pull-request-review", PullReference)
  /\ parsePreparationInput("repository-review",
                           [dispatch |-> {"payload", "verified_repository"}])
<1>1. parsePreparationInput("pull-request-review", PullReference)
  BY DEF parsePreparationInput, parsePullRequestPreparationInput, PullReference
<1>2. parsePreparationInput("repository-review",
                            [dispatch |-> {"payload", "verified_repository"}])
  BY DEF parsePreparationInput, parseRepositoryPreparationInput
<1> QED
  BY <1>1, <1>2

(* What may be reviewed can be prepared again.                             *)
LEMMA ClearedSurvives ==
  ASSUME EventsAreCleared, NEW c \in Calls, IsRow(c)
  PROVE  parsePreparationInput(Workflow(c), PreparationInputOf(c))
<1> DEFINE e == Event(c)
<1>1. Reviewable(e) /\ (payload[KeyOf(c)] = Null \/ e.kind \in PullRequestEvents)
  BY CallsHaveKeys DEF EventsAreCleared, PayloadsAreOfTheirKind, Event
<1>2. CASE Workflow(c) = "repository-review"
  <2>1. PreparationInputOf(c) = [dispatch |-> {"payload", "verified_repository"}]
    BY <1>2 DEF PreparationInputOf, dispatchRepositoryReview
  <2> QED
    BY <1>2, <2>1, ReferencesSurvive
<1>3. CASE Workflow(c) = "pull-request-review" /\ payload[KeyOf(c)] = Null
  <2>1. PreparationInputOf(c) = PullReference
    BY <1>3 DEF PreparationInputOf, startPullRequestReviewCommand
  <2> QED
    BY <1>3, <2>1, ReferencesSurvive
<1>4. CASE Workflow(c) = "pull-request-review" /\ payload[KeyOf(c)] # Null
  <2>1. e.kind \in PullRequestEvents
    BY <1>1, <1>4
  <2>2. requirePullRequestContext(e.raw)
    BY <1>1, <2>1 DEF Reviewable, Automatic, Commented, PullRequestEvents
  <2>3. PreparationInputOf(c) = [pr |-> Stored(buildPullRequestContextFromRaw(e.raw))]
    BY <1>4 DEF PreparationInputOf, startPullRequestReviewCommand
  <2> QED
    BY <1>4, <2>2, <2>3, PullSurvives
<1>5. CASE Workflow(c) = "issue-review"
  <2>1. e.kind # "dispatch" /\ e.kind \notin PullRequestEvents
    BY <1>5 DEF Workflow, IsPull
  <2>2. requireIssueContext(e.raw)
    BY <1>1, <2>1 DEF Reviewable, Automatic, Commented
  <2>3. PreparationInputOf(c) = [issue |-> Stored(extractIssueContext(e.raw))]
    BY <1>5 DEF PreparationInputOf, startIssueReviewCommand
  <2> QED
    BY <1>5, <2>2, <2>3, IssueSurvives
<1>6. Workflow(c) \in {"repository-review", "pull-request-review", "issue-review"}
  BY DEF Workflow
<1> QED
  BY <1>2, <1>3, <1>4, <1>5, <1>6

(* Who may write is told apart by rank.                                    *)
LEMMA WritersAreRanked ==
  ASSUME NEW login, NEW answer, authorizeManualCommentCommand(login, answer)
  PROVE  answer \in {"write", "maintain", "admin"}
<1> DEFINE value == normalizeRepositoryPermission(answer)
<1>1. value \in {"unknown", "none", "read", "triage", "write", "maintain", "admin"}
      /\ (value # "unknown" => value = answer)
  BY DEF normalizeRepositoryPermission, PERMISSION_RANK
<1>2. PERMISSION_RANK[value] >= PERMISSION_RANK.write
  BY DEF authorizeManualCommentCommand
<1> HIDE DEF value
<1>3. value \in {"write", "maintain", "admin"}
  BY <1>1, <1>2 DEF PERMISSION_RANK
<1> QED
  BY <1>1, <1>3

(* What may be reviewed is not the app's own, and no fork but on command.  *)
LEMMA ClearedIsOnCommand == IntakeIsSound /\ EventsAreCleared => ForksAreReviewedOnCommand
<1> SUFFICES ASSUME IntakeIsSound, EventsAreCleared, NEW c \in Calls, IsRow(c)
             PROVE  LET e == Event(c)
                    IN /\ e.sender.login # AppBotLogin
                       /\ Workflow(c) = "pull-request-review" /\ e.pr.head_repo # e.pr.base_repo =>
                             /\ e.kind = "issue_comment.created"
                             /\ e.permission \in {"write", "maintain", "admin"}
  BY DEF ForksAreReviewedOnCommand
<1> DEFINE e == Event(c)
<1>1. Reviewable(e) /\ payload[KeyOf(c)] # Unsent
  BY DEF EventsAreCleared
<1>2. /\ e # Null /\ e.kind \in EventKinds
      /\ e.sender.login = AppBotLogin =>
           AppBotLogin # Null /\ e.sender.type = "Bot" /\ e.kind # "dispatch"
  BY <1>1, CallsHaveKeys, ScenariosAreEvents, AppIsABot
     DEF Event, IntakeIsSound, SnapshotsAreTyped
<1> HIDE DEF e
<1>3. e.sender.login # AppBotLogin
  BY <1>1, <1>2 DEF Reviewable, Automatic, Commented, isSelfOriginatedWebhookEvent
<1>4. ASSUME Workflow(c) = "pull-request-review", e.pr.head_repo # e.pr.base_repo
      PROVE  e.kind = "issue_comment.created" /\ e.permission \in {"write", "maintain", "admin"}
  <2>1. e.kind # "dispatch" /\ (e.kind \in PullRequestEvents \/ e.target = "pull")
    BY <1>4 DEF Workflow, IsPull, e
  <2>2. ~Automatic(e)
    BY <1>4, <2>1 DEF Automatic, isForkPullRequest
  <2>3. Commented(e) /\ authorizeManualCommentCommand(e.sender.login, e.permission)
    BY <1>1, <2>1, <2>2 DEF Reviewable
  <2>4. e.kind = "issue_comment.created"
    BY <2>3 DEF Commented
  <2> QED
    BY <2>3, <2>4, WritersAreRanked
<1> QED
  BY <1>3, <1>4 DEF e

(* A step keeps every event cleared whose handlers move only to where      *)
(* their event may be, and whose new rows are of events that may be        *)
(* reviewed.                                                               *)
LEMMA ClearedStays ==
  ASSUME EventsAreCleared, event' = event, payload' = payload,
         \A d \in Calls : \/ calls'[d].stage = calls[d].stage
                          \/ StageIsCleared(calls'[d].stage, Event(d)),
         \A d \in Calls : runs'[d].status # "none" =>
            \/ IsRow(d)
            \/ Reviewable(Event(d)) /\ payload[KeyOf(d)] # Unsent
  PROVE  EventsAreCleared'
<1>1. \A d \in Calls : Event(d)' = Event(d)
  BY DEF Event, KeyOf
<1>2. PayloadsAreOfTheirKind'
  BY DEF EventsAreCleared, PayloadsAreOfTheirKind
<1>3. \A d \in Calls : StageIsCleared(calls'[d].stage, Event(d))
  BY DEF EventsAreCleared
<1>4. \A d \in Calls : runs'[d].status # "none" =>
        Reviewable(Event(d)) /\ payload[KeyOf(d)] # Unsent
  BY DEF EventsAreCleared
<1> QED
  BY <1>1, <1>2, <1>3, <1>4 DEF EventsAreCleared, IsRow

(* Where a handler waits for nothing, nothing was asked.                   *)
LEMMA EndsAreCleared ==
  ASSUME NEW e, NEW stage \in {"idle", "done", "dropped"}
  PROVE  StageIsCleared(stage, e)
  BY DEF StageIsCleared

(* One handler moves.                                                      *)
LEMMA HandlerStaysCleared ==
  ASSUME IntakeIsSound, EventsAreCleared, NEW c \in Calls, NEW new,
         UNCHANGED HandlerLeaves, UNCHANGED runs, calls' = [calls EXCEPT ![c] = new],
         StageIsCleared(new.stage, Event(c))
  PROVE  EventsAreCleared'
<1>1. \A d \in Calls : calls'[d] = IF d = c THEN new ELSE calls[d]
  BY DEF IntakeIsSound, IntakeTyped
<1>2. \A d \in Calls : \/ calls'[d].stage = calls[d].stage
                       \/ StageIsCleared(calls'[d].stage, Event(d))
  BY <1>1
<1>3. \A d \in Calls : runs'[d].status # "none" => IsRow(d)
  BY DEF IsRow
<1> QED
  BY <1>2, <1>3, ClearedStays DEF HandlerLeaves

(* The handler goes on,                                                    *)
LEMMA GotoStaysCleared ==
  ASSUME IntakeIsSound, EventsAreCleared, NEW c \in Calls, NEW stage, Goto(c, stage),
         UNCHANGED HandlerLeaves, UNCHANGED runs, StageIsCleared(stage, Event(c))
  PROVE  EventsAreCleared'
<1> DEFINE new == [calls[c] EXCEPT !.stage = stage]
<1>1. CallShape(calls[c])
  BY DEF IntakeIsSound, IntakeTyped
<1>2. new.stage = stage
  BY <1>1 DEF CallShape
<1>3. calls' = [calls EXCEPT ![c] = new]
  BY DEF Goto
<1> HIDE DEF new
<1> QED
  BY <1>2, <1>3, HandlerStaysCleared

(* or answers.                                                             *)
LEMMA FinishStaysCleared ==
  ASSUME IntakeIsSound, EventsAreCleared, NEW c \in Calls, NEW answer, Finish(c, answer),
         UNCHANGED HandlerLeaves, UNCHANGED runs
  PROVE  EventsAreCleared'
<1> DEFINE new == [calls[c] EXCEPT !.stage = "done", !.answer = answer]
<1>1. CallShape(calls[c])
  BY DEF IntakeIsSound, IntakeTyped
<1>2. new.stage = "done"
  BY <1>1 DEF CallShape
<1>3. calls' = [calls EXCEPT ![c] = new]
  BY DEF Finish
<1> HIDE DEF new
<1> QED
  BY <1>2, <1>3, EndsAreCleared, HandlerStaysCleared

(* What each handler has asked before its first await.                     *)
LEMMA AskedFirst ==
  ASSUME NEW e
  PROVE  /\ e.kind = "issues.opened" /\ handleIssueOpened(e) = "config" => Automatic(e)
         /\ e.kind = "pull_request.opened" /\ handlePullRequestOpened(e) = "config" =>
              Automatic(e)
         /\ e.kind = "pull_request.synchronize" /\ handlePullRequestSynchronize(e) = "config" =>
              Automatic(e)
         /\ e.kind = "pull_request.ready_for_review"
            /\ handlePullRequestReadyForReview(e) = "config" => Automatic(e)
         /\ e.kind = "issue_comment.created" /\ handleIssueCommentCreated(e) = "authorise" =>
              Commented(e)
<1>1. extractIssueContext(e.raw) # Null => requireIssueContext(e.raw)
  BY DEF extractIssueContext
<1>2. buildPullRequestContextFromRaw(e.raw) # Null => requirePullRequestContext(e.raw)
  BY DEF buildPullRequestContextFromRaw
<1>3. e.kind = "issues.opened" /\ handleIssueOpened(e) = "config" => Automatic(e)
  BY <1>1 DEF handleIssueOpened, Automatic, PullRequestEvents
<1>4. e.kind = "pull_request.opened" /\ handlePullRequestOpened(e) = "config" => Automatic(e)
  BY <1>2 DEF handlePullRequestOpened, Automatic, PullRequestEvents
<1>5. e.kind = "pull_request.synchronize" /\ handlePullRequestSynchronize(e) = "config" =>
        Automatic(e)
  BY <1>2 DEF handlePullRequestSynchronize, Automatic, PullRequestEvents
<1>6. e.kind = "pull_request.ready_for_review" /\ handlePullRequestReadyForReview(e) = "config" =>
        Automatic(e)
  BY <1>2 DEF handlePullRequestReadyForReview, Automatic, PullRequestEvents
<1>7. e.kind = "issue_comment.created" /\ handleIssueCommentCreated(e) = "authorise" =>
        Commented(e)
  BY <1>1 DEF handleIssueCommentCreated, Commented
<1> QED
  BY <1>3, <1>4, <1>5, <1>6, <1>7

(* The arrival of a delivery.                                              *)
LEMMA ArriveStaysCleared ==
  ASSUME IntakeIsSound, EventsAreCleared, NEW c \in Calls, Arrive(c)
  PROVE  EventsAreCleared'
<1> DEFINE e == Event(c)
           next == CASE e.kind = "issues.opened"                 -> handleIssueOpened(e)
                     [] e.kind = "pull_request.opened"           -> handlePullRequestOpened(e)
                     [] e.kind = "pull_request.synchronize"      -> handlePullRequestSynchronize(e)
                     [] e.kind = "pull_request.ready_for_review" -> handlePullRequestReadyForReview(e)
                     [] e.kind = "issue_comment.created"         -> handleIssueCommentCreated(e)
                     [] e.kind = "dispatch"                      -> "body"
<1>1. /\ payload[KeyOf(c)] # Unsent
      /\ CASE next = "skip"  -> Finish(c, 200)
           [] next = "throw" -> Finish(c, 500)
           [] OTHER          -> Goto(c, next)
      /\ UNCHANGED HandlerLeaves /\ UNCHANGED runs
  BY DEF Arrive
<1>2. e.kind \in EventKinds
  <2>1. event \in Scenarios /\ event[KeyOf(c)] # Null
    BY <1>1, CallsHaveKeys DEF IntakeIsSound, SnapshotsAreTyped
  <2> QED
    BY <2>1, CallsHaveKeys, ScenariosAreEvents DEF Event
<1>3. \/ next \in {"skip", "throw"}
      \/ next = "config" /\ Automatic(e)
      \/ next = "authorise" /\ Commented(e)
      \/ next = "body" /\ e.kind = "dispatch"
  <2> HIDE DEF e
  <2>1. /\ handleIssueOpened(e) \in {"skip", "throw", "config"}
        /\ handlePullRequestOpened(e) \in {"skip", "throw", "config"}
        /\ handlePullRequestSynchronize(e) \in {"skip", "throw", "config"}
        /\ handlePullRequestReadyForReview(e) \in {"skip", "throw", "config"}
        /\ handleIssueCommentCreated(e) \in {"skip", "throw", "authorise"}
    BY FirstAwait
  <2>2. CASE e.kind = "issues.opened"
    BY <2>1, <2>2, AskedFirst
  <2>3. CASE e.kind = "pull_request.opened"
    BY <2>1, <2>3, AskedFirst
  <2>4. CASE e.kind = "pull_request.synchronize"
    BY <2>1, <2>4, AskedFirst
  <2>5. CASE e.kind = "pull_request.ready_for_review"
    BY <2>1, <2>5, AskedFirst
  <2>6. CASE e.kind = "issue_comment.created"
    BY <2>1, <2>6, AskedFirst
  <2>7. CASE e.kind = "dispatch"
    BY <2>7
  <2> QED
    BY <1>2, <2>2, <2>3, <2>4, <2>5, <2>6, <2>7 DEF EventKinds, PullRequestEvents
<1> HIDE DEF next
<1>4. CASE next \in {"skip", "throw"}
  BY <1>1, <1>4, FinishStaysCleared
<1>5. CASE next \notin {"skip", "throw"}
  <2>1. Goto(c, next)
    BY <1>1, <1>5
  <2>2. StageIsCleared(next, Event(c))
    BY <1>3, <1>5 DEF StageIsCleared
  <2> QED
    BY <1>1, <2>1, <2>2, GotoStaysCleared
<1> QED
  BY <1>4, <1>5

(* The handlers up to admission.                                           *)
LEMMA HandlersStayCleared ==
  ASSUME IntakeIsSound, EventsAreCleared, NEW c \in Calls,
         \/ fetchTrustedRepositoryTriggerConfig(c) \/ AuthoriseCommand(c) \/ LookupFails(c)
         \/ \E outcome \in {"complete", "large", "slow", "broken"} : ReadBody(c, outcome)
         \/ handleRepositoryReviewDispatch(c)
  PROVE  EventsAreCleared'
<1>1. UNCHANGED HandlerLeaves /\ UNCHANGED runs
  BY DEF fetchTrustedRepositoryTriggerConfig, AuthoriseCommand, LookupFails, ReadBody,
         handleRepositoryReviewDispatch
<1>2. StageIsCleared(calls[c].stage, Event(c))
  BY DEF EventsAreCleared
<1>3. \/ \E answer : Finish(c, answer)
      \/ \E stage : Goto(c, stage) /\ StageIsCleared(stage, Event(c))
  <2>1. CASE fetchTrustedRepositoryTriggerConfig(c)
    <3>1. (\E answer : Finish(c, answer)) \/ Goto(c, "admit")
      BY <2>1 DEF fetchTrustedRepositoryTriggerConfig
    <3>2. StageIsCleared("admit", Event(c))
      BY <1>2, <2>1 DEF fetchTrustedRepositoryTriggerConfig, StageIsCleared, Reviewable
    <3> QED
      BY <3>1, <3>2
  <2>2. CASE AuthoriseCommand(c)
    <3>1. CASE authorizeManualCommentCommand(Event(c).sender.login, Event(c).permission)
      <4>1. StageIsCleared("admit", Event(c))
        BY <1>2, <2>2, <3>1 DEF AuthoriseCommand, StageIsCleared, Reviewable
      <4> QED
        BY <2>2, <3>1, <4>1 DEF AuthoriseCommand
    <3>2. CASE ~authorizeManualCommentCommand(Event(c).sender.login, Event(c).permission)
      BY <2>2, <3>2 DEF AuthoriseCommand
    <3> QED
      BY <3>1, <3>2
  <2>3. CASE LookupFails(c)
    BY <2>3 DEF LookupFails
  <2>4. CASE \E outcome \in {"complete", "large", "slow", "broken"} : ReadBody(c, outcome)
    <3>1. calls[c].stage = "body" /\ ((\E answer : Finish(c, answer)) \/ Goto(c, "dispatch"))
      BY <2>4, ZenonT(30) DEF ReadBody
    <3>2. StageIsCleared("dispatch", Event(c))
      BY <1>2, <3>1 DEF StageIsCleared
    <3> QED
      BY <3>1, <3>2
  <2>5. CASE handleRepositoryReviewDispatch(c)
    <3>1. calls[c].stage = "dispatch" /\ ((\E answer : Finish(c, answer)) \/ Goto(c, "admit"))
      BY <2>5 DEF handleRepositoryReviewDispatch
    <3>2. StageIsCleared("admit", Event(c))
      BY <1>2, <3>1 DEF StageIsCleared, Reviewable
    <3> QED
      BY <3>1, <3>2
  <2> QED
    BY <2>1, <2>2, <2>3, <2>4, <2>5
<1> QED
  BY <1>1, <1>3, FinishStaysCleared, GotoStaysCleared

(* The reads of an admission.                                              *)
LEMMA ReadsStayCleared ==
  ASSUME IntakeIsSound, EventsAreCleared, NEW c \in Calls,
         AdmitSelect(c) \/ InsertConflicts(c) \/ ReadWinner(c)
  PROVE  EventsAreCleared'
<1>1. UNCHANGED HandlerLeaves /\ UNCHANGED runs
      /\ calls[c].stage \in {"admit", "insert", "conflict"}
  BY DEF AdmitSelect, InsertConflicts, ReadWinner
<1>2. \A stage \in {"insert", "conflict"} : StageIsCleared(stage, Event(c))
  BY <1>1 DEF EventsAreCleared, StageIsCleared
<1>3. \/ \E stage \in {"insert", "conflict"} : Goto(c, stage)
      \/ \E run : AnswerReplay(c, run)
  BY DEF AdmitSelect, InsertConflicts, ReadWinner
<1>4. CASE \E stage \in {"insert", "conflict"} : Goto(c, stage)
  BY <1>1, <1>2, <1>4, GotoStaysCleared
<1>5. CASE \E run : AnswerReplay(c, run)
  <2> PICK run : AnswerReplay(c, run)
    BY <1>5
  <2> DEFINE new == [stage |-> "done", run |-> run, created |-> FALSE, answer |-> Accepted(c)]
  <2>1. new.stage = "done" /\ calls' = [calls EXCEPT ![c] = new]
    BY DEF AnswerReplay
  <2> HIDE DEF new
  <2> QED
    BY <1>1, <2>1, EndsAreCleared, HandlerStaysCleared
<1> QED
  BY <1>3, <1>4, <1>5

(* The writes of an admission.                                             *)
LEMMA WritesStayCleared ==
  ASSUME IntakeIsSound, EventsAreCleared, NEW c \in Calls,
         InsertRow(c) \/ (\E told \in BOOLEAN : Commit(c, told)) \/ AdmissionFails(c)
  PROVE  EventsAreCleared'
<1>1. event' = event /\ payload' = payload /\ calls[c].stage \in {"insert", "commit"}
  BY DEF InsertRow, Commit, AdmissionFails, HandlerLeaves
<1>2. Reviewable(Event(c)) /\ payload[KeyOf(c)] # Unsent
  BY <1>1, RunningIsSent DEF EventsAreCleared, StageIsCleared
<1>3. CallShape(calls[c]) /\ DOMAIN calls = Calls /\ DOMAIN runs = Calls
  BY DEF IntakeIsSound, IntakeTyped
<1>4. \A d \in Calls : d # c => calls'[d] = calls[d] /\ runs'[d] = runs[d]
  BY <1>3 DEF InsertRow, Commit, AdmissionFails, Goto, Finish
<1>5. calls'[c].stage \in {"commit", "done"}
  <2>1. CASE InsertRow(c)
    BY <1>3, <2>1 DEF InsertRow, Goto, CallShape
  <2>2. CASE \E told \in BOOLEAN : Commit(c, told)
    BY <1>3, <2>2 DEF Commit, Finish, CallShape
  <2>3. CASE AdmissionFails(c)
    BY <1>3, <2>3 DEF AdmissionFails, Finish, CallShape
  <2> QED
    BY <2>1, <2>2, <2>3
<1>6. StageIsCleared(calls'[c].stage, Event(c))
  BY <1>2, <1>5 DEF StageIsCleared
<1>7. \A d \in Calls : \/ calls'[d].stage = calls[d].stage
                       \/ StageIsCleared(calls'[d].stage, Event(d))
  BY <1>4, <1>6
<1>8. \A d \in Calls : runs'[d].status # "none" =>
        IsRow(d) \/ (Reviewable(Event(d)) /\ payload[KeyOf(d)] # Unsent)
  BY <1>2, <1>4 DEF IsRow
<1> QED
  BY <1>1, <1>7, <1>8, ClearedStays

(* An attempt leaves the handlers alone and makes no row.                  *)
LEMMA AttemptsStayCleared ==
  ASSUME IntakeIsSound, EventsAreCleared, NEW a \in AttemptIds,
         AttemptStep(a) \/ \E status \in {Null, 403} : PreparationFails(a, status)
  PROVE  EventsAreCleared'
<1>0. DOMAIN runs = Calls
  BY DEF IntakeIsSound, IntakeTyped
<1>1. /\ Started(a) /\ UNCHANGED AttemptLeaves
      /\ \A d \in Calls : d # a[1] => runs'[d] = runs[d]
  <2>1. ASSUME NEW retry, Fail(a, retry)
        PROVE  /\ UNCHANGED AttemptLeaves
               /\ \A d \in Calls : d # a[1] => runs'[d] = runs[d]
    BY <1>0, <2>1 DEF Fail, Step
  <2>2. CASE executeClaimedPreparation(a)
    BY <2>1, <2>2 DEF executeClaimedPreparation, InStage, Advance, Step
  <2>3. CASE getPullRequestContext(a)
    BY <2>3 DEF getPullRequestContext, InStage, Step
  <2>4. CASE checkpointPreparationInput(a)
    BY <1>0, <2>4 DEF checkpointPreparationInput, InStage, Step
  <2>5. CASE \E gone \in BOOLEAN : resolveEventWindow(a, gone)
    BY <2>5 DEF resolveEventWindow, InStage, Step
  <2>6. CASE ListCommits(a)
    BY <2>1, <2>6 DEF ListCommits, InStage, Step
  <2>7. CASE ResolveDispatch(a)
    <3>1. Started(a) /\ \/ \E retry : Fail(a, retry)
                        \/ \E at : Step(a, at) /\ UNCHANGED runs
      BY <2>7, ZenonT(30) DEF ResolveDispatch, InStage
    <3>2. CASE \E retry : Fail(a, retry)
      BY <2>1, <3>1, <3>2
    <3>3. CASE \E at : Step(a, at) /\ UNCHANGED runs
      BY <3>1, <3>3 DEF Step
    <3> QED
      BY <3>1, <3>2, <3>3
  <2>8. CASE materializeWorkspace(a)
    BY <2>1, <2>8 DEF materializeWorkspace, InStage, Step
  <2>9. CASE ExportWindow(a)
    BY <2>1, <2>9 DEF ExportWindow, InStage, Step
  <2>10. CASE ReadSetup(a)
    BY <2>1, <2>10, ZenonT(30) DEF ReadSetup, InStage, Advance, Step
  <2>11. CASE SubmitPrepared(a)
    BY <1>0, <2>11 DEF SubmitPrepared, InStage, Step
  <2>12. CASE \E status \in {Null, 403} : PreparationFails(a, status)
    <3> PICK status \in {Null, 403} : PreparationFails(a, status)
      BY <2>12
    <3> DEFINE retry == classifyPreparationFailure(status, FALSE)
    <3>1. Started(a) /\ Fail(a, retry)
      BY DEF PreparationFails
    <3> HIDE DEF retry
    <3> QED
      BY <2>1, <3>1
  <2> QED
    BY <2>2, <2>3, <2>4, <2>5, <2>6, <2>7, <2>8, <2>9, <2>10, <2>11, <2>12 DEF AttemptStep
<1>2. a[1] \in Calls /\ runs[a[1]].status # "none"
  BY <1>1, AttemptsAreKnown
<1>3. \A d \in Calls : runs'[d].status # "none" => IsRow(d)
  BY <1>1, <1>2 DEF IsRow
<1> QED
  BY <1>1, <1>3, ClearedStays DEF AttemptLeaves

(* Neither does the coordinator, nor a restart.                            *)
LEMMA CoordinatorStaysCleared ==
  ASSUME IntakeIsSound, EventsAreCleared,
         Crash \/ \E c \in Calls : ExpireLease(c) \/ ClaimNextPreparation(c)
  PROVE  EventsAreCleared'
<1>1. CASE \E c \in Calls : ExpireLease(c) \/ ClaimNextPreparation(c)
  <2> PICK c \in Calls : ExpireLease(c) \/ ClaimNextPreparation(c)
    BY <1>1
  <2>1. /\ event' = event /\ payload' = payload /\ calls' = calls /\ runs[c].status # "none"
        /\ \E run : runs' = [runs EXCEPT ![c] = run]
    BY ZenonT(30) DEF ExpireLease, ClaimNextPreparation, HandlerLeaves, AttemptLeaves
  <2>2. \A d \in Calls : runs'[d].status # "none" => IsRow(d)
    BY <2>1 DEF IsRow, IntakeIsSound, IntakeTyped
  <2> QED
    BY <2>1, <2>2, ClearedStays
<1>2. CASE Crash
  <2>1. event' = event /\ payload' = payload
    BY <1>2 DEF Crash
  <2>2. ASSUME NEW d \in Calls PROVE calls'[d].stage \in {calls[d].stage, "dropped"}
    <3>1. CallShape(calls[d])
      BY DEF IntakeIsSound, IntakeTyped
    <3>2. calls'[d] = IF calls[d].stage \in {"idle", "done"} THEN calls[d]
                      ELSE [calls[d] EXCEPT !.stage = "dropped"]
      BY <1>2 DEF Crash
    <3> QED
      BY <3>1, <3>2 DEF CallShape
  <2>3. \A d \in Calls : \/ calls'[d].stage = calls[d].stage
                         \/ StageIsCleared(calls'[d].stage, Event(d))
    BY <2>2, EndsAreCleared
  <2>4. NoRun.status = "none"
    BY DEF NoRun
  <2>5. \A d \in Calls : runs'[d].status # "none" => IsRow(d)
    BY <1>2, <2>4 DEF Crash, IsRow
  <2> QED
    BY <2>1, <2>3, <2>5, ClearedStays
<1> QED
  BY <1>1, <1>2

(* GitHub sends what belongs to the event.                                 *)
LEMMA GitHubStaysCleared ==
  ASSUME IntakeIsSound, EventsAreCleared,
         PushCommit \/ ForcePush \/ MergeToTrunk \/ (\E k \in Keys : Send(k))
  PROVE  EventsAreCleared'
<1>1. UNCHANGED <<event, calls, runs>>
  BY DEF PushCommit, ForcePush, Push, MergeToTrunk, Send
<1>2. DOMAIN payload = Keys
  BY DEF IntakeIsSound, SnapshotsAreTyped
<1>3. \A k \in Keys :
        /\ payload[k] # Unsent => payload'[k] = payload[k]
        /\ \/ payload'[k] \in {payload[k], Null} \/ event[k].kind \in PullRequestEvents
  BY <1>2 DEF PushCommit, ForcePush, Push, MergeToTrunk, Send, PullRequestEvents
<1>4. PayloadsAreOfTheirKind'
  BY <1>1, <1>3 DEF PayloadsAreOfTheirKind, EventsAreCleared
<1>5. \A d \in Calls : Event(d)' = Event(d)
  BY <1>1 DEF Event, KeyOf
<1>6. \A d \in Calls : IsRow(d)' => Reviewable(Event(d)) /\ payload'[KeyOf(d)] # Unsent
  BY <1>1, <1>3, CallsHaveKeys DEF IsRow, EventsAreCleared
<1>7. \A d \in Calls : StageIsCleared(calls'[d].stage, Event(d))
  BY <1>1 DEF EventsAreCleared
<1> QED
  BY <1>4, <1>5, <1>6, <1>7 DEF EventsAreCleared

(* The second invariant is inductive under the first.                      *)
LEMMA ClearedIsInductive ==
  IntakeIsSound /\ EventsAreCleared /\ [IntakeNext]_intakeVars => EventsAreCleared'
<1> SUFFICES ASSUME IntakeIsSound, EventsAreCleared, [IntakeNext]_intakeVars
             PROVE  EventsAreCleared'
  OBVIOUS
<1>1. CASE PushCommit \/ ForcePush \/ MergeToTrunk \/ (\E k \in Keys : Send(k))
  BY <1>1, GitHubStaysCleared
<1>2. CASE Crash
  BY <1>2, CoordinatorStaysCleared
<1>3. CASE \E c \in Calls : Arrive(c) \/ CallStep(c) \/ LookupFails(c) \/ AdmissionFails(c)
                            \/ ExpireLease(c) \/ ClaimNextPreparation(c)
  <2> PICK c \in Calls : Arrive(c) \/ CallStep(c) \/ LookupFails(c) \/ AdmissionFails(c)
                         \/ ExpireLease(c) \/ ClaimNextPreparation(c)
    BY <1>3
  <2>1. CASE Arrive(c)
    BY <2>1, ArriveStaysCleared
  <2>2. CASE \/ fetchTrustedRepositoryTriggerConfig(c) \/ AuthoriseCommand(c) \/ LookupFails(c)
             \/ \E outcome \in {"complete", "large", "slow", "broken"} : ReadBody(c, outcome)
             \/ handleRepositoryReviewDispatch(c)
    BY <2>2, HandlersStayCleared
  <2>3. CASE AdmitSelect(c) \/ InsertConflicts(c) \/ ReadWinner(c)
    BY <2>3, ReadsStayCleared
  <2>4. CASE InsertRow(c) \/ (\E told \in BOOLEAN : Commit(c, told)) \/ AdmissionFails(c)
    BY <2>4, WritesStayCleared
  <2>5. CASE ExpireLease(c) \/ ClaimNextPreparation(c)
    BY <2>5, CoordinatorStaysCleared
  <2> QED
    BY <2>1, <2>2, <2>3, <2>4, <2>5 DEF CallStep
<1>4. CASE \E a \in AttemptIds : AttemptStep(a)
                                 \/ \E status \in {Null, 403} : PreparationFails(a, status)
  BY <1>4, AttemptsStayCleared
<1>5. CASE UNCHANGED intakeVars
  BY <1>5, ClearedStays DEF intakeVars, IsRow
<1> QED
  BY <1>1, <1>2, <1>3, <1>4, <1>5 DEF IntakeNext

(* Nothing has arrived.                                                    *)
LEMMA ClearedStarts == IntakeInit => EventsAreCleared
<1> SUFFICES ASSUME IntakeInit PROVE EventsAreCleared
  OBVIOUS
<1>1. /\ \A k \in Keys : payload[k] = Unsent
      /\ \A c \in Calls : calls[c].stage = "idle" /\ runs[c] = NoRun
  BY DEF IntakeInit
<1>2. NoRun.status = "none"
  BY DEF NoRun
<1> QED
  BY <1>1, <1>2, EndsAreCleared DEF EventsAreCleared, PayloadsAreOfTheirKind, IsRow

(* The two invariants hold.                                                *)
LEMMA IntakeInvariants == IntakeSpec => [](IntakeIsSound /\ EventsAreCleared)
<1>1. IntakeInit => IntakeIsSound /\ EventsAreCleared
  BY IntakeStartsSound, ClearedStarts
<1>2. IntakeIsSound /\ EventsAreCleared /\ [IntakeNext]_intakeVars =>
        (IntakeIsSound /\ EventsAreCleared)'
  BY IntakeStaysSound, ClearedIsInductive
<1> QED
  BY <1>1, <1>2, PTL DEF IntakeSpec

(* The code of a fork becomes a run only by the command of someone who may *)
(* write, and the app never answers itself, whichever handler took the     *)
(* event and however its admissions interleave (the handlers under         *)
(* ingress/github/webhooks).                                               *)
THEOREM ForksNeedACommand == IntakeSpec => []ForksAreReviewedOnCommand
  BY IntakeInvariants, ClearedIsOnCommand, PTL

(* Whatever a delivery leaves out, the input its run keeps is read back by *)
(* every later attempt (preparation-input.ts, against what the extractors  *)
(* and JSON leave).                                                        *)
THEOREM InputsAlwaysSurvive == IntakeSpec => []InputSurvivesRecovery
<1>1. IntakeIsSound /\ EventsAreCleared => InputSurvivesRecovery
  BY ClearedSurvives DEF InputSurvivesRecovery
<1> QED
  BY <1>1, IntakeInvariants, PTL

-----------------------------------------------------------------------------
(***************************************************************************)
(* The two enforcers of a setup declaration.  The integration decides on   *)
(* the document, after toJS(), and on the source text; the worker decides  *)
(* on what its parser made.  Neither rule stands alone: the first accepts  *)
(* a step whose keys or numbers the second two reject.                     *)
(***************************************************************************)
(* A step that passes the three rules together is one the worker takes,    *)
(* and the other way round unless its timeout is an integer with a mark.   *)
LEMMA StepsAgree ==
  ASSUME NEW step, step.timeout.syntax = "float" => step.timeout.marked
  PROVE  /\ /\ step.env # "other-key" /\ parseStep(step)
            /\ step.timeout.syntax \in {"int", "float"} => ~step.timeout.marked
            => _parse_step(step)
         /\ _parse_step(step) =>
              /\ step.env # "other-key" /\ parseStep(step)
              /\ \/ step.timeout.syntax \in {"int", "float"} => ~step.timeout.marked
                 \/ step.timeout.syntax = "int" /\ step.timeout.marked
  BY DEF parseStep, _parse_step, parseWorkingDirectory, _parse_working_directory, parseEnv,
         _parse_env, parseTimeout, _parse_timeout

(* A file that is a declaration is judged alike, but for two differences.  *)
LEMMA FilesAgree ==
  ASSUME NEW file,
         \A i \in DOMAIN file.steps :
           file.steps[i].timeout.syntax = "float" => file.steps[i].timeout.marked
  PROVE  /\ readSetupDeclaration(file) = "valid" => parse_setup_declaration(file)
         /\ readSetupDeclaration(file) = "invalid" /\ parse_setup_declaration(file) =>
              OnlyTheWorkerTakes(file)
<1> DEFINE passes ==
             /\ ~file.tooLarge /\ file.yaml /\ ~file.duplicate /\ ~file.tagged
             /\ file.topLevel = {"setup"}
             /\ \A i \in DOMAIN file.steps :
                  /\ file.steps[i].env # "other-key" /\ parseStep(file.steps[i])
                  /\ file.steps[i].timeout.syntax \in {"int", "float"} =>
                       ~file.steps[i].timeout.marked
<1>1. parseSetupDeclaration(file) =
        IF file.blank THEN "none" ELSE IF passes THEN "valid" ELSE "invalid"
  <2>1. passes <=> /\ ~file.tooLarge
                   /\ file.yaml /\ ~file.duplicate
                   /\ rejectNonStringEnvKeys(file.steps)
                   /\ rejectExplicitTags(file)
                   /\ rejectNonIntegerTimeoutScalars(file.steps)
                   /\ file.topLevel = {"setup"}
                   /\ \A i \in DOMAIN file.steps : parseStep(file.steps[i])
    BY DEF rejectNonStringEnvKeys, rejectExplicitTags, rejectNonIntegerTimeoutScalars
  <2> HIDE DEF passes
  <2> QED
    BY <2>1 DEF parseSetupDeclaration
<1>2. passes /\ ~file.blank => parse_setup_declaration(file)
  <2> SUFFICES ASSUME passes, ~file.blank
               PROVE  parse_setup_declaration(file)
    OBVIOUS
  <2>1. \A i \in DOMAIN file.steps : _parse_step(file.steps[i])
    BY StepsAgree
  <2> QED
    BY <2>1 DEF parse_setup_declaration
<1>3. parse_setup_declaration(file) => passes \/ OnlyTheWorkerTakes(file)
  <2> SUFFICES ASSUME parse_setup_declaration(file), ~OnlyTheWorkerTakes(file)
               PROVE  passes
    OBVIOUS
  <2>1. \A i \in DOMAIN file.steps :
          /\ file.steps[i].env # "other-key" /\ parseStep(file.steps[i])
          /\ file.steps[i].timeout.syntax \in {"int", "float"} => ~file.steps[i].timeout.marked
    <3> SUFFICES ASSUME NEW i \in DOMAIN file.steps
                 PROVE  /\ file.steps[i].env # "other-key" /\ parseStep(file.steps[i])
                        /\ file.steps[i].timeout.syntax \in {"int", "float"} =>
                             ~file.steps[i].timeout.marked
      OBVIOUS
    <3>1. _parse_step(file.steps[i])
      BY DEF parse_setup_declaration
    <3>2. ~(file.steps[i].timeout.syntax = "int" /\ file.steps[i].timeout.marked)
      BY DEF OnlyTheWorkerTakes
    <3> QED
      BY <3>1, <3>2, StepsAgree
  <2>2. ~file.duplicate
    BY DEF OnlyTheWorkerTakes
  <2> QED
    BY <2>1, <2>2 DEF parse_setup_declaration
<1>4. parse_setup_declaration(file) => ~file.blank /\ ~file.tooLarge
  BY DEF parse_setup_declaration
<1>5. readSetupDeclaration(file) \in {"valid", "invalid"} =>
        \/ file.tooLarge /\ readSetupDeclaration(file) = "invalid"
        \/ readSetupDeclaration(file) = parseSetupDeclaration(file)
  BY DEF readSetupDeclaration
<1> HIDE DEF passes
<1> QED
  BY <1>1, <1>2, <1>3, <1>4, <1>5

(* Whatever a repository declares, what the integration accepts into a     *)
(* run's input the worker runs; what it refuses the worker would refuse,   *)
(* but for a repeated key and a hexadecimal timeout with the digit e       *)
(* (setup-declaration.ts and setup_declaration.py).                        *)
THEOREM EnforcersAlwaysAgree == IntakeSpec => []EnforcersAgree
<1>1. IntakeIsSound => EnforcersAgree
  <2> SUFFICES ASSUME event \in Scenarios, NEW k \in Keys, event[k] # Null
               PROVE  /\ readSetupDeclaration(event[k].setup) = "valid" =>
                            parse_setup_declaration(event[k].setup)
                      /\ /\ readSetupDeclaration(event[k].setup) = "invalid"
                         /\ parse_setup_declaration(event[k].setup)
                         => OnlyTheWorkerTakes(event[k].setup)
    BY DEF EnforcersAgree, IntakeIsSound, SnapshotsAreTyped
  <2>1. \A i \in DOMAIN event[k].setup.steps :
          event[k].setup.steps[i].timeout.syntax = "float" =>
            event[k].setup.steps[i].timeout.marked
    BY FloatsAreMarked
  <2> QED
    BY <2>1, FilesAgree
<1> QED
  BY <1>1, IntakeInvariants, PTL

=============================================================================
