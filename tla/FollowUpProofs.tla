--------------------------- MODULE FollowUpProofs ---------------------------
(***************************************************************************)
(* What goes on beside the runs, for any number of notices, workers,       *)
(* replicas, releases and faults: a notice is told once, and processes     *)
(* start and stop soundly.                                                 *)
(***************************************************************************)
EXTENDS RunNotices, ServiceStartup, TLAPS

(***************************************************************************)
(* Notices.  A worker may be overtaken between looking for the comment and *)
(* creating it; the invariant says what it still knows.  While it holds    *)
(* the notice nobody else has told it in the issue the worker looked in.   *)
(* Once it is about to write, its lease does not run out, and the notice   *)
(* can only be superseded, after which nobody claims it again.  That a     *)
(* comment is where it belongs is shown first, by itself.                  *)
(***************************************************************************)
NoticeRow ==
  [status: {"none", "pending", "delivering", "delivered", "failed", "superseded"},
   kind: {Null, "failure", "attention"}, token: Nat, issued: Nat, url: Nat \cup {Null}]

WorkerState ==
  [at: {"idle", "heartbeat", "resolve", "installed", "find_issue", "own_issue", "open",
        "find_marker", "own_comment", "post", "complete"},
   notice: Notices \cup {Null}, token: Nat, issue: Nat, url: Nat \cup {Null}]

NoticesTyped ==
  /\ notices \in [Notices -> NoticeRow]
  /\ workers \in [Workers -> WorkerState]
  /\ comments \in SUBSET [notice: Notices, issue: Nat, token: Nat]
  /\ expired \in SUBSET Notices
  /\ targets \in Inputs
  /\ summaries \in [Repos -> Nat]

(* Where a notice may be told: a conversation, or a summary issue that the *)
(* scanned repository has.                                                 *)
IsPlace(n, k) == IF targets[n].kind = "scan" THEN k \in 1..summaries[targets[n].repo]
                                             ELSE k = 0

(* A worker knows its place from the moment it has found it.               *)
WorkerIsPlaced(w) ==
  /\ ~At(w, "idle") => workers[w].notice \in Notices
  /\ workers[w].at \in {"heartbeat", "resolve", "installed"} => workers[w].issue = 0
  /\ workers[w].at \in {"find_issue", "own_issue", "open"} => Target(w).kind = "scan"
  /\ workers[w].at \in {"find_marker", "own_comment", "post", "complete"}
       => IsPlace(workers[w].notice, workers[w].issue)

CommentsAreInPlace ==
  /\ NoticesTyped
  /\ \A c \in comments : IsPlace(c.notice, c.issue)
  /\ \A w \in Workers : WorkerIsPlaced(w)

(* A scan has a repository with a count of summary issues.                 *)
LEMMA ScansHaveARepository ==
  ASSUME NoticesTyped, NEW n \in Notices, targets[n].kind = "scan"
  PROVE  targets[n].repo \in Repos /\ summaries[targets[n].repo] \in Nat
BY ScansNameARepository DEF NoticesTyped, Repos

(* Issues are only opened, so that what was a place remains one.           *)
LEMMA PlacesStay ==
  ASSUME NoticesTyped, NEW n \in Notices, NEW k, IsPlace(n, k), UNCHANGED targets,
         summaries' \in [Repos -> Nat], \A r \in Repos : summaries[r] <= summaries'[r]
  PROVE  IsPlace(n, k)'
<1>1. CASE targets[n].kind = "scan"
  <2>1. targets[n].repo \in Repos
    BY <1>1, ScansHaveARepository
  <2>2. /\ summaries[targets[n].repo] \in Nat /\ summaries'[targets[n].repo] \in Nat
        /\ summaries[targets[n].repo] <= summaries'[targets[n].repo]
    BY <2>1 DEF NoticesTyped
  <2> QED BY <1>1, <2>2 DEF IsPlace
<1>2. CASE targets[n].kind # "scan"
  BY <1>2 DEF IsPlace
<1> QED BY <1>1, <1>2

(* One worker goes on, and what it writes is where it belongs.             *)
LEMMA PlacedWorkerGoesOn ==
  ASSUME CommentsAreInPlace, NEW w \in Workers, NEW new \in WorkerState,
         workers' = [workers EXCEPT ![w] = new],
         notices' \in [Notices -> NoticeRow], expired' \in SUBSET Notices, UNCHANGED targets,
         summaries' \in [Repos -> Nat], \A r \in Repos : summaries[r] <= summaries'[r],
         \/ UNCHANGED comments
         \/ At(w, "post") /\ comments' = comments \cup {Comment(w)},
         \/ new = Idle
         \/ /\ new.at # "idle" /\ new.notice \in Notices
            /\ new.at \in {"heartbeat", "resolve", "installed"} => new.issue = 0
            /\ new.at \in {"find_issue", "own_issue", "open"} => targets[new.notice].kind = "scan"
            /\ new.at \in {"find_marker", "own_comment", "post", "complete"}
                 => IF targets[new.notice].kind = "scan"
                    THEN new.issue \in 1..summaries'[targets[new.notice].repo]
                    ELSE new.issue = 0
  PROVE  CommentsAreInPlace'
<1> USE DEF At
<1>1. ASSUME At(w, "post")
      PROVE  /\ Comment(w) \in [notice: Notices, issue: Nat, token: Nat]
             /\ IsPlace(Comment(w).notice, Comment(w).issue)
  <2>1. workers[w] \in WorkerState /\ workers[w].notice \in Notices
    BY <1>1 DEF CommentsAreInPlace, NoticesTyped, WorkerIsPlaced
  <2>2. IsPlace(workers[w].notice, workers[w].issue)
    BY <1>1 DEF CommentsAreInPlace, WorkerIsPlaced
  <2> QED BY <2>1, <2>2 DEF Comment, WorkerState
<1>2. NoticesTyped'
  <2>1. comments' \in SUBSET [notice: Notices, issue: Nat, token: Nat]
    BY <1>1 DEF CommentsAreInPlace, NoticesTyped
  <2>2. workers' \in [Workers -> WorkerState]
    BY DEF CommentsAreInPlace, NoticesTyped
  <2> QED BY <2>1, <2>2 DEF CommentsAreInPlace, NoticesTyped
<1>3. ASSUME NEW c \in comments' PROVE IsPlace(c.notice, c.issue)'
  <2>1. c.notice \in Notices /\ IsPlace(c.notice, c.issue)
    BY <1>1 DEF CommentsAreInPlace, NoticesTyped
  <2> QED BY <2>1, PlacesStay DEF CommentsAreInPlace
<1>4. ASSUME NEW v \in Workers PROVE WorkerIsPlaced(v)'
  <2>1. CASE v = w
    <3>1. workers'[v] = new
      BY <2>1 DEF CommentsAreInPlace, NoticesTyped
    <3>2. CASE new = Idle
      BY <3>1, <3>2 DEF WorkerIsPlaced, Idle
    <3>3. CASE new # Idle
      BY <3>1, <3>3 DEF WorkerIsPlaced, Target, IsPlace
    <3> QED BY <3>2, <3>3
  <2>2. CASE v # w
    <3>1. workers'[v] = workers[v] /\ WorkerIsPlaced(v)
      BY <2>2 DEF CommentsAreInPlace, NoticesTyped
    <3>2. ASSUME workers[v].at \in {"find_marker", "own_comment", "post", "complete"}
          PROVE  IsPlace(workers[v].notice, workers[v].issue)'
      <4>1. workers[v].notice \in Notices /\ IsPlace(workers[v].notice, workers[v].issue)
        BY <3>1, <3>2 DEF WorkerIsPlaced
      <4>2. IsPlace(workers[v].notice, workers[v].issue) /\ UNCHANGED workers[v]
        BY <3>1, <4>1
      <4> DEFINE n == workers[v].notice  k == workers[v].issue
      <4>3. n \in Notices /\ IsPlace(n, k) /\ n' = n /\ k' = k
        BY <4>1, <4>2
      <4>4. ASSUME targets[n].kind = "scan"
            PROVE  /\ k \in 1..summaries[targets[n].repo] /\ targets[n].repo \in Repos
                   /\ summaries[targets[n].repo] \in Nat
        BY <4>3, <4>4, ScansHaveARepository DEF IsPlace, CommentsAreInPlace
      <4> HIDE DEF n, k
      <4>5. targets'[n'].kind = "scan" => k' \in 1..summaries'[targets'[n'].repo]
        BY <4>3, <4>4 DEF CommentsAreInPlace, NoticesTyped
      <4>6. targets'[n'].kind # "scan" => k' = 0
        BY <4>3 DEF IsPlace
      <4> QED BY <4>5, <4>6 DEF IsPlace, n, k
    <3> QED BY <3>1, <3>2 DEF WorkerIsPlaced, Target
  <2> QED BY <2>1, <2>2
<1> QED BY <1>2, <1>3, <1>4 DEF CommentsAreInPlace

(* A completion writes a row of its type.                                  *)
LEMMA CompletionIsTyped ==
  ASSUME CommentsAreInPlace, NEW w \in Workers, NEW delivered \in BOOLEAN, ~At(w, "idle"),
         complete(w, delivered)
  PROVE  notices' \in [Notices -> NoticeRow]
<1>1. workers[w] \in WorkerState /\ workers[w].notice \in Notices
  BY DEF CommentsAreInPlace, NoticesTyped, WorkerIsPlaced
<1>2. CASE Holds(w)
  <2> DEFINE n == workers[w].notice
             row == [notices[n] EXCEPT !.status = IF delivered THEN "delivered" ELSE "failed",
                                       !.token = 0, !.url = workers[w].url]
  <2>1. notices[n] \in NoticeRow
    BY <1>1 DEF CommentsAreInPlace, NoticesTyped
  <2>2. row \in NoticeRow
    BY <1>1, <2>1 DEF NoticeRow, WorkerState
  <2>3. notices' = [notices EXCEPT ![n] = row]
    BY <1>1, <1>2, <2>1 DEF complete, NoticeRow, CommentsAreInPlace, NoticesTyped
  <2> QED BY <2>2, <2>3 DEF CommentsAreInPlace, NoticesTyped
<1>3. CASE ~Holds(w)
  BY <1>3 DEF complete, CommentsAreInPlace, NoticesTyped
<1> QED BY <1>2, <1>3

(* A worker that leaves.                                                   *)
LEMMA PlacedWorkerLeaves ==
  ASSUME CommentsAreInPlace, NEW w \in Workers, Leave(w),
         notices' \in [Notices -> NoticeRow], UNCHANGED <<targets, expired>>,
         summaries' \in [Repos -> Nat], \A r \in Repos : summaries[r] <= summaries'[r],
         \/ UNCHANGED comments
         \/ At(w, "post") /\ comments' = comments \cup {Comment(w)}
  PROVE  CommentsAreInPlace'
<1>1. Idle \in WorkerState
  BY DEF Idle, WorkerState
<1>2. expired' \in SUBSET Notices
  BY DEF CommentsAreInPlace, NoticesTyped
<1> QED BY <1>1, <1>2, PlacedWorkerGoesOn DEF Leave

(* A worker that asks whether it still owns the notice keeps its place.    *)
LEMMA PlacedWorkerRenews ==
  ASSUME CommentsAreInPlace, NEW w \in Workers, NEW at \in {"resolve", "open", "post"},
         renewClaim(w, at), UNCHANGED <<targets, comments, summaries>>,
         \/ at = "resolve" /\ At(w, "heartbeat")
         \/ at = "open" /\ At(w, "own_issue")
         \/ at = "post" /\ At(w, "own_comment")
  PROVE  CommentsAreInPlace'
<1> DEFINE new == [workers[w] EXCEPT !.at = at]
<1>0. /\ workers[w] \in WorkerState /\ notices \in [Notices -> NoticeRow]
      /\ expired \in SUBSET Notices /\ workers[w].notice \in Notices
      /\ WorkerIsPlaced(w) /\ summaries' \in [Repos -> Nat]
      /\ \A r \in Repos : summaries[r] <= summaries'[r]
  BY DEF CommentsAreInPlace, NoticesTyped, WorkerIsPlaced, At
<1>1. CASE Holds(w)
  <2>1. workers' = [workers EXCEPT ![w] = new] /\ expired' \in SUBSET Notices /\ UNCHANGED notices
    BY <1>0, <1>1 DEF renewClaim, Go
  <2>2. /\ new \in WorkerState /\ new.at = at /\ new.notice = workers[w].notice
        /\ new.issue = workers[w].issue
    BY <1>0 DEF WorkerState
  <2> HIDE DEF new
  <2>3. at = "post" => IF targets[new.notice].kind = "scan"
                       THEN new.issue \in 1..summaries'[targets[new.notice].repo]
                       ELSE new.issue = 0
    BY <1>0, <2>2 DEF WorkerIsPlaced, At, IsPlace
  <2>4. /\ new.at # "idle" /\ new.notice \in Notices
        /\ new.at \in {"heartbeat", "resolve", "installed"} => new.issue = 0
        /\ new.at \in {"find_issue", "own_issue", "open"} => targets[new.notice].kind = "scan"
    BY <1>0, <2>2 DEF WorkerIsPlaced, At, Target
  <2>5. new.at \in {"find_marker", "own_comment", "post", "complete"} => at = "post"
    BY <2>2
  <2> QED BY <1>0, <2>1, <2>2, <2>3, <2>4, <2>5, PlacedWorkerGoesOn
<1>2. CASE ~Holds(w)
  BY <1>0, <1>2, PlacedWorkerLeaves DEF renewClaim, Abandon
<1> QED BY <1>1, <1>2

(* A worker that only goes to its next place in the code.                  *)
LEMMA PlacedWorkerMoves ==
  ASSUME CommentsAreInPlace, NEW w \in Workers, NEW new \in WorkerState, ~At(w, "idle"),
         workers' = [workers EXCEPT ![w] = new], new.notice = workers[w].notice,
         UNCHANGED <<targets, notices, expired>>,
         summaries' \in [Repos -> Nat], \A r \in Repos : summaries[r] <= summaries'[r],
         \/ UNCHANGED comments
         \/ At(w, "post") /\ comments' = comments \cup {Comment(w)},
         \/ new.at = "installed" /\ new.issue = 0
         \/ new.at \in {"find_issue", "own_issue"} /\ Target(w).kind = "scan"
         \/ /\ new.at \in {"find_marker", "own_comment", "complete"}
            /\ IF Target(w).kind = "scan" THEN new.issue \in 1..summaries'[Target(w).repo]
                                          ELSE new.issue = 0
  PROVE  CommentsAreInPlace'
<1>1. /\ notices' \in [Notices -> NoticeRow] /\ expired' \in SUBSET Notices
      /\ workers[w].notice \in Notices
  BY DEF CommentsAreInPlace, NoticesTyped, WorkerIsPlaced
<1> QED BY <1>1, PlacedWorkerGoesOn DEF Target

(* A delivery keeps to its place.                                          *)
LEMMA DeliveryIsPlaced ==
  ASSUME CommentsAreInPlace, NEW w \in Workers, DeliveryStep(w)
  PROVE  CommentsAreInPlace'
<1>0. /\ workers[w] \in WorkerState /\ notices \in [Notices -> NoticeRow]
      /\ workers \in [Workers -> WorkerState] /\ expired \in SUBSET Notices
      /\ WorkerIsPlaced(w) /\ summaries \in [Repos -> Nat] /\ NoticesTyped
      /\ \A r \in Repos : summaries[r] \in Nat /\ summaries[r] <= summaries[r]
  BY DEF CommentsAreInPlace, NoticesTyped
<1>00. workers[w].at # "idle" => workers[w].notice \in Notices
  BY <1>0 DEF WorkerIsPlaced, At
<1> DEFINE to(at) == [workers[w] EXCEPT !.at = at]
<1>1. CASE startRunNoticeClaimHeartbeat(w)
  BY <1>1, PlacedWorkerRenews DEF startRunNoticeClaimHeartbeat
<1>2. CASE resolveTarget(w)
  <2>0. At(w, "resolve") /\ ~At(w, "idle") /\ UNCHANGED <<targets, comments, summaries>>
    BY <1>2 DEF resolveTarget, At
  <2>1. CASE Target(w).kind = "none"
    <3>1. complete(w, FALSE)
      BY <1>2, <2>1 DEF resolveTarget
    <3>2. notices' \in [Notices -> NoticeRow] /\ Leave(w) /\ UNCHANGED expired
      BY <2>0, <3>1, CompletionIsTyped DEF complete
    <3> QED BY <1>0, <2>0, <3>2, PlacedWorkerLeaves
  <2>2. CASE Target(w).kind # "none"
    <3>1. workers' = [workers EXCEPT ![w] = to("installed")] /\ UNCHANGED <<notices, expired>>
      BY <1>2, <2>2 DEF resolveTarget, Go
    <3>2. /\ to("installed") \in WorkerState /\ to("installed").notice = workers[w].notice
          /\ to("installed").at = "installed" /\ to("installed").issue = 0
      BY <1>0, <2>0 DEF WorkerState, WorkerIsPlaced, At
    <3> HIDE DEF to
    <3> QED BY <1>0, <2>0, <3>1, <3>2, PlacedWorkerMoves
  <2> QED BY <2>1, <2>2
<1>3. CASE assertRepositoryIsInstalled(w)
  <2>0. /\ At(w, "installed") /\ ~At(w, "idle")
        /\ UNCHANGED <<targets, notices, expired, comments, summaries>>
    BY <1>3 DEF assertRepositoryIsInstalled, At
  <2>1. CASE Target(w).kind = "scan"
    <3>1. workers' = [workers EXCEPT ![w] = to("find_issue")]
      BY <1>3, <2>1 DEF assertRepositoryIsInstalled, Go
    <3>2. /\ to("find_issue") \in WorkerState /\ to("find_issue").notice = workers[w].notice
          /\ to("find_issue").at = "find_issue"
      BY <1>0 DEF WorkerState
    <3> HIDE DEF to
    <3> QED BY <1>0, <2>0, <2>1, <3>1, <3>2, PlacedWorkerMoves
  <2>2. CASE Target(w).kind # "scan"
    <3>1. workers' = [workers EXCEPT ![w] = to("find_marker")]
      BY <1>3, <2>2 DEF assertRepositoryIsInstalled, Go
    <3>2. /\ to("find_marker") \in WorkerState /\ to("find_marker").notice = workers[w].notice
          /\ to("find_marker").at = "find_marker" /\ to("find_marker").issue = 0
      BY <1>0, <2>0 DEF WorkerState, WorkerIsPlaced, At
    <3> HIDE DEF to
    <3> QED BY <1>0, <2>0, <2>2, <3>1, <3>2, PlacedWorkerMoves
  <2> QED BY <2>1, <2>2
<1>4. CASE findRepositorySecuritySummaryIssue(w)
  <2> DEFINE last == summaries[Target(w).repo]
  <2>0. /\ At(w, "find_issue") /\ ~At(w, "idle") /\ Target(w).kind = "scan"
        /\ UNCHANGED <<targets, notices, expired, comments, summaries>>
    BY <1>0, <1>4 DEF findRepositorySecuritySummaryIssue, At, WorkerIsPlaced
  <2>1. last \in Nat /\ Target(w).repo \in Repos
    BY <1>0, <1>00, <2>0, ScansHaveARepository DEF Target, At
  <2>2. CASE last > 0
    <3> DEFINE new == [workers[w] EXCEPT !.at = "find_marker", !.issue = last]
    <3>1. workers' = [workers EXCEPT ![w] = new]
      BY <1>0, <1>4, <2>2 DEF findRepositorySecuritySummaryIssue, WorkerState
    <3>2. /\ new \in WorkerState /\ new.notice = workers[w].notice
          /\ new.at = "find_marker" /\ new.issue = last
      BY <1>0, <2>1 DEF WorkerState
    <3> HIDE DEF new
    <3>3. new.issue \in 1..summaries'[Target(w).repo]
      BY <2>0, <2>1, <2>2, <3>2
    <3> QED BY <1>0, <2>0, <3>1, <3>2, <3>3, PlacedWorkerMoves
  <2>3. CASE ~(last > 0)
    <3>1. workers' = [workers EXCEPT ![w] = to("own_issue")]
      BY <1>4, <2>3 DEF findRepositorySecuritySummaryIssue, Go
    <3>2. /\ to("own_issue") \in WorkerState /\ to("own_issue").notice = workers[w].notice
          /\ to("own_issue").at = "own_issue"
      BY <1>0 DEF WorkerState
    <3> HIDE DEF to
    <3> QED BY <1>0, <2>0, <3>1, <3>2, PlacedWorkerMoves
  <2> QED BY <2>2, <2>3
<1>5. CASE assertBeforeIssue(w)
  BY <1>5, PlacedWorkerRenews DEF assertBeforeIssue
<1>6. CASE ensureSummaryIssueNumber(w)
  <2> DEFINE r == Target(w).repo
             next == summaries[r] + 1
             new == [workers[w] EXCEPT !.at = "find_marker", !.issue = next]
  <2>0. /\ At(w, "open") /\ ~At(w, "idle") /\ Target(w).kind = "scan"
        /\ UNCHANGED <<targets, notices, expired, comments>>
        /\ summaries' = [summaries EXCEPT ![r] = @ + 1]
    BY <1>0, <1>6 DEF ensureSummaryIssueNumber, At, WorkerIsPlaced
  <2>1. summaries[r] \in Nat /\ r \in Repos
    BY <1>0, <1>00, <2>0, ScansHaveARepository DEF Target, At
  <2>2. workers' = [workers EXCEPT ![w] = new]
    BY <1>0, <1>6 DEF ensureSummaryIssueNumber, WorkerState
  <2>a. next \in Nat /\ next = summaries[r] + 1
    BY <2>1
  <2> HIDE DEF next
  <2>3. /\ new \in WorkerState /\ new.notice = workers[w].notice
        /\ new.at = "find_marker" /\ new.issue = summaries[r] + 1
    BY <1>0, <2>a DEF WorkerState
  <2> HIDE DEF new, r
  <2>4. /\ summaries' \in [Repos -> Nat] /\ \A s \in Repos : summaries[s] <= summaries'[s]
        /\ new.issue \in 1..summaries'[r]
    BY <1>0, <2>0, <2>1, <2>3
  <2> QED BY <2>0, <2>2, <2>3, <2>4, PlacedWorkerMoves DEF r
<1>7. CASE findIssueCommentByMarker(w)
  <2>0. /\ At(w, "find_marker") /\ ~At(w, "idle")
        /\ UNCHANGED <<targets, notices, expired, comments, summaries>>
        /\ IF Target(w).kind = "scan" THEN workers[w].issue \in 1..summaries'[Target(w).repo]
                                      ELSE workers[w].issue = 0
    BY <1>0, <1>7 DEF findIssueCommentByMarker, At, WorkerIsPlaced, IsPlace, Target
  <2>1. PICK new : /\ workers' = [workers EXCEPT ![w] = new]
                   /\ \/ new = [workers[w] EXCEPT !.at = "complete", !.url = workers[w].issue]
                      \/ new = to("own_comment")
    BY <1>0, <1>7 DEF findIssueCommentByMarker, WorkerState
  <2>2. /\ new \in WorkerState /\ new.notice = workers[w].notice
        /\ new.at \in {"own_comment", "complete"} /\ new.issue = workers[w].issue
    BY <1>0, <2>1 DEF WorkerState
  <2> QED BY <1>0, <2>0, <2>1, <2>2, PlacedWorkerMoves
<1>8. CASE assertBeforeComment(w)
  BY <1>8, PlacedWorkerRenews DEF assertBeforeComment
<1>9. CASE createIssueComment(w)
  <2> DEFINE new == [workers[w] EXCEPT !.at = "complete", !.url = workers[w].issue]
  <2>0. /\ At(w, "post") /\ ~At(w, "idle") /\ comments' = comments \cup {Comment(w)}
        /\ UNCHANGED <<targets, notices, expired, summaries>>
        /\ IF Target(w).kind = "scan" THEN workers[w].issue \in 1..summaries'[Target(w).repo]
                                      ELSE workers[w].issue = 0
    BY <1>0, <1>9 DEF createIssueComment, At, WorkerIsPlaced, IsPlace, Target
  <2>1. workers' = [workers EXCEPT ![w] = new]
    BY <1>0, <1>9 DEF createIssueComment, WorkerState
  <2>2. /\ new \in WorkerState /\ new.notice = workers[w].notice
        /\ new.at = "complete" /\ new.issue = workers[w].issue
    BY <1>0 DEF WorkerState
  <2> HIDE DEF new
  <2> QED BY <1>0, <2>0, <2>1, <2>2, PlacedWorkerMoves
<1>10. CASE completeRunNotice(w)
  <2>1. /\ complete(w, TRUE) /\ ~At(w, "idle") /\ UNCHANGED <<targets, comments, summaries>>
    BY <1>10 DEF completeRunNotice, At
  <2>2. notices' \in [Notices -> NoticeRow] /\ Leave(w) /\ UNCHANGED expired
    BY <2>1, CompletionIsTyped DEF complete
  <2> QED BY <1>0, <2>1, <2>2, PlacedWorkerLeaves
<1> QED BY <1>1, <1>2, <1>3, <1>4, <1>5, <1>6, <1>7, <1>8, <1>9, <1>10 DEF DeliveryStep

(* The queue moves no comment and no worker.                               *)
LEMMA QueueKeepsPlaces ==
  ASSUME CommentsAreInPlace, UNCHANGED <<targets, workers, comments, summaries>>,
         notices' \in [Notices -> NoticeRow], expired' \in SUBSET Notices
  PROVE  CommentsAreInPlace'
BY DEF CommentsAreInPlace, NoticesTyped, WorkerIsPlaced, IsPlace, Target, At

(* Every comment is where its notice belongs.                              *)
LEMMA EveryStepIsPlaced == CommentsAreInPlace /\ [NoticesNext]_noticeVars => CommentsAreInPlace'
<1> SUFFICES ASSUME CommentsAreInPlace, [NoticesNext]_noticeVars PROVE CommentsAreInPlace'
  OBVIOUS
<1>0. /\ notices \in [Notices -> NoticeRow] /\ summaries \in [Repos -> Nat]
      /\ workers \in [Workers -> WorkerState] /\ expired \in SUBSET Notices /\ NoticesTyped
      /\ \A r \in Repos : summaries[r] \in Nat /\ summaries[r] <= summaries[r]
  BY DEF CommentsAreInPlace, NoticesTyped
<1>1. ASSUME NEW n \in Notices, supersedeRunAttentionNotices(n) PROVE CommentsAreInPlace'
  <2> DEFINE row == [notices[n] EXCEPT !.status = "superseded", !.token = 0]
  <2>a. notices' = [notices EXCEPT ![n] = row]
    BY <1>0, <1>1 DEF supersedeRunAttentionNotices
  <2>b. row \in NoticeRow
    BY <1>0 DEF NoticeRow
  <2>1. notices' \in [Notices -> NoticeRow]
    BY <1>0, <2>a, <2>b
  <2> QED BY <1>0, <1>1, <2>1, QueueKeepsPlaces DEF supersedeRunAttentionNotices
<1>2. ASSUME NEW n \in Notices, NEW kind \in {"failure", "attention"}, queueRunNotice(n, kind)
      PROVE  CommentsAreInPlace'
  <2> DEFINE row == [notices[n] EXCEPT !.status = "pending", !.kind = kind]
  <2>a. notices' = [notices EXCEPT ![n] = row]
    BY <1>0, <1>2 DEF queueRunNotice
  <2>b. row \in NoticeRow
    BY <1>0 DEF NoticeRow
  <2>1. notices' \in [Notices -> NoticeRow]
    BY <1>0, <2>a, <2>b
  <2> QED BY <1>0, <1>2, <2>1, QueueKeepsPlaces DEF queueRunNotice
<1>3. ASSUME NEW n \in Notices, LeaseRunsOut(n) PROVE CommentsAreInPlace'
  BY <1>0, <1>3, QueueKeepsPlaces DEF LeaseRunsOut
<1>4. ASSUME NEW w \in Workers, RepositoryIsRefused(w) PROVE CommentsAreInPlace'
  <2>1. complete(w, FALSE) /\ ~At(w, "idle") /\ UNCHANGED <<targets, comments, summaries>>
    BY <1>4 DEF RepositoryIsRefused, At
  <2>2. notices' \in [Notices -> NoticeRow] /\ Leave(w) /\ UNCHANGED expired
    BY <2>1, CompletionIsTyped DEF complete
  <2> QED BY <1>0, <2>1, <2>2, PlacedWorkerLeaves
<1>5. ASSUME NEW w \in Workers, NEW n \in Notices, claimNext(w, n) PROVE CommentsAreInPlace'
  <2> DEFINE new == [at |-> "heartbeat", notice |-> n, token |-> notices[n].issued + 1,
                     issue |-> 0, url |-> Null]
  <2>1. notices[n].issued \in Nat
    BY <1>0 DEF NoticeRow
  <2> DEFINE next == notices[n].issued + 1
             row == [notices[n] EXCEPT !.status = "delivering", !.token = next, !.issued = next]
  <2>a. notices' = [notices EXCEPT ![n] = row]
    BY <1>0, <1>5 DEF claimNext, NoticeRow
  <2>b. next \in Nat /\ notices[n] \in NoticeRow
    BY <1>0, <2>1
  <2> HIDE DEF next
  <2>c. row \in NoticeRow
    BY <2>b DEF NoticeRow
  <2>2. notices' \in [Notices -> NoticeRow]
    BY <1>0, <2>a, <2>c
  <2>3. /\ new \in WorkerState /\ new.at = "heartbeat" /\ new.notice = n /\ new.issue = 0
        /\ workers' = [workers EXCEPT ![w] = new] /\ expired' \in SUBSET Notices
        /\ UNCHANGED <<targets, comments, summaries>>
    BY <1>0, <1>5, <2>1 DEF claimNext, WorkerState
  <2> HIDE DEF new
  <2> QED BY <1>0, <2>2, <2>3, PlacedWorkerGoesOn
<1>6. ASSUME NEW w \in Workers, NEW landed \in BOOLEAN, CallFails(w, landed)
      PROVE  CommentsAreInPlace'
  <2>1. /\ Leave(w) /\ UNCHANGED <<targets, notices, expired>>
        /\ \/ UNCHANGED comments
           \/ At(w, "post") /\ comments' = comments \cup {Comment(w)}
    BY <1>6 DEF CallFails, Abandon
  <2>2. CASE landed /\ At(w, "open")
    <3>1. /\ Target(w).repo \in Repos
          /\ summaries' = [summaries EXCEPT ![Target(w).repo] = @ + 1]
      <4>1. workers[w].notice \in Notices /\ Target(w).kind = "scan"
        BY <2>2 DEF CommentsAreInPlace, WorkerIsPlaced, At
      <4> QED BY <1>0, <1>6, <2>2, <4>1, ScansHaveARepository DEF CallFails, Target
    <3>2. summaries' \in [Repos -> Nat] /\ \A r \in Repos : summaries[r] <= summaries'[r]
      BY <1>0, <3>1
    <3> QED BY <1>0, <2>1, <3>2, PlacedWorkerLeaves
  <2>3. CASE ~(landed /\ At(w, "open"))
    <3>1. UNCHANGED summaries
      BY <1>6, <2>3 DEF CallFails
    <3> QED BY <1>0, <2>1, <3>1, PlacedWorkerLeaves
  <2> QED BY <2>2, <2>3
<1>7. CASE UNCHANGED noticeVars
  BY <1>0, <1>7, QueueKeepsPlaces DEF noticeVars
<1> QED BY <1>1, <1>2, <1>3, <1>4, <1>5, <1>6, <1>7, DeliveryIsPlaced DEF NoticesNext

(* A claim has a token that no other claim of the notice had.              *)
NoticeClaimsAreOwn ==
  /\ \A w \in Workers : ~At(w, "idle") =>
       /\ workers[w].notice \in Notices
       /\ 0 < workers[w].token /\ workers[w].token <= notices[workers[w].notice].issued
  /\ \A v, w \in Workers :
       /\ v # w /\ ~At(v, "idle") /\ ~At(w, "idle")
       /\ workers[v].notice = workers[w].notice
       => workers[v].token # workers[w].token

(* The notice has been told in the issue.                                  *)
IsTold(n, k) == \E c \in comments : c.notice = n /\ c.issue = k

(* What a worker knows of the comments, and of the notice it writes.       *)
WorkerIsInformed(w) ==
  LET n == workers[w].notice
  IN /\ At(w, "own_comment") /\ Holds(w) => ~IsTold(n, workers[w].issue)
     /\ At(w, "post") => /\ ~IsTold(n, workers[w].issue)
                         /\ \/ Holds(w) /\ n \notin expired
                            \/ notices[n].status = "superseded"
     /\ At(w, "complete") => IsTold(n, workers[w].issue) /\ workers[w].url = workers[w].issue

OneWriter ==
  \A v, w \in Workers :
    At(v, "post") /\ At(w, "post") /\ workers[v].notice = workers[w].notice => v = w

(* What is said of one notice.                                             *)
NoticeIsSound(n) ==
  /\ \A c, d \in comments : c.notice = n /\ d.notice = n /\ c.issue = d.issue => c = d
  /\ notices[n].status = "delivered" => IsTold(n, notices[n].url)
  /\ notices[n].status = "delivering" <=> notices[n].token > 0

(* The inductive invariant, beside that every comment is in its place.     *)
TellingIsSound ==
  /\ NoticesTyped
  /\ NoticeClaimsAreOwn
  /\ \A w \in Workers : WorkerIsInformed(w)
  /\ OneWriter
  /\ \A n \in Notices : NoticeIsSound(n)

(* One worker at most holds a notice.                                      *)
LEMMA OneHolder ==
  ASSUME TellingIsSound, NEW v \in Workers, NEW w \in Workers, v # w, ~At(v, "idle"),
         ~At(w, "idle"), workers[v].notice = workers[w].notice
  PROVE  ~(Holds(v) /\ Holds(w))
  BY DEF TellingIsSound, NoticeClaimsAreOwn, Holds

(* A worker moves on with its notice, or leaves it.                        *)
LEMMA WorkerMovesOn ==
  ASSUME TellingIsSound, NEW w \in Workers, NEW new \in WorkerState,
         workers' = [workers EXCEPT ![w] = new],
         UNCHANGED <<notices, comments>>, expired' \in SUBSET expired, NoticesTyped',
         \/ new.at = "idle"
         \/ /\ ~At(w, "idle")
            /\ new.notice = workers[w].notice /\ new.token = workers[w].token
            /\ new.at = "own_comment" /\ Holds(w) => ~IsTold(workers[w].notice, new.issue)
            /\ new.at = "post" => /\ ~IsTold(workers[w].notice, new.issue) /\ Holds(w)
                                  /\ workers[w].notice \notin expired'
            /\ new.at = "complete"
                 => IsTold(workers[w].notice, new.issue) /\ new.url = new.issue
  PROVE  TellingIsSound'
<1> USE DEF At
<1>2. /\ workers'[w] = new
      /\ \A v \in Workers \ {w} : workers'[v] = workers[v]
  BY DEF TellingIsSound, NoticesTyped
<1>3. NoticeClaimsAreOwn'
  BY <1>2 DEF TellingIsSound, NoticeClaimsAreOwn
<1>4. ASSUME NEW v \in Workers PROVE WorkerIsInformed(v)'
  <2>1. CASE v = w
    BY <1>2, <2>1 DEF WorkerIsInformed, Holds, IsTold
  <2>2. CASE v # w
    BY <1>2, <2>2 DEF TellingIsSound, WorkerIsInformed, Holds, IsTold
  <2> QED BY <2>1, <2>2
<1>5. ASSUME NEW v \in Workers \ {w}, new.at = "post", At(v, "post"),
             workers[v].notice = new.notice
      PROVE  FALSE
  <2>1. Holds(w) /\ ~At(w, "idle") /\ workers[v].notice = workers[w].notice
    BY <1>5
  <2>2. ~Holds(v)
    BY <1>5, <2>1, OneHolder
  <2> QED BY <1>5, <2>1, <2>2 DEF TellingIsSound, WorkerIsInformed, Holds
<1>6. OneWriter'
  BY <1>2, <1>5 DEF TellingIsSound, OneWriter
<1>7. \A n \in Notices : NoticeIsSound(n)'
  BY DEF TellingIsSound, NoticeIsSound, IsTold
<1> QED BY <1>3, <1>4, <1>6, <1>7 DEF TellingIsSound

(* The row of one notice changes, and the worker w leaves it, if any does. *)
LEMMA NoticeChanges ==
  ASSUME TellingIsSound, NEW n \in Notices, NEW row \in NoticeRow,
         notices' = [notices EXCEPT ![n] = row], UNCHANGED <<comments, expired>>,
         NoticesTyped', row.issued = notices[n].issued,
         row.status = "delivering" <=> row.token > 0,
         row.token \in {0, notices[n].token},
         row.status = "delivered" => IsTold(n, row.url),
         \/ UNCHANGED workers
         \/ \E w \in Workers : /\ workers[w].notice = n /\ Holds(w) /\ ~At(w, "idle")
                               /\ workers' = [workers EXCEPT ![w] = Idle],
         \/ row.status = "superseded"
         \/ notices[n].status # "superseded"
            /\ \A v \in Workers : ~(At(v, "post")' /\ workers'[v].notice = n)
  PROVE  TellingIsSound'
<1> USE DEF At
<1>1. /\ notices'[n] = row
      /\ \A m \in Notices \ {n} : notices'[m] = notices[m]
  BY DEF TellingIsSound, NoticesTyped
<1>2. \A v \in Workers : workers'[v] = workers[v] \/ workers'[v].at = "idle"
  BY DEF TellingIsSound, NoticesTyped, Idle
<1>4. NoticeClaimsAreOwn'
  BY <1>1, <1>2 DEF TellingIsSound, NoticeClaimsAreOwn
<1>5. ASSUME NEW v \in Workers PROVE WorkerIsInformed(v)'
  <2>1. CASE workers'[v].at = "idle"
    BY <2>1 DEF WorkerIsInformed
  <2>2. CASE workers'[v] = workers[v] /\ workers[v].at # "idle"
    <3>1. workers[v].notice \in Notices /\ 0 < workers[v].token /\ workers[v].token \in Nat
      BY <2>2 DEF TellingIsSound, NoticeClaimsAreOwn, NoticesTyped, WorkerState
    <3>2. CASE workers[v].notice # n
      BY <1>1, <2>2, <3>1, <3>2 DEF TellingIsSound, WorkerIsInformed, Holds, IsTold
    <3>3. CASE workers[v].notice = n
      <4>1. Holds(v)' => Holds(v)
        <5>1. ASSUME Holds(v)' PROVE Holds(v)
          <6>1. row.token = workers[v].token /\ row.token = notices[n].token
            BY <1>1, <2>2, <3>1, <3>3, <5>1 DEF Holds
          <6>2. notices[n].status = "delivering"
            BY <3>1, <6>1 DEF TellingIsSound, NoticeIsSound
          <6> QED BY <3>3, <6>1, <6>2 DEF Holds
        <5> QED BY <5>1
      <4>2. CASE At(v, "post")
        BY <1>1, <2>2, <3>3, <4>2 DEF TellingIsSound, WorkerIsInformed, IsTold
      <4>3. CASE ~At(v, "post")
        BY <1>1, <2>2, <3>3, <4>1, <4>3 DEF TellingIsSound, WorkerIsInformed, IsTold
      <4> QED BY <4>2, <4>3
    <3> QED BY <3>2, <3>3
  <2> QED BY <1>2, <2>1, <2>2
<1>6. OneWriter'
  BY <1>2 DEF TellingIsSound, OneWriter
<1>7. ASSUME NEW m \in Notices PROVE NoticeIsSound(m)'
  <2>1. NoticeIsSound(m)
    BY DEF TellingIsSound
  <2> QED BY <1>1, <2>1 DEF NoticeIsSound, IsTold
<1> QED BY <1>4, <1>5, <1>6, <1>7 DEF TellingIsSound

(* A notice is claimed when nobody writes it.                              *)
LEMMA ClaimTells ==
  ASSUME TellingIsSound, NEW w \in Workers, NEW n \in Notices, claimNext(w, n), NoticesTyped'
  PROVE  TellingIsSound'
<1> USE DEF At
<1> DEFINE next == notices[n].issued + 1
           row == [notices[n] EXCEPT !.status = "delivering", !.token = next, !.issued = next]
           new == [at |-> "heartbeat", notice |-> n, token |-> next, issue |-> 0,
                   url |-> Null]
<1>0. next \in Nat /\ next > 0 /\ next > notices[n].issued /\ notices[n] \in NoticeRow
  BY DEF TellingIsSound, NoticesTyped, NoticeRow
<1>1. /\ row \in NoticeRow /\ row.status = "delivering" /\ row.token = next /\ row.issued = next
      /\ new \in WorkerState
  BY <1>0 DEF NoticeRow, WorkerState
<1>2. notices' = [notices EXCEPT ![n] = row]
  BY <1>0 DEF claimNext, NoticeRow
<1>3. workers' = [workers EXCEPT ![w] = new]
  BY DEF claimNext
<1>4. /\ expired' \subseteq expired /\ comments' = comments /\ At(w, "idle")
      /\ notices[n].status = "pending" \/ (notices[n].status = "delivering" /\ n \in expired)
  BY DEF claimNext, Deliverable
<1>5. /\ workers'[w] = new /\ \A v \in Workers \ {w} : workers'[v] = workers[v]
      /\ notices'[n] = row /\ \A m \in Notices \ {n} : notices'[m] = notices[m]
      /\ new.at = "heartbeat" /\ new.notice = n /\ new.token = next
  BY <1>2, <1>3 DEF TellingIsSound, NoticesTyped
<1> HIDE DEF row, new, next
<1>7. NoticeClaimsAreOwn'
  <2>1. ASSUME NEW v \in Workers, ~At(v, "idle"), v # w
        PROVE  /\ workers[v].notice \in Notices /\ workers[v].token \in Nat
               /\ 0 < workers[v].token
               /\ workers[v].token <= notices'[workers[v].notice].issued
               /\ workers[v].notice = n => workers[v].token < next
    <3>1. /\ workers[v].notice \in Notices /\ workers[v].token \in Nat /\ 0 < workers[v].token
          /\ workers[v].token <= notices[workers[v].notice].issued
          /\ notices[n].issued \in Nat
      BY <2>1 DEF TellingIsSound, NoticesTyped, NoticeClaimsAreOwn, WorkerState, NoticeRow
    <3>2. CASE workers[v].notice = n
      BY <1>0, <1>1, <1>5, <3>1, <3>2
    <3>3. CASE workers[v].notice # n
      BY <1>5, <3>1, <3>3
    <3> QED BY <3>1, <3>2, <3>3
  <2>2. ASSUME NEW u \in Workers, NEW v \in Workers, u # v, u # w, v # w, ~At(u, "idle"),
               ~At(v, "idle"), workers[u].notice = workers[v].notice
        PROVE  workers[u].token # workers[v].token
    BY <2>2 DEF TellingIsSound, NoticeClaimsAreOwn
  <2> QED BY <1>0, <1>1, <1>5, <2>1, <2>2 DEF NoticeClaimsAreOwn
<1>8. ASSUME NEW v \in Workers, v # w, ~At(v, "idle"), workers[v].notice = n
      PROVE  ~At(v, "post") /\ ~Holds(v)'
  <2>1. ~At(v, "post")
    BY <1>4, <1>8 DEF TellingIsSound, WorkerIsInformed, Holds
  <2>2. workers[v].token # next
    BY <1>0, <1>8 DEF TellingIsSound, NoticesTyped, NoticeClaimsAreOwn, WorkerState, NoticeRow
  <2> QED BY <1>1, <1>5, <1>8, <2>1, <2>2 DEF Holds
<1>9. ASSUME NEW v \in Workers PROVE WorkerIsInformed(v)'
  <2>1. CASE v = w
    BY <1>5, <2>1 DEF WorkerIsInformed
  <2>2. CASE v # w /\ ~At(v, "idle") /\ workers[v].notice = n
    BY <1>4, <1>5, <1>8, <2>2 DEF TellingIsSound, WorkerIsInformed, IsTold
  <2>3. CASE v # w /\ ~At(v, "idle") /\ workers[v].notice # n
    <3>1. workers[v].notice \in Notices
      BY <2>3 DEF TellingIsSound, NoticeClaimsAreOwn
    <3> QED BY <1>4, <1>5, <2>3, <3>1 DEF TellingIsSound, WorkerIsInformed, Holds, IsTold
  <2>4. CASE v # w /\ At(v, "idle")
    BY <1>5, <2>4 DEF WorkerIsInformed
  <2> QED BY <2>1, <2>2, <2>3, <2>4
<1>10. OneWriter'
  BY <1>5 DEF TellingIsSound, OneWriter
<1>11. ASSUME NEW m \in Notices PROVE NoticeIsSound(m)'
  <2>1. NoticeIsSound(m)
    BY DEF TellingIsSound
  <2> QED BY <1>0, <1>1, <1>4, <1>5, <2>1 DEF NoticeIsSound, IsTold
<1> QED BY <1>7, <1>9, <1>10, <1>11 DEF TellingIsSound

(* A lease runs out under nobody who writes.                               *)
LEMMA LeaseTells ==
  ASSUME TellingIsSound, NEW n \in Notices, LeaseRunsOut(n), NoticesTyped'
  PROVE  TellingIsSound'
<1> USE DEF At
<1>1. /\ UNCHANGED <<notices, workers, comments>> /\ expired' = expired \cup {n}
      /\ notices[n].status = "delivering"
  BY DEF LeaseRunsOut
<1>2. ASSUME NEW v \in Workers, At(v, "post"), workers[v].notice = n PROVE FALSE
  <2>1. Holds(v)
    BY <1>1, <1>2 DEF TellingIsSound, WorkerIsInformed
  <2> QED BY <1>2, <2>1 DEF LeaseRunsOut, Working, Writing
<1>3. NoticeClaimsAreOwn' /\ OneWriter' /\ \A m \in Notices : NoticeIsSound(m)'
  BY <1>1 DEF TellingIsSound, NoticeClaimsAreOwn, OneWriter, NoticeIsSound, IsTold
<1>4. \A v \in Workers : WorkerIsInformed(v)'
  BY <1>1, <1>2 DEF TellingIsSound, WorkerIsInformed, Holds, IsTold
<1> QED BY <1>3, <1>4 DEF TellingIsSound

(* The one writer of a notice writes: nobody else has told it in the       *)
(* issue, and nobody else believes that nobody has.                        *)
LEMMA WritingTells ==
  ASSUME TellingIsSound, NEW w \in Workers, At(w, "post"),
         comments' = comments \cup {Comment(w)},
         \/ workers' = [workers EXCEPT ![w] = Idle]
         \/ workers' = [workers EXCEPT ![w].at = "complete", ![w].url = workers[w].issue],
         UNCHANGED <<notices, expired>>, NoticesTyped'
  PROVE  TellingIsSound'
<1> USE DEF At
<1> DEFINE n == workers[w].notice
           k == workers[w].issue
<1>0. workers[w] \in WorkerState /\ n \in Notices
  BY DEF TellingIsSound, NoticesTyped, NoticeClaimsAreOwn
<1>1. /\ ~IsTold(n, k) /\ Comment(w).notice = n /\ Comment(w).issue = k
      /\ Comment(w) \in comments' /\ comments \subseteq comments'
      /\ \A c \in comments' : c \in comments \/ c = Comment(w)
  BY DEF TellingIsSound, WorkerIsInformed, Comment
<1>2. \A v \in Workers \ {w} : workers'[v] = workers[v]
  BY DEF TellingIsSound, NoticesTyped
<1>3. \/ workers'[w].at = "idle"
      \/ /\ workers'[w].at = "complete" /\ workers'[w].notice = n
         /\ workers'[w].token = workers[w].token
         /\ workers'[w].url = k /\ workers'[w].issue = k
  BY <1>0 DEF TellingIsSound, NoticesTyped, WorkerState, Idle
<1>4. NoticeClaimsAreOwn'
  BY <1>2, <1>3 DEF TellingIsSound, NoticeClaimsAreOwn
<1>5. ASSUME NEW v \in Workers PROVE WorkerIsInformed(v)'
  <2>1. CASE v = w
    BY <1>1, <1>3, <2>1 DEF WorkerIsInformed, IsTold
  <2>2. CASE v # w /\ At(v, "idle")
    BY <1>2, <2>2 DEF WorkerIsInformed
  <2>3. CASE v # w /\ ~At(v, "idle") /\ workers[v].notice # n
    <3>1. workers[v].notice \in Notices
      BY <2>3 DEF TellingIsSound, NoticeClaimsAreOwn
    <3>2. \A j : IsTold(workers[v].notice, j)' <=> IsTold(workers[v].notice, j)
      BY <1>1, <1>2, <2>3 DEF IsTold
    <3> QED BY <1>2, <2>3, <3>1, <3>2 DEF TellingIsSound, WorkerIsInformed, Holds, IsTold
  <2>4. CASE v # w /\ ~At(v, "idle") /\ workers[v].notice = n
    <3>1. ~At(v, "post")
      BY <2>4 DEF TellingIsSound, OneWriter
    <3>2. ~Holds(v)
      <4>1. CASE Holds(w)
        BY <2>4, <4>1, OneHolder
      <4>2. CASE ~Holds(w)
        BY <2>4, <4>2 DEF TellingIsSound, WorkerIsInformed, Holds
      <4> QED BY <4>1, <4>2
    <3>3. At(v, "complete") => /\ IsTold(workers[v].notice, workers[v].issue)
                               /\ workers[v].url = workers[v].issue
      BY DEF TellingIsSound, WorkerIsInformed
    <3> QED BY <1>1, <1>2, <2>4, <3>1, <3>2, <3>3 DEF WorkerIsInformed, Holds, IsTold
  <2> QED BY <2>1, <2>2, <2>3, <2>4
<1>6. OneWriter'
  BY <1>2, <1>3 DEF TellingIsSound, OneWriter
<1>7. ASSUME NEW m \in Notices PROVE NoticeIsSound(m)'
  <2>1. NoticeIsSound(m)
    BY DEF TellingIsSound
  <2>2. ASSUME NEW c \in comments', NEW d \in comments', c.notice = m, d.notice = m,
               c.issue = d.issue
        PROVE  c = d
    BY <1>1, <2>1, <2>2 DEF NoticeIsSound, IsTold
  <2> QED BY <1>1, <2>1, <2>2 DEF NoticeIsSound, IsTold
<1> QED BY <1>4, <1>5, <1>6, <1>7 DEF TellingIsSound

(* A completion is recorded under the claim it belongs to.                 *)
LEMMA CompletionTells ==
  ASSUME TellingIsSound, NEW w \in Workers, NEW delivered \in BOOLEAN, ~At(w, "idle"),
         delivered => At(w, "complete"), complete(w, delivered), UNCHANGED comments,
         NoticesTyped'
  PROVE  TellingIsSound'
<1> DEFINE n == workers[w].notice
<1>0. workers[w] \in WorkerState /\ n \in Notices /\ notices[n] \in NoticeRow
  BY DEF TellingIsSound, NoticesTyped, NoticeClaimsAreOwn
<1>1. Idle \in WorkerState /\ Idle.at = "idle"
  BY DEF Idle, WorkerState
<1>2. workers' = [workers EXCEPT ![w] = Idle] /\ UNCHANGED expired
  BY DEF complete, Leave
<1>3. CASE ~Holds(w)
  <2>1. UNCHANGED <<notices, comments>> /\ expired' \in SUBSET expired
    BY <1>3 DEF complete, TellingIsSound, NoticesTyped
  <2> QED BY <1>1, <1>2, <2>1, WorkerMovesOn
<1>4. CASE Holds(w)
  <2> DEFINE row == [notices[n] EXCEPT !.status = IF delivered THEN "delivered" ELSE "failed",
                                       !.token = 0, !.url = workers[w].url]
  <2>1. notices' = [notices EXCEPT ![n] = row]
    BY <1>0, <1>4 DEF complete, NoticeRow, TellingIsSound, NoticesTyped
  <2>2. /\ row \in NoticeRow /\ row.token = 0 /\ row.issued = notices[n].issued
        /\ row.status \in {"delivered", "failed"} /\ row.url = workers[w].url
        /\ row.status = "delivered" <=> delivered
    BY <1>0 DEF NoticeRow, WorkerState
  <2> HIDE DEF row
  <2>3. row.status = "delivered" => IsTold(n, row.url)
    BY <2>2 DEF TellingIsSound, WorkerIsInformed
  <2>4. ASSUME NEW v \in Workers, At(v, "post")', workers'[v].notice = n PROVE FALSE
    <3>1. v # w /\ workers'[v] = workers[v]
      BY <1>1, <1>2, <2>4 DEF At, TellingIsSound, NoticesTyped
    <3>2. At(v, "post") /\ ~At(v, "idle") /\ workers[v].notice = n
      BY <2>4, <3>1 DEF At
    <3>3. ~Holds(v)
      BY <1>4, <3>1, <3>2, OneHolder
    <3> QED BY <1>4, <3>2, <3>3 DEF TellingIsSound, WorkerIsInformed, Holds
  <2>5. notices[n].status # "superseded"
    BY <1>4 DEF Holds
  <2>6. row.status = "delivering" <=> row.token > 0
    BY <2>2
  <2>7. \E u \in Workers : /\ workers[u].notice = n /\ Holds(u) /\ ~At(u, "idle")
                           /\ workers' = [workers EXCEPT ![u] = Idle]
    BY <1>2, <1>4
  <2> HIDE DEF n
  <2> QED BY <1>0, <1>2, <2>1, <2>2, <2>3, <2>4, <2>5, <2>6, <2>7, NoticeChanges
<1> QED BY <1>3, <1>4

(* A worker goes to a place that is neither a write nor a completion.      *)
LEMMA GoingOnTells ==
  ASSUME TellingIsSound, NEW w \in Workers, ~At(w, "idle"),
         NEW at \in {"resolve", "installed", "find_issue", "own_issue", "open", "find_marker",
                     "own_comment", "post"},
         at = "own_comment" => ~IsTold(workers[w].notice, workers[w].issue),
         at = "post" => At(w, "own_comment") /\ Holds(w) /\ workers[w].notice \notin expired',
         Go(w, at), UNCHANGED <<notices, comments>>, expired' \in SUBSET expired,
         NoticesTyped'
  PROVE  TellingIsSound'
<1> DEFINE new == [workers[w] EXCEPT !.at = at]
<1>0. workers[w] \in WorkerState
  BY DEF TellingIsSound, NoticesTyped
<1>1. workers' = [workers EXCEPT ![w] = new]
  BY DEF Go
<1>2. /\ new \in WorkerState /\ new.at = at /\ new.notice = workers[w].notice
      /\ new.token = workers[w].token /\ new.issue = workers[w].issue
  BY <1>0 DEF WorkerState
<1> HIDE DEF new
<1>3. at = "post" => ~IsTold(workers[w].notice, workers[w].issue)
  BY DEF TellingIsSound, WorkerIsInformed
<1> QED BY <1>1, <1>2, <1>3, WorkerMovesOn

(* A worker asks whether it still owns the notice before it goes on.       *)
LEMMA RenewalTells ==
  ASSUME TellingIsSound, NEW w \in Workers, ~At(w, "idle"),
         NEW at \in {"resolve", "open", "post"}, at = "post" => At(w, "own_comment"),
         renewClaim(w, at), UNCHANGED comments, NoticesTyped'
  PROVE  TellingIsSound'
<1>1. CASE Holds(w)
  <2>1. /\ Go(w, at) /\ UNCHANGED notices /\ expired' = expired \ {workers[w].notice}
    BY <1>1 DEF renewClaim
  <2>2. expired' \in SUBSET expired /\ workers[w].notice \notin expired'
    BY <2>1
  <2> QED BY <1>1, <2>1, <2>2, GoingOnTells
<1>2. CASE ~Holds(w)
  <2>1. workers' = [workers EXCEPT ![w] = Idle] /\ UNCHANGED <<notices, expired>>
    BY <1>2 DEF renewClaim, Abandon, Leave
  <2>2. Idle \in WorkerState /\ Idle.at = "idle" /\ expired' \in SUBSET expired
    BY <2>1 DEF Idle, WorkerState
  <2> QED BY <2>1, <2>2, WorkerMovesOn
<1> QED BY <1>1, <1>2

(* A worker finds or opens the issue to look for the comment in.           *)
LEMMA FindingAnIssueTells ==
  ASSUME TellingIsSound, NEW w \in Workers, ~At(w, "idle"), NEW k,
         workers' = [workers EXCEPT ![w] = [workers[w] EXCEPT !.at = "find_marker", !.issue = k]],
         UNCHANGED <<notices, expired, comments>>, NoticesTyped'
  PROVE  TellingIsSound'
<1> DEFINE new == [workers[w] EXCEPT !.at = "find_marker", !.issue = k]
<1>0. workers[w] \in WorkerState
  BY DEF TellingIsSound, NoticesTyped
<1>1. workers' = [workers EXCEPT ![w] = new] /\ expired' \in SUBSET expired
  OBVIOUS
<1>2. workers'[w] = new
  BY DEF TellingIsSound, NoticesTyped
<1>3. new \in WorkerState
  BY <1>2 DEF NoticesTyped
<1>4. new.at = "find_marker" /\ new.notice = workers[w].notice /\ new.token = workers[w].token
  BY <1>0 DEF WorkerState
<1> HIDE DEF new
<1> QED BY <1>1, <1>3, <1>4, WorkerMovesOn

(* A delivery goes on.                                                     *)
LEMMA DeliveryTells ==
  ASSUME TellingIsSound, NEW w \in Workers, DeliveryStep(w), NoticesTyped'
  PROVE  TellingIsSound'
<1>0. workers[w] \in WorkerState /\ workers[w].notice \in Notices \cup {Null}
  BY DEF TellingIsSound, NoticesTyped, WorkerState
<1>1. CASE startRunNoticeClaimHeartbeat(w)
  BY <1>1, RenewalTells DEF startRunNoticeClaimHeartbeat, At
<1>2. CASE resolveTarget(w)
  <2>1. CASE Target(w).kind = "none"
    <3>1. complete(w, FALSE) /\ At(w, "resolve") /\ UNCHANGED comments
      BY <1>2, <2>1 DEF resolveTarget
    <3> QED BY <3>1, CompletionTells DEF At
  <2>2. CASE Target(w).kind # "none"
    <3>1. Go(w, "installed") /\ At(w, "resolve") /\ UNCHANGED <<notices, expired, comments>>
      BY <1>2, <2>2 DEF resolveTarget
    <3>2. expired' \in SUBSET expired /\ ~At(w, "idle")
      BY <3>1 DEF At
    <3> QED BY <3>1, <3>2, GoingOnTells
  <2> QED BY <2>1, <2>2
<1>3. CASE assertRepositoryIsInstalled(w)
  <2>1. /\ Go(w, "find_issue") \/ Go(w, "find_marker")
        /\ At(w, "installed") /\ UNCHANGED <<notices, expired, comments>>
    BY <1>3 DEF assertRepositoryIsInstalled
  <2>2. expired' \in SUBSET expired /\ ~At(w, "idle")
    BY <2>1 DEF At
  <2> QED BY <2>1, <2>2, GoingOnTells
<1>4. CASE findRepositorySecuritySummaryIssue(w)
  <2> DEFINE last == summaries[Target(w).repo]
             new == [workers[w] EXCEPT !.at = "find_marker", !.issue = last]
  <2>1. /\ Go(w, "own_issue") \/ workers' = [workers EXCEPT ![w] = new]
        /\ At(w, "find_issue") /\ UNCHANGED <<notices, expired, comments>>
    BY <1>0, <1>4 DEF findRepositorySecuritySummaryIssue, WorkerState
  <2>2. expired' \in SUBSET expired /\ ~At(w, "idle")
    BY <2>1 DEF At
  <2>3. CASE workers' = [workers EXCEPT ![w] = new]
    BY <1>0, <2>1, <2>2, <2>3, FindingAnIssueTells
  <2> QED BY <2>1, <2>2, <2>3, GoingOnTells
<1>5. CASE assertBeforeIssue(w)
  BY <1>5, RenewalTells DEF assertBeforeIssue, At
<1>6. CASE ensureSummaryIssueNumber(w)
  <2> DEFINE next == summaries[Target(w).repo] + 1
             new == [workers[w] EXCEPT !.at = "find_marker", !.issue = next]
  <2>1. /\ workers' = [workers EXCEPT ![w] = new]
        /\ At(w, "open") /\ UNCHANGED <<notices, expired, comments>>
    BY <1>0, <1>6 DEF ensureSummaryIssueNumber, WorkerState
  <2>2. expired' \in SUBSET expired /\ ~At(w, "idle")
    BY <2>1 DEF At
  <2> HIDE DEF next
  <2> QED BY <1>0, <2>1, <2>2, FindingAnIssueTells
<1>7. CASE findIssueCommentByMarker(w)
  <2>0. /\ At(w, "find_marker") /\ ~At(w, "idle") /\ UNCHANGED <<notices, expired, comments>>
        /\ expired' \in SUBSET expired
    BY <1>7 DEF findIssueCommentByMarker, At
  <2>1. IsTold(workers[w].notice, workers[w].issue)
          <=> \E c \in Told(workers[w].notice) : c.issue = workers[w].issue
    BY DEF IsTold, Told
  <2>2. CASE IsTold(workers[w].notice, workers[w].issue)
    <3> DEFINE new == [workers[w] EXCEPT !.at = "complete", !.url = workers[w].issue]
    <3>1. workers' = [workers EXCEPT ![w] = new]
      BY <1>0, <1>7, <2>1, <2>2 DEF findIssueCommentByMarker, WorkerState
    <3>2. /\ new \in WorkerState /\ new.at = "complete" /\ new.notice = workers[w].notice
          /\ new.token = workers[w].token /\ new.url = workers[w].issue
          /\ new.issue = workers[w].issue
      BY <1>0 DEF WorkerState
    <3> HIDE DEF new
    <3> QED BY <2>0, <2>2, <3>1, <3>2, WorkerMovesOn
  <2>3. CASE ~IsTold(workers[w].notice, workers[w].issue)
    <3>1. Go(w, "own_comment")
      BY <1>7, <2>1, <2>3 DEF findIssueCommentByMarker, Go
    <3> QED BY <2>0, <2>3, <3>1, GoingOnTells
  <2> QED BY <2>2, <2>3
<1>8. CASE assertBeforeComment(w)
  BY <1>8, RenewalTells DEF assertBeforeComment, At
<1>9. CASE createIssueComment(w)
  BY <1>9, WritingTells DEF createIssueComment
<1>10. CASE completeRunNotice(w)
  BY <1>10, CompletionTells DEF completeRunNotice, At
<1> QED BY <1>1, <1>2, <1>3, <1>4, <1>5, <1>6, <1>7, <1>8, <1>9, <1>10 DEF DeliveryStep

(* Every step of the queue, the workers and their environment.             *)
LEMMA EveryStepTells ==
  TellingIsSound /\ [NoticesNext]_noticeVars /\ NoticesTyped' => TellingIsSound'
<1> SUFFICES ASSUME TellingIsSound, [NoticesNext]_noticeVars, NoticesTyped' PROVE TellingIsSound'
  OBVIOUS
<1>1. ASSUME NEW n \in Notices, supersedeRunAttentionNotices(n) PROVE TellingIsSound'
  <2> DEFINE row == [notices[n] EXCEPT !.status = "superseded", !.token = 0]
  <2>0. notices[n] \in NoticeRow
    BY DEF TellingIsSound, NoticesTyped
  <2>a. /\ notices' = [notices EXCEPT ![n].status = "superseded", ![n].token = 0]
        /\ UNCHANGED <<comments, expired, workers>>
    BY <1>1 DEF supersedeRunAttentionNotices
  <2>b. notices \in [Notices -> NoticeRow]
    BY DEF TellingIsSound, NoticesTyped
  <2>1. notices' = [notices EXCEPT ![n] = row] /\ UNCHANGED <<comments, expired, workers>>
    BY <2>a, <2>b
  <2>2. /\ row \in NoticeRow /\ row.token = 0 /\ row.issued = notices[n].issued
        /\ row.status = "superseded"
    BY <2>0 DEF NoticeRow
  <2> HIDE DEF row
  <2>3. row.status = "delivering" <=> row.token > 0
    BY <2>2
  <2> QED BY <2>1, <2>2, <2>3, NoticeChanges
<1>2. ASSUME NEW n \in Notices, NEW kind \in {"failure", "attention"}, queueRunNotice(n, kind)
      PROVE  TellingIsSound'
  <2> DEFINE row == [notices[n] EXCEPT !.status = "pending", !.kind = kind]
  <2>0. notices[n] \in NoticeRow /\ notices[n].status = "none" /\ notices[n].token = 0
    BY <1>2 DEF TellingIsSound, NoticesTyped, queueRunNotice, NoticeRow, NoticeIsSound
  <2>a. /\ notices' = [notices EXCEPT ![n].status = "pending", ![n].kind = kind]
        /\ UNCHANGED <<comments, expired, workers>>
    BY <1>2 DEF queueRunNotice
  <2>b. notices \in [Notices -> NoticeRow]
    BY DEF TellingIsSound, NoticesTyped
  <2>1. notices' = [notices EXCEPT ![n] = row] /\ UNCHANGED <<comments, expired, workers>>
    BY <2>a, <2>b
  <2>2. /\ row \in NoticeRow /\ row.token = 0 /\ row.issued = notices[n].issued
        /\ row.status = "pending"
    BY <2>0 DEF NoticeRow
  <2> HIDE DEF row
  <2>3. row.status = "delivering" <=> row.token > 0
    BY <2>2
  <2>4. ASSUME NEW v \in Workers, At(v, "post")', workers'[v].notice = n PROVE FALSE
    <3>1. At(v, "post") /\ workers[v].notice = n
      BY <2>1, <2>4 DEF At
    <3> QED BY <2>0, <3>1 DEF TellingIsSound, WorkerIsInformed, Holds
  <2> QED BY <2>0, <2>1, <2>2, <2>3, <2>4, NoticeChanges
<1>3. ASSUME NEW w \in Workers, RepositoryIsRefused(w) PROVE TellingIsSound'
  BY <1>3, CompletionTells DEF RepositoryIsRefused, At
<1>4. ASSUME NEW w \in Workers, NEW landed \in BOOLEAN, CallFails(w, landed)
      PROVE  TellingIsSound'
  <2>1. workers' = [workers EXCEPT ![w] = Idle] /\ UNCHANGED <<notices, expired>>
    BY <1>4 DEF CallFails, Abandon, Leave
  <2>2. CASE landed /\ At(w, "post")
    <3>1. comments' = comments \cup {Comment(w)}
      BY <1>4, <2>2 DEF CallFails
    <3> QED BY <2>1, <2>2, <3>1, WritingTells
  <2>3. CASE ~(landed /\ At(w, "post"))
    <3>1. UNCHANGED comments
      BY <1>4, <2>3 DEF CallFails
    <3>2. Idle \in WorkerState /\ Idle.at = "idle" /\ expired' \in SUBSET expired
      BY <2>1 DEF Idle, WorkerState
    <3> QED BY <2>1, <3>1, <3>2, WorkerMovesOn
  <2> QED BY <2>2, <2>3
<1>5. CASE UNCHANGED noticeVars
  BY <1>5 DEF noticeVars, TellingIsSound, NoticesTyped, NoticeClaimsAreOwn, WorkerIsInformed,
              OneWriter, NoticeIsSound, IsTold, At, Holds
<1> QED BY <1>1, <1>2, <1>3, <1>4, <1>5, ClaimTells, LeaseTells, DeliveryTells DEF NoticesNext

(* A notice is told once where it is read, for any number of notices and   *)
(* workers, lost answers, restarts and overtaken workers: one comment at   *)
(* most in an issue carries its marker, more than one only for a scan of a *)
(* repository with more than one summary issue, a delivered notice points  *)
(* at a comment of its own, and only a notice in delivery is held          *)
(* (run-notice-reply.ts, run-notices.ts).                                  *)
THEOREM NoticesAreToldOnce == NoticesSpec => []ToldOnce
<1>1. NoticesInit => CommentsAreInPlace /\ TellingIsSound
  <2> SUFFICES ASSUME NoticesInit PROVE CommentsAreInPlace /\ TellingIsSound
    OBVIOUS
  <2>1. Idle \in WorkerState /\ Idle.at = "idle"
    BY DEF Idle, WorkerState
  <2>2. NoticesTyped
    BY <2>1 DEF NoticesInit, NoticesTyped, NoticeRow
  <2>3. \A w \in Workers : workers[w].at = "idle"
    BY <2>1 DEF NoticesInit
  <2>4. CommentsAreInPlace
    BY <2>2, <2>3 DEF NoticesInit, CommentsAreInPlace, WorkerIsPlaced, At
  <2>5. TellingIsSound
    BY <2>2, <2>3 DEF NoticesInit, TellingIsSound, NoticeClaimsAreOwn, WorkerIsInformed,
                      OneWriter, NoticeIsSound, At
  <2> QED BY <2>4, <2>5
<1>2. CommentsAreInPlace /\ TellingIsSound => ToldOnce
  <2> SUFFICES ASSUME CommentsAreInPlace, TellingIsSound, NEW n \in Notices
               PROVE  /\ \A c, d \in Told(n) : c # d =>
                             /\ c.issue # d.issue
                             /\ targets[n].kind = "scan" /\ summaries[targets[n].repo] > 1
                      /\ notices[n].status = "delivered"
                           => \E c \in Told(n) : c.issue = notices[n].url
                      /\ (notices[n].status = "delivering") = (notices[n].token > 0)
    BY DEF ToldOnce
  <2>1. NoticeIsSound(n) /\ NoticesTyped
    BY DEF TellingIsSound
  <2>2. ASSUME NEW c \in Told(n), NEW d \in Told(n), c # d
        PROVE  /\ c.issue # d.issue
               /\ targets[n].kind = "scan" /\ summaries[targets[n].repo] > 1
    <3>1. c.issue # d.issue
      BY <2>1, <2>2 DEF NoticeIsSound, Told
    <3>2. IsPlace(n, c.issue) /\ IsPlace(n, d.issue)
      BY DEF Told, CommentsAreInPlace
    <3>3. targets[n].kind = "scan"
      BY <3>1, <3>2 DEF IsPlace
    <3>4. summaries[targets[n].repo] \in Nat
      BY <2>1, <3>3, ScansHaveARepository
    <3> QED BY <3>1, <3>2, <3>3, <3>4 DEF IsPlace
  <2>3. notices[n].status = "delivered" => \E c \in Told(n) : c.issue = notices[n].url
    BY <2>1 DEF NoticeIsSound, IsTold, Told
  <2>4. (notices[n].status = "delivering") = (notices[n].token > 0)
    BY <2>1 DEF NoticeIsSound, NoticesTyped, NoticeRow
  <2> QED BY <2>2, <2>3, <2>4
<1>3. CommentsAreInPlace' => NoticesTyped'
  BY DEF CommentsAreInPlace
<1>4. CommentsAreInPlace /\ TellingIsSound /\ [NoticesNext]_noticeVars
        => (CommentsAreInPlace /\ TellingIsSound)'
  BY <1>3, EveryStepIsPlaced, EveryStepTells
<1> QED BY <1>1, <1>2, <1>4, PTL DEF NoticesSpec

-----------------------------------------------------------------------------
(***************************************************************************)
(* Processes.  Replicas race for the schema, so what one of them may       *)
(* assume of the ledger is what its own transaction saw under the lock and *)
(* what the others can only extend.  What it has acquired is a prefix of   *)
(* its plan, whichever way it starts or stops, and whoever works on a pool *)
(* is itself acquired after it.                                            *)
(***************************************************************************)
Resources == {"store", "coordinator", "statistics_store", "statistics", "app"}

ReplicaState ==
  [at: {"off", "open", "lock", "apply", "compose", "serving", "closing", "exited"},
   langfuse: BOOLEAN, stack: Seq(Resources), tx: Seq(Versions), initialized: BOOLEAN,
   stopped: SUBSET Loops, active: SUBSET Loops, requests: {0, 1}]

ReplicasTyped ==
  /\ release \in [Replicas -> Seq(Versions)]
  /\ ledger \in Seq(Versions) /\ executed = ledger
  /\ replicas \in [Replicas -> ReplicaState]

(* What a replica holds is a prefix of its plan.                           *)
StackFollowsPlan(r) ==
  LET held == replicas[r].stack
  IN /\ Len(held) <= Len(Plan(r))
     /\ \A i \in 1..Len(held) : held[i] = Plan(r)[i]
     /\ replicas[r].at \in {"off", "open", "exited"} => Len(held) = 0
     /\ replicas[r].at \in {"lock", "apply"} => Len(held) = 1
     /\ ReplicaAt(r, "compose") => /\ 1 <= Len(held) /\ Len(held) < Len(Plan(r))
                                   /\ replicas[r].initialized
     /\ ReplicaAt(r, "serving") => Len(held) = Len(Plan(r))
     /\ Len(held) > 1 => replicas[r].initialized

(* Who works on a pool was acquired after it and is not yet released.      *)
UsersAreHeld(r) ==
  /\ replicas[r].active \subseteq Acquired(r)
  /\ replicas[r].requests > 0 => "app" \in Acquired(r)

(* An initialized replica knows the first versions of the ledger.          *)
SchemaIsKnown(r) ==
  replicas[r].initialized =>
    /\ Len(release[r]) <= Len(ledger)
    /\ \A v \in 1..Len(release[r]) : ledger[v] = release[r][v]

(* The open transaction is the lock's holder's, and goes on where the      *)
(* ledger ends.                                                            *)
TransactionIsOwn(r) ==
  LET tx == replicas[r].tx
  IN ReplicaAt(r, "apply") =>
       /\ locked = {r}
       /\ tx # <<>> => Len(ledger) + Len(tx) <= Len(release[r])
       /\ \A i \in 1..Len(tx) : tx[i] = release[r][Len(ledger) + i]

(* The inductive invariant of the replicas.                                *)
ReplicasAreSound ==
  /\ ReplicasTyped
  /\ \A r \in Replicas : /\ StackFollowsPlan(r) /\ UsersAreHeld(r)
                         /\ SchemaIsKnown(r) /\ TransactionIsOwn(r)

(* The inductive invariant of the integration: once the handlers have      *)
(* answered nobody starts a preparation, and the tracker's snapshot holds  *)
(* every one that still runs.                                              *)
IntegrationIsSound ==
  /\ app \in [at: {"off", "coordinators", "refused", "serving", "closing", "stopping", "down"},
              running: SUBSET Coordinators, active: SUBSET Coordinators,
              snapshot: SUBSET Events]
  /\ work \in [Events -> {"none", "handled", "started", "admitted", "settled"}]
  /\ app.at \in {"stopping", "down"} =>
       ServerIsClosed /\ app.running = {} /\ Tracked \subseteq app.snapshot
  /\ app.at = "down" => Tracked = {} /\ app.active = {}

(* The three plans, element by element.                                    *)
LEMMA PlanIsShort ==
  ASSUME NEW r \in Replicas
  PROVE  /\ Plan(r) \in Seq(Resources) /\ Plan(r)[1] = "store"
         /\ \/ Len(Plan(r)) = 2 /\ Plan(r)[2] = "app"
            \/ Len(Plan(r)) = 3 /\ Plan(r)[2] = "coordinator" /\ Plan(r)[3] = "app"
            \/ /\ Len(Plan(r)) = 5
               /\ Plan(r)[2] = "coordinator" /\ Plan(r)[3] = "statistics_store"
               /\ Plan(r)[4] = "statistics" /\ Plan(r)[5] = "app"
<1>1. CASE service # "review_runs"
  <2>1. Plan(r) = <<"store">> \o <<>> \o <<>> \o <<"app">>
    BY <1>1 DEF Plan
  <2> QED BY <2>1 DEF Resources
<1>2. CASE service = "review_runs" /\ ~replicas[r].langfuse
  <2>1. Plan(r) = <<"store">> \o <<"coordinator">> \o <<>> \o <<"app">>
    BY <1>2 DEF Plan
  <2> QED BY <2>1 DEF Resources
<1>3. CASE service = "review_runs" /\ replicas[r].langfuse
  <2>1. Plan(r) = <<"store">> \o <<"coordinator">> \o <<"statistics_store", "statistics">>
                    \o <<"app">>
    BY <1>3 DEF Plan
  <2> QED BY <2>1 DEF Resources
<1> QED BY <1>1, <1>2, <1>3

(* What the plans have in common: the pool of whatever uses one comes      *)
(* before it, and the HTTP surface comes last.                             *)
LEMMA PlanIsOrdered ==
  ASSUME NEW r \in Replicas
  PROVE  /\ Plan(r) \in Seq(Resources) /\ Len(Plan(r)) \in Nat /\ Len(Plan(r)) >= 2
         /\ Plan(r)[1] = "store" /\ Plan(r)[Len(Plan(r))] = "app"
         /\ \A i \in 1..Len(Plan(r)) :
              /\ Plan(r)[i] = "app" => i = Len(Plan(r))
              /\ Plan(r)[i] = "store" => i = 1
              /\ Plan(r)[i] = "statistics" => i > 1 /\ Plan(r)[i - 1] = "statistics_store"
<1>1. CASE Len(Plan(r)) = 2 /\ Plan(r)[2] = "app"
  BY <1>1, PlanIsShort
<1>2. CASE Len(Plan(r)) = 3 /\ Plan(r)[2] = "coordinator" /\ Plan(r)[3] = "app"
  BY <1>2, PlanIsShort
<1>3. CASE /\ Len(Plan(r)) = 5
           /\ Plan(r)[2] = "coordinator" /\ Plan(r)[3] = "statistics_store"
           /\ Plan(r)[4] = "statistics" /\ Plan(r)[5] = "app"
  BY <1>3, PlanIsShort
<1> QED BY <1>1, <1>2, <1>3, PlanIsShort

(* One replica changes, and the database only by what it commits.          *)
LEMMA OthersStaySound ==
  ASSUME ReplicasAreSound, NEW r \in Replicas, NEW new \in ReplicaState,
         replicas' = [replicas EXCEPT ![r] = new], UNCHANGED <<service, release>>,
         ledger' \in Seq(Versions), executed' = ledger', Len(ledger) <= Len(ledger'),
         \A v \in 1..Len(ledger) : ledger'[v] = ledger[v],
         \/ UNCHANGED <<ledger, locked>>
         \/ \A q \in Replicas \ {r} : locked # {q}
         \/ UNCHANGED ledger /\ locked' = locked \ {r},
         StackFollowsPlan(r)', UsersAreHeld(r)', SchemaIsKnown(r)', TransactionIsOwn(r)'
  PROVE  ReplicasAreSound'
<1>1. ReplicasTyped'
  BY DEF ReplicasAreSound, ReplicasTyped
<1>2. ASSUME NEW q \in Replicas, q # r
      PROVE  /\ StackFollowsPlan(q)' /\ UsersAreHeld(q)'
             /\ SchemaIsKnown(q)' /\ TransactionIsOwn(q)'
  <2>1. replicas'[q] = replicas[q] /\ release'[q] = release[q]
    BY <1>2 DEF ReplicasAreSound, ReplicasTyped
  <2>2. StackFollowsPlan(q)'
    BY <2>1, SMTT(30) DEF ReplicasAreSound, StackFollowsPlan, Plan, ReplicaAt
  <2>3. UsersAreHeld(q)'
    BY <2>1 DEF ReplicasAreSound, UsersAreHeld, Acquired
  <2>4. SchemaIsKnown(q)'
    <3>0. Len(release[q]) \in Nat /\ Len(ledger) \in Nat /\ Len(ledger') \in Nat
      BY DEF ReplicasAreSound, ReplicasTyped
    <3>1. SUFFICES ASSUME replicas[q].initialized
                   PROVE  /\ Len(release[q]) <= Len(ledger')
                          /\ \A v \in 1..Len(release[q]) : ledger'[v] = release[q][v]
      BY <2>1 DEF SchemaIsKnown
    <3>2. /\ Len(release[q]) <= Len(ledger)
          /\ \A v \in 1..Len(release[q]) : ledger[v] = release[q][v]
      BY <3>1 DEF ReplicasAreSound, SchemaIsKnown
    <3> QED BY <3>0, <3>2
  <2>5. TransactionIsOwn(q)'
    <3>1. CASE ReplicaAt(q, "apply")
      <4>1. locked = {q}
        BY <3>1 DEF ReplicasAreSound, TransactionIsOwn
      <4>2. UNCHANGED ledger /\ locked' = {q}
        BY <1>2, <4>1
      <4> QED BY <2>1, <3>1, <4>2 DEF ReplicasAreSound, TransactionIsOwn, ReplicaAt
    <3>2. CASE ~ReplicaAt(q, "apply")
      BY <2>1, <3>2 DEF TransactionIsOwn, ReplicaAt
    <3> QED BY <3>1, <3>2
  <2> QED BY <2>2, <2>3, <2>4, <2>5
<1> QED BY <1>1, <1>2 DEF ReplicasAreSound

(* A replica that holds the schema as it was goes to another place.        *)
LEMMA ReplicaGoes ==
  ASSUME ReplicasAreSound, NEW r \in Replicas, NEW new \in ReplicaState,
         replicas' = [replicas EXCEPT ![r] = new],
         UNCHANGED <<service, release, ledger, executed>>,
         \/ UNCHANGED locked
         \/ \A q \in Replicas \ {r} : locked # {q}
         \/ locked' = locked \ {r},
         new.initialized => replicas[r].initialized,
         new.at = "apply" =>
           \/ new.tx = <<>> /\ locked' = {r}
           \/ ReplicaAt(r, "apply") /\ new.tx = replicas[r].tx /\ UNCHANGED locked,
         StackFollowsPlan(r)', UsersAreHeld(r)'
  PROVE  ReplicasAreSound'
<1>1. replicas'[r] = new
  BY DEF ReplicasAreSound, ReplicasTyped
<1>2. SchemaIsKnown(r)'
  BY <1>1 DEF ReplicasAreSound, SchemaIsKnown
<1>3. TransactionIsOwn(r)'
  <2>1. CASE new.at = "apply" /\ new.tx = <<>> /\ locked' = {r}
    <3>1. Len(new.tx) = 0
      BY <2>1
    <3> QED BY <1>1, <2>1, <3>1 DEF TransactionIsOwn
  <2>2. CASE new.at # "apply"
    BY <1>1, <2>2 DEF TransactionIsOwn, ReplicaAt
  <2>3. CASE ReplicaAt(r, "apply") /\ new.tx = replicas[r].tx /\ UNCHANGED locked
    BY <1>1, <2>3 DEF ReplicasAreSound, TransactionIsOwn, ReplicaAt
  <2> QED BY <2>1, <2>2, <2>3
<1>4. /\ ledger' \in Seq(Versions) /\ executed' = ledger' /\ Len(ledger) <= Len(ledger')
      /\ \A v \in 1..Len(ledger) : ledger'[v] = ledger[v]
  BY DEF ReplicasAreSound, ReplicasTyped
<1> QED BY <1>2, <1>3, <1>4, OthersStaySound

(* A plan is never empty, before a step and after it.                      *)
PlansStartWithAPool ==
  \A r \in Replicas : Len(Plan(r)) \in Nat /\ Len(Plan(r)) >= 2 /\ Plan(r)[1] = "store"

(* Every replica's plan starts with its pool (start.ts).                    *)
LEMMA PlansAlwaysStartWithAPool == PlansStartWithAPool
  BY PlanIsOrdered DEF PlansStartWithAPool

(* A replica that has acquired nothing, or only its pool, has no users.    *)
LEMMA NoUsersYet ==
  ASSUME ReplicasAreSound, NEW r \in Replicas, Len(replicas[r].stack) <= 1
  PROVE  replicas[r].active = {} /\ replicas[r].requests = 0
<1>1. ASSUME NEW x \in Acquired(r) PROVE x = "store"
  BY <1>1, PlanIsOrdered DEF ReplicasAreSound, StackFollowsPlan, Acquired, ReplicasTyped,
                             ReplicaState
<1>2. replicas[r].active = {}
  BY <1>1 DEF ReplicasAreSound, UsersAreHeld, ReplicasTyped, ReplicaState, Loops
<1>3. replicas[r].requests = 0
  <2>1. replicas[r].requests \in {0, 1} /\ (replicas[r].requests > 0 => "app" \in Acquired(r))
    BY DEF ReplicasAreSound, UsersAreHeld, ReplicasTyped, ReplicaState
  <2>2. "app" \notin Acquired(r)
    BY <1>1
  <2> QED BY <2>1, <2>2
<1> QED BY <1>2, <1>3

(* The configuration, the pool and a crash leave a replica without users.  *)
LEMMA EmptyReplicasAreSound ==
  ASSUME ReplicasAreSound, NEW r \in Replicas,
         \/ \E langfuse \in BOOLEAN : readConfiguration(r, langfuse)
         \/ openStore(r) \/ crash(r)
  PROVE  ReplicasAreSound'
<1>0. replicas[r] \in ReplicaState
  BY DEF ReplicasAreSound, ReplicasTyped
<1>1. (Len(Plan(r)) \in Nat /\ Len(Plan(r)) >= 2 /\ Plan(r)[1] = "store")'
  <2>1. PlansStartWithAPool'
    BY PlansAlwaysStartWithAPool, PTL
  <2> QED BY <2>1 DEF PlansStartWithAPool
<1>2. ASSUME NEW langfuse \in BOOLEAN, readConfiguration(r, langfuse) PROVE ReplicasAreSound'
  <2> DEFINE one == [replicas[r] EXCEPT !.at = "open", !.langfuse = langfuse]
             two == [replicas[r] EXCEPT !.at = "exited"]
  <2>1. /\ replicas' = [replicas EXCEPT ![r] = one] \/ replicas' = [replicas EXCEPT ![r] = two]
        /\ UNCHANGED <<service, release, ledger, executed, locked>>
        /\ replicas[r].at = "off" /\ Len(replicas[r].stack) = 0
    BY <1>0, <1>2 DEF readConfiguration, ReplicaAt, ReplicasAreSound, StackFollowsPlan,
                      ReplicasTyped, ReplicaState
  <2>2. PICK new \in {one, two} : replicas' = [replicas EXCEPT ![r] = new]
    BY <2>1
  <2>3. /\ new \in ReplicaState /\ new.at \in {"open", "exited"}
        /\ new.stack = replicas[r].stack /\ new.active = replicas[r].active
        /\ new.requests = replicas[r].requests
        /\ new.initialized = replicas[r].initialized
    BY <1>0, <2>2 DEF ReplicaState
  <2>4. replicas'[r] = new /\ new.active = {} /\ new.requests = 0 /\ Len(new.stack) = 0
    BY <2>1, <2>2, <2>3, NoUsersYet DEF ReplicasAreSound, ReplicasTyped
  <2>5. StackFollowsPlan(r)' /\ UsersAreHeld(r)'
    BY <1>1, <2>3, <2>4 DEF StackFollowsPlan, UsersAreHeld, ReplicaAt
  <2> QED BY <2>1, <2>2, <2>3, <2>5, ReplicaGoes
<1>3. CASE openStore(r)
  <2> DEFINE new == [replicas[r] EXCEPT !.at = "lock", !.stack = <<"store">>]
  <2>1. /\ replicas' = [replicas EXCEPT ![r] = new]
        /\ UNCHANGED <<service, release, ledger, executed, locked>>
        /\ replicas[r].at = "open" /\ Len(replicas[r].stack) = 0
    BY <1>0, <1>3 DEF openStore, ReplicaAt, ReplicasAreSound, StackFollowsPlan, ReplicasTyped,
                      ReplicaState
  <2>2. /\ new \in ReplicaState /\ new.at = "lock" /\ new.stack = <<"store">>
        /\ new.active = replicas[r].active /\ new.requests = replicas[r].requests
        /\ new.initialized = replicas[r].initialized
    <3>1. <<"store">> \in Seq(Resources)
      BY DEF Resources
    <3> QED BY <1>0, <3>1 DEF ReplicaState
  <2> HIDE DEF new
  <2>3. /\ replicas'[r] = new /\ new.active = {} /\ new.requests = 0 /\ Len(new.stack) = 1
        /\ new.stack[1] = "store" /\ new.at = "lock"
    BY <2>1, <2>2, NoUsersYet DEF ReplicasAreSound, ReplicasTyped
  <2>4. StackFollowsPlan(r)'
    <3>1. \A i \in 1..Len(new.stack) : new.stack[i] = Plan(r)'[i]
      BY <1>1, <2>3
    <3> QED BY <1>1, <2>3, <3>1 DEF StackFollowsPlan, ReplicaAt
  <2>5. UsersAreHeld(r)'
    BY <2>3 DEF UsersAreHeld
  <2> QED BY <2>1, <2>2, <2>4, <2>5, ReplicaGoes
<1>4. CASE crash(r)
  <2>1. /\ replicas' = [replicas EXCEPT ![r] = NotStarted] /\ locked' = locked \ {r}
        /\ UNCHANGED <<service, release, ledger, executed>>
    BY <1>4 DEF crash
  <2>2. /\ NotStarted \in ReplicaState /\ NotStarted.at = "off" /\ Len(NotStarted.stack) = 0
        /\ NotStarted.active = {} /\ NotStarted.requests = 0 /\ ~NotStarted.initialized
    BY DEF NotStarted, ReplicaState
  <2>3. replicas'[r] = NotStarted
    BY <2>1 DEF ReplicasAreSound, ReplicasTyped
  <2>4. StackFollowsPlan(r)' /\ UsersAreHeld(r)'
    BY <1>1, <2>2, <2>3 DEF StackFollowsPlan, UsersAreHeld, ReplicaAt
  <2> QED BY <2>1, <2>2, <2>4, ReplicaGoes
<1> QED BY <1>2, <1>3, <1>4

(* A replica moves and keeps what it holds.                                *)
LEMMA HoldingsStay ==
  ASSUME ReplicasAreSound, NEW r \in Replicas, NEW new \in ReplicaState,
         replicas' = [replicas EXCEPT ![r] = new], UNCHANGED service,
         new.stack = replicas[r].stack, new.langfuse = replicas[r].langfuse,
         replicas[r].initialized => new.initialized,
         \/ new.at \in {replicas[r].at, "closing"}
         \/ ReplicaAt(r, "lock") /\ new.at = "apply"
         \/ ReplicaAt(r, "apply") /\ new.at = "compose" /\ new.initialized
  PROVE  StackFollowsPlan(r)' /\ Acquired(r)' = Acquired(r) /\ replicas'[r] = new
<1>1. replicas'[r] = new
  BY DEF ReplicasAreSound, ReplicasTyped
<1>2. Plan(r)' = Plan(r) /\ Len(Plan(r)) >= 2 /\ Len(Plan(r)) \in Nat
  BY <1>1, PlanIsOrdered DEF Plan
<1>3. Acquired(r)' = Acquired(r)
  BY <1>1 DEF Acquired
<1>4. Len(replicas[r].stack) \in Nat
  BY DEF ReplicasAreSound, ReplicasTyped, ReplicaState
<1>5. StackFollowsPlan(r)'
  BY <1>1, <1>2, <1>4, SMTT(30) DEF ReplicasAreSound, StackFollowsPlan, ReplicaAt
<1> QED BY <1>1, <1>3, <1>5

(* Users come and go under what is held.                                   *)
LEMMA UsersComeAndGo ==
  ASSUME ReplicasAreSound, NEW r \in Replicas, NEW new \in ReplicaState,
         replicas' = [replicas EXCEPT ![r] = new],
         UNCHANGED <<service, release, ledger, executed, locked>>,
         new.stack = replicas[r].stack, new.langfuse = replicas[r].langfuse,
         new.initialized = replicas[r].initialized, new.tx = replicas[r].tx,
         new.at \in {replicas[r].at, "closing"},
         new.active \subseteq Acquired(r), new.requests > 0 => "app" \in Acquired(r)
  PROVE  ReplicasAreSound'
<1>1. StackFollowsPlan(r)' /\ Acquired(r)' = Acquired(r) /\ replicas'[r] = new
  BY HoldingsStay
<1>2. UsersAreHeld(r)'
  BY <1>1 DEF UsersAreHeld
<1>3. new.at = "apply" => ReplicaAt(r, "apply") /\ new.tx = replicas[r].tx /\ UNCHANGED locked
  BY DEF ReplicaAt
<1> QED BY <1>1, <1>2, <1>3, ReplicaGoes

(* The passes, the requests and the signals: nobody works on what is not   *)
(* held.                                                                   *)
LEMMA UsersStaySound ==
  ASSUME ReplicasAreSound, NEW r \in Replicas,
         \/ \E l \in Loops : tick(r, l) \/ passEnds(r, l)
         \/ requestArrives(r) \/ requestEnds(r) \/ close(r) \/ stopLoop(r)
  PROVE  ReplicasAreSound'
<1> DEFINE old == replicas[r]
<1>0. /\ old \in ReplicaState
      /\ UNCHANGED <<service, release, ledger, executed, locked>>
      /\ old.active \subseteq Acquired(r) /\ (old.requests > 0 => "app" \in Acquired(r))
  BY DEF ReplicasAreSound, ReplicasTyped, UsersAreHeld, tick, passEnds, requestArrives,
         requestEnds, close, stopLoop
<1>1. ASSUME NEW l \in Loops, tick(r, l) \/ passEnds(r, l) PROVE ReplicasAreSound'
  <2>1. PICK active \in SUBSET Loops :
          /\ replicas' = [replicas EXCEPT ![r] = [old EXCEPT !.active = active]]
          /\ active \subseteq Acquired(r)
    <3>1. CASE tick(r, l)
      <4>1. /\ replicas' = [replicas EXCEPT ![r] = [old EXCEPT !.active = old.active \cup {l}]]
            /\ l \in Acquired(r)
        BY <3>1 DEF tick
      <4>2. old.active \cup {l} \in SUBSET Loops /\ old.active \cup {l} \subseteq Acquired(r)
        BY <1>0, <4>1 DEF ReplicaState
      <4> QED BY <4>1, <4>2
    <3>2. CASE passEnds(r, l)
      <4>1. replicas' = [replicas EXCEPT ![r] = [old EXCEPT !.active = old.active \ {l}]]
        BY <3>2 DEF passEnds
      <4>2. old.active \ {l} \in SUBSET Loops /\ old.active \ {l} \subseteq Acquired(r)
        BY <1>0 DEF ReplicaState
      <4> QED BY <4>1, <4>2
    <3> QED BY <1>1, <3>1, <3>2
  <2> DEFINE new == [old EXCEPT !.active = active]
  <2>2. /\ new \in ReplicaState /\ new.at = old.at /\ new.stack = old.stack
        /\ new.langfuse = old.langfuse /\ new.initialized = old.initialized
        /\ new.tx = old.tx /\ new.active = active /\ new.requests = old.requests
    BY <1>0 DEF ReplicaState
  <2>3. replicas' = [replicas EXCEPT ![r] = new]
    BY <2>1
  <2> HIDE DEF new
  <2> QED BY <1>0, <2>1, <2>2, <2>3, UsersComeAndGo
<1>2. CASE requestArrives(r) \/ requestEnds(r)
  <2>1. PICK requests \in {0, 1} :
          /\ replicas' = [replicas EXCEPT ![r] = [old EXCEPT !.requests = requests]]
          /\ requests > 0 => "app" \in Acquired(r)
    <3>1. CASE requestArrives(r)
      <4>1. "app" \in Acquired(r)
        <5>1. Len(old.stack) = Len(Plan(r)) /\ \A i \in 1..Len(old.stack) : old.stack[i] = Plan(r)[i]
          BY <3>1 DEF requestArrives, ReplicasAreSound, StackFollowsPlan
        <5>2. Len(old.stack) \in 1..Len(old.stack) /\ old.stack[Len(old.stack)] = "app"
          BY <5>1, PlanIsOrdered
        <5>3. DOMAIN old.stack = 1..Len(old.stack)
          BY <1>0 DEF ReplicaState
        <5> QED BY <5>2, <5>3 DEF Acquired
      <4> QED BY <3>1, <4>1 DEF requestArrives
    <3>2. CASE requestEnds(r)
      BY <3>2 DEF requestEnds
    <3> QED BY <1>2, <3>1, <3>2
  <2> DEFINE new == [old EXCEPT !.requests = requests]
  <2>2. /\ new \in ReplicaState /\ new.at = old.at /\ new.stack = old.stack
        /\ new.langfuse = old.langfuse /\ new.initialized = old.initialized
        /\ new.tx = old.tx /\ new.active = old.active /\ new.requests = requests
    BY <1>0 DEF ReplicaState
  <2>3. replicas' = [replicas EXCEPT ![r] = new]
    BY <2>1
  <2> HIDE DEF new
  <2> QED BY <1>0, <2>1, <2>2, <2>3, UsersComeAndGo
<1>3. CASE close(r)
  <2> DEFINE new == [old EXCEPT !.at = "closing"]
  <2>1. replicas' = [replicas EXCEPT ![r] = new]
    BY <1>3 DEF close
  <2>2. /\ new \in ReplicaState /\ new.at = "closing" /\ new.stack = old.stack
        /\ new.langfuse = old.langfuse /\ new.initialized = old.initialized
        /\ new.tx = old.tx /\ new.active = old.active /\ new.requests = old.requests
    BY <1>0 DEF ReplicaState
  <2> HIDE DEF new
  <2> QED BY <1>0, <2>1, <2>2, UsersComeAndGo
<1>4. CASE stopLoop(r)
  <2> DEFINE new == [old EXCEPT !.stopped = old.stopped \cup {Top(r)}]
  <2>1. replicas' = [replicas EXCEPT ![r] = new] /\ Top(r) \in Loops
    BY <1>4 DEF stopLoop
  <2>2. /\ new \in ReplicaState /\ new.at = old.at /\ new.stack = old.stack
        /\ new.langfuse = old.langfuse /\ new.initialized = old.initialized
        /\ new.tx = old.tx /\ new.active = old.active /\ new.requests = old.requests
    BY <1>0, <2>1 DEF ReplicaState
  <2> HIDE DEF new
  <2> QED BY <1>0, <2>1, <2>2, UsersComeAndGo
<1> QED BY <1>1, <1>2, <1>3, <1>4

(* A rollback leaves the schema as it was.                                 *)
LEMMA RollbackStaysSound ==
  ASSUME ReplicasAreSound, NEW r \in Replicas, ReplicaAt(r, "apply"), rollback(r),
         UNCHANGED <<service, release>>
  PROVE  ReplicasAreSound'
<1> DEFINE old == replicas[r]
           new == [old EXCEPT !.at = "closing", !.tx = <<>>]
<1>0. old \in ReplicaState
  BY DEF ReplicasAreSound, ReplicasTyped
<1>1. replicas' = [replicas EXCEPT ![r] = new] /\ UNCHANGED <<ledger, executed>>
  BY <1>0 DEF rollback, ReplicaState, ReplicasAreSound, ReplicasTyped
<1>2. /\ new \in ReplicaState /\ new.at = "closing" /\ new.stack = old.stack
      /\ new.langfuse = old.langfuse /\ new.initialized = old.initialized
      /\ new.active = old.active /\ new.requests = old.requests
  <2>1. <<>> \in Seq(Versions)
    OBVIOUS
  <2> QED BY <1>0, <2>1 DEF ReplicaState
<1> HIDE DEF new
<1>3. StackFollowsPlan(r)' /\ Acquired(r)' = Acquired(r) /\ replicas'[r] = new
  BY <1>1, <1>2, HoldingsStay
<1>4. UsersAreHeld(r)'
  BY <1>2, <1>3 DEF ReplicasAreSound, UsersAreHeld
<1>5. \A q \in Replicas \ {r} : locked # {q}
  BY DEF ReplicasAreSound, TransactionIsOwn
<1> QED BY <1>1, <1>2, <1>3, <1>4, <1>5, ReplicaGoes

(* The lock, and a version applied in the open transaction.                *)
LEMMA TransactionStaysSound ==
  ASSUME ReplicasAreSound, NEW r \in Replicas,
         lockSchema(r) \/ refuseSchema(r) \/ applyVersion(r)
  PROVE  ReplicasAreSound'
<1> DEFINE old == replicas[r]
<1>0. old \in ReplicaState /\ release[r] \in Seq(Versions) /\ ledger \in Seq(Versions)
  BY DEF ReplicasAreSound, ReplicasTyped
<1>1. CASE lockSchema(r)
  <2> DEFINE new == [old EXCEPT !.at = "apply", !.tx = <<>>]
  <2>1. /\ replicas' = [replicas EXCEPT ![r] = new] /\ ReplicaAt(r, "lock")
        /\ UNCHANGED <<service, release, ledger, executed>> /\ locked = {} /\ locked' = {r}
    BY <1>0, <1>1 DEF lockSchema, ReplicaState, ReplicasAreSound, ReplicasTyped
  <2>2. /\ new \in ReplicaState /\ new.at = "apply" /\ new.stack = old.stack
        /\ new.langfuse = old.langfuse /\ new.initialized = old.initialized
        /\ new.active = old.active /\ new.requests = old.requests /\ new.tx = <<>>
    <3>1. <<>> \in Seq(Versions)
      OBVIOUS
    <3> QED BY <1>0, <3>1 DEF ReplicaState
  <2> HIDE DEF new
  <2>3. StackFollowsPlan(r)' /\ Acquired(r)' = Acquired(r) /\ replicas'[r] = new
    BY <2>1, <2>2, HoldingsStay
  <2>4. UsersAreHeld(r)'
    BY <2>2, <2>3 DEF ReplicasAreSound, UsersAreHeld
  <2>5. \A q \in Replicas \ {r} : locked # {q}
    BY <2>1
  <2> QED BY <2>1, <2>2, <2>3, <2>4, <2>5, ReplicaGoes
<1>2. CASE refuseSchema(r)
  BY <1>2, RollbackStaysSound DEF refuseSchema
<1>3. CASE applyVersion(r)
  <2> DEFINE v == Len(ledger) + Len(old.tx) + 1
             tx == Append(old.tx, release[r][v])
             new == [old EXCEPT !.tx = tx]
  <2>1. CASE rollback(r)
    BY <1>3, <2>1, RollbackStaysSound DEF applyVersion
  <2>2. CASE ~rollback(r)
    <3>1. /\ replicas' = [replicas EXCEPT ![r] = new] /\ ReplicaAt(r, "apply")
          /\ UNCHANGED <<service, release, ledger, executed, locked>> /\ v <= Len(release[r])
      BY <1>3, <2>2 DEF applyVersion
    <3>2. /\ old.tx \in Seq(Versions) /\ Len(old.tx) \in Nat /\ Len(ledger) \in Nat
          /\ Len(release[r]) \in Nat /\ v \in 1..Len(release[r]) /\ release[r][v] \in Versions
      BY <1>0, <3>1 DEF ReplicaState
    <3>3. /\ tx \in Seq(Versions) /\ Len(tx) = Len(old.tx) + 1
          /\ tx[Len(old.tx) + 1] = release[r][v]
          /\ \A i \in 1..Len(old.tx) : tx[i] = old.tx[i]
      BY <3>2
    <3> HIDE DEF tx
    <3>4. /\ new \in ReplicaState /\ new.at = old.at /\ new.stack = old.stack
          /\ new.langfuse = old.langfuse /\ new.initialized = old.initialized
          /\ new.active = old.active /\ new.requests = old.requests /\ new.tx = tx
      BY <1>0, <3>3 DEF ReplicaState
    <3> HIDE DEF new
    <3>5. StackFollowsPlan(r)' /\ Acquired(r)' = Acquired(r) /\ replicas'[r] = new
      BY <3>1, <3>4, HoldingsStay
    <3>6. UsersAreHeld(r)'
      BY <3>4, <3>5 DEF ReplicasAreSound, UsersAreHeld
    <3>7. SchemaIsKnown(r)'
      BY <3>1, <3>4, <3>5 DEF ReplicasAreSound, SchemaIsKnown
    <3>8. TransactionIsOwn(r)'
      <4>1. /\ locked = {r}
            /\ \A i \in 1..Len(old.tx) : old.tx[i] = release[r][Len(ledger) + i]
        BY <3>1 DEF ReplicasAreSound, TransactionIsOwn
      <4>2. ASSUME NEW i \in 1..Len(tx) PROVE tx[i] = release[r][Len(ledger) + i]
        <5>1. CASE i = Len(old.tx) + 1
          <6>1. Len(ledger) + i = v
            BY <3>2, <5>1
          <6> QED BY <3>3, <5>1, <6>1
        <5>2. CASE i \in 1..Len(old.tx)
          BY <3>3, <4>1, <5>2
        <5>3. i \in 1..(Len(old.tx) + 1)
          BY <3>3, <4>2
        <5>4. i = Len(old.tx) + 1 \/ i \in 1..Len(old.tx)
          BY <3>2, <5>3
        <5> QED BY <5>1, <5>2, <5>4
      <4>3. Len(ledger) + Len(tx) <= Len(release[r])
        BY <3>1, <3>2, <3>3
      <4>4. replicas'[r].tx = tx /\ locked' = {r} /\ ledger' = ledger /\ release' = release
        BY <3>1, <3>4, <3>5, <4>1
      <4>5. \A i \in 1..Len(tx) : tx[i] = release[r][Len(ledger) + i]
        BY <4>2
      <4> HIDE DEF v
      <4> QED BY <4>3, <4>4, <4>5 DEF TransactionIsOwn
    <3>9. /\ ledger' \in Seq(Versions) /\ executed' = ledger' /\ Len(ledger) <= Len(ledger')
          /\ \A i \in 1..Len(ledger) : ledger'[i] = ledger[i]
      BY <3>1, <3>2 DEF ReplicasAreSound, ReplicasTyped
    <3> QED BY <3>1, <3>4, <3>5, <3>6, <3>7, <3>8, <3>9, OthersStaySound
  <2> QED BY <2>1, <2>2
<1> QED BY <1>1, <1>2, <1>3

(* A commit extends the ledger to the versions of its replica, which       *)
(* compared the earlier ones under the lock.                               *)
LEMMA CommitStaysSound ==
  ASSUME ReplicasAreSound, NEW r \in Replicas, commitSchema(r)
  PROVE  ReplicasAreSound'
<1> DEFINE old == replicas[r]
           new == [old EXCEPT !.at = "compose", !.tx = <<>>, !.initialized = TRUE]
<1>0. /\ old \in ReplicaState /\ release[r] \in Seq(Versions) /\ ledger \in Seq(Versions)
      /\ old.tx \in Seq(Versions) /\ executed = ledger
  BY DEF ReplicasAreSound, ReplicasTyped, ReplicaState
<1>1. /\ replicas' = [replicas EXCEPT ![r] = new] /\ ReplicaAt(r, "apply") /\ Applicable(r)
      /\ UNCHANGED <<service, release>>
      /\ ledger' = ledger \o old.tx /\ executed' = executed \o old.tx
      /\ Len(ledger) + Len(old.tx) >= Len(release[r])
  BY <1>0 DEF commitSchema, ReplicaState, ReplicasAreSound, ReplicasTyped
<1>2. /\ new \in ReplicaState /\ new.at = "compose" /\ new.stack = old.stack
      /\ new.langfuse = old.langfuse /\ new.initialized
      /\ new.active = old.active /\ new.requests = old.requests
  <2>1. <<>> \in Seq(Versions)
    OBVIOUS
  <2> QED BY <1>0, <2>1 DEF ReplicaState
<1> HIDE DEF new
<1>3. StackFollowsPlan(r)' /\ Acquired(r)' = Acquired(r) /\ replicas'[r] = new
  BY <1>1, <1>2, HoldingsStay
<1>4. UsersAreHeld(r)'
  BY <1>2, <1>3 DEF ReplicasAreSound, UsersAreHeld
<1>5. /\ ledger' \in Seq(Versions) /\ executed' = ledger'
      /\ Len(ledger') = Len(ledger) + Len(old.tx) /\ Len(ledger) <= Len(ledger')
      /\ \A v \in 1..Len(ledger) : ledger'[v] = ledger[v]
      /\ \A i \in 1..Len(old.tx) : ledger'[Len(ledger) + i] = old.tx[i]
  BY <1>0, <1>1
<1>6. /\ locked = {r}
      /\ \A i \in 1..Len(old.tx) : old.tx[i] = release[r][Len(ledger) + i]
  BY <1>1 DEF ReplicasAreSound, TransactionIsOwn
<1>7. ASSUME NEW v \in 1..Len(release[r]) PROVE ledger'[v] = release[r][v]
  <2>1. CASE v <= Len(ledger)
    <3>1. v \in 1..Len(ledger)
      BY <1>0, <2>1
    <3>2. ledger[v] = release[r][v]
      BY <1>0, <1>1, <1>7, <3>1 DEF Applicable, Mismatch
    <3> QED BY <1>5, <3>1, <3>2
  <2>2. CASE v > Len(ledger)
    <3>1. v - Len(ledger) \in 1..Len(old.tx) /\ Len(ledger) + (v - Len(ledger)) = v
      BY <1>0, <1>1, <1>7, <2>2
    <3> QED BY <1>5, <1>6, <3>1
  <2> QED BY <1>0, <2>1, <2>2
<1>8. SchemaIsKnown(r)'
  BY <1>0, <1>1, <1>3, <1>5, <1>7 DEF SchemaIsKnown
<1>9. TransactionIsOwn(r)'
  BY <1>2, <1>3 DEF TransactionIsOwn, ReplicaAt
<1>10. \A q \in Replicas \ {r} : locked # {q}
  BY <1>6
<1> QED BY <1>1, <1>2, <1>3, <1>4, <1>5, <1>8, <1>9, <1>10, OthersStaySound

(* A replica acquires the next thing of its plan, or gives up.             *)
LEMMA CompositionStaysSound ==
  ASSUME ReplicasAreSound, NEW r \in Replicas, startReviewRunsServer(r)
  PROVE  ReplicasAreSound'
<1> DEFINE old == replicas[r]
           n == Len(old.stack)
           next == Plan(r)[n + 1]
           held == Append(old.stack, next)
<1>0. /\ old \in ReplicaState /\ old.stack \in Seq(Resources) /\ n \in Nat
      /\ old.at = "compose" /\ UNCHANGED <<service, release, ledger, executed, locked>>
      /\ 1 <= n /\ n < Len(Plan(r)) /\ old.initialized
      /\ \A i \in 1..n : old.stack[i] = Plan(r)[i]
      /\ old.active \subseteq Acquired(r) /\ (old.requests > 0 => "app" \in Acquired(r))
  BY DEF startReviewRunsServer, ReplicasAreSound, ReplicasTyped, ReplicaState, ReplicaAt,
         StackFollowsPlan, UsersAreHeld
<1>1. CASE replicas' = [replicas EXCEPT ![r].at = "closing"]
  <2> DEFINE new == [old EXCEPT !.at = "closing"]
  <2>1. replicas' = [replicas EXCEPT ![r] = new]
    BY <1>1
  <2>2. /\ new \in ReplicaState /\ new.at = "closing" /\ new.stack = old.stack
        /\ new.langfuse = old.langfuse /\ new.initialized = old.initialized
        /\ new.tx = old.tx /\ new.active = old.active /\ new.requests = old.requests
    BY <1>0 DEF ReplicaState
  <2> HIDE DEF new
  <2> QED BY <1>0, <2>1, <2>2, UsersComeAndGo
<1>2. CASE replicas' # [replicas EXCEPT ![r].at = "closing"]
  <2> DEFINE at == IF next = "app" THEN "serving" ELSE "compose"
             new == [old EXCEPT !.stack = held, !.at = at]
  <2>1. replicas' = [replicas EXCEPT ![r] = new]
    BY <1>0, <1>2 DEF startReviewRunsServer, ReplicaState, ReplicasAreSound, ReplicasTyped
  <2>2. /\ n + 1 \in 1..Len(Plan(r)) /\ next \in Resources /\ Len(Plan(r)) \in Nat
        /\ next = "app" <=> n + 1 = Len(Plan(r))
    BY <1>0, PlanIsOrdered
  <2>3. /\ held \in Seq(Resources) /\ Len(held) = n + 1
        /\ held[n + 1] = next /\ \A i \in 1..n : held[i] = old.stack[i]
    BY <1>0, <2>2
  <2>4. \A i \in 1..Len(held) : held[i] = Plan(r)[i]
    <3>1. ASSUME NEW i \in 1..(n + 1) PROVE i = n + 1 \/ i \in 1..n
      BY <1>0, <3>1
    <3> QED BY <1>0, <2>3, <3>1
  <2> HIDE DEF held, next
  <2>5. /\ new \in ReplicaState /\ new.at = at /\ new.stack = held
        /\ new.langfuse = old.langfuse /\ new.initialized = old.initialized
        /\ new.active = old.active /\ new.requests = old.requests
    BY <1>0, <2>3 DEF ReplicaState
  <2>6. at \in {"serving", "compose"} /\ (at = "serving" <=> n + 1 = Len(Plan(r)))
    BY <2>2
  <2> HIDE DEF new, at
  <2>7. replicas'[r] = new
    BY <2>1 DEF ReplicasAreSound, ReplicasTyped
  <2>8. Plan(r)' = Plan(r)
    BY <1>0, <2>5, <2>7 DEF Plan
  <2>9. StackFollowsPlan(r)'
    <3>1. Len(held) <= Len(Plan(r)) /\ 1 <= Len(held)
      BY <1>0, <2>2, <2>3
    <3>2. at = "compose" => Len(held) < Len(Plan(r))
      BY <1>0, <2>2, <2>3, <2>6
    <3>3. at = "serving" => Len(held) = Len(Plan(r))
      BY <2>3, <2>6
    <3> QED BY <1>0, <2>4, <2>5, <2>6, <2>7, <2>8, <3>1, <3>2, <3>3
            DEF StackFollowsPlan, ReplicaAt
  <2>10. Acquired(r) \subseteq Acquired(r)'
    <3>1. Acquired(r) = {old.stack[i] : i \in 1..n}
      BY <1>0 DEF Acquired
    <3>2. Acquired(r)' = {held[i] : i \in 1..(n + 1)}
      BY <2>3, <2>5, <2>7 DEF Acquired
    <3>3. 1..n \subseteq 1..(n + 1)
      BY <1>0
    <3> QED BY <2>3, <3>1, <3>2, <3>3
  <2>11. UsersAreHeld(r)'
    BY <1>0, <2>5, <2>7, <2>10 DEF UsersAreHeld
  <2>12. new.at # "apply"
    BY <2>5, <2>6
  <2> QED BY <1>0, <2>1, <2>5, <2>9, <2>11, <2>12, ReplicaGoes
<1> QED BY <1>1, <1>2

(* What was acquired last is released first, when nobody uses it.          *)
LEMMA DisposalStaysSound ==
  ASSUME ReplicasAreSound, NEW r \in Replicas, disposeAsync(r)
  PROVE  ReplicasAreSound'
<1> DEFINE old == replicas[r]
           n == Len(old.stack)
<1>0. /\ old \in ReplicaState /\ old.stack \in Seq(Resources) /\ n \in Nat
      /\ old.at = "closing" /\ UNCHANGED <<service, release, ledger, executed, locked>>
      /\ n <= Len(Plan(r)) /\ (n > 1 => old.initialized)
      /\ \A i \in 1..n : old.stack[i] = Plan(r)[i]
      /\ old.active \subseteq Acquired(r) /\ (old.requests > 0 => "app" \in Acquired(r))
  BY DEF disposeAsync, ReplicasAreSound, ReplicasTyped, ReplicaState, ReplicaAt,
         StackFollowsPlan, UsersAreHeld
<1>1. CASE old.stack = <<>>
  <2> DEFINE new == [old EXCEPT !.at = "exited"]
  <2>1. replicas' = [replicas EXCEPT ![r] = new] /\ n = 0
    BY <1>1 DEF disposeAsync
  <2>2. /\ new \in ReplicaState /\ new.at = "exited" /\ new.stack = old.stack
        /\ new.langfuse = old.langfuse /\ new.initialized = old.initialized
        /\ new.active = old.active /\ new.requests = old.requests
    BY <1>0 DEF ReplicaState
  <2> HIDE DEF new
  <2>3. replicas'[r] = new
    BY <2>1 DEF ReplicasAreSound, ReplicasTyped
  <2>4. Plan(r)' = Plan(r) /\ Acquired(r)' = Acquired(r)
    BY <1>0, <2>2, <2>3 DEF Plan, Acquired
  <2>5. StackFollowsPlan(r)'
    BY <1>0, <2>1, <2>2, <2>3, <2>4 DEF StackFollowsPlan, ReplicaAt
  <2>6. UsersAreHeld(r)'
    BY <1>0, <2>2, <2>3, <2>4 DEF UsersAreHeld
  <2> QED BY <1>0, <2>1, <2>2, <2>5, <2>6, ReplicaGoes
<1>2. CASE old.stack # <<>>
  <2> DEFINE held == SubSeq(old.stack, 1, n - 1)
             new == [old EXCEPT !.stack = held]
  <2>1. replicas' = [replicas EXCEPT ![r] = new] /\ Released(r) /\ n > 0
    BY <1>0, <1>2 DEF disposeAsync
  <2>2. /\ held \in Seq(Resources) /\ Len(held) = n - 1
        /\ \A i \in 1..(n - 1) : held[i] = old.stack[i]
    BY <1>0, <2>1
  <2> HIDE DEF held
  <2>3. /\ new \in ReplicaState /\ new.at = "closing" /\ new.stack = held
        /\ new.langfuse = old.langfuse /\ new.initialized = old.initialized
        /\ new.active = old.active /\ new.requests = old.requests
    BY <1>0, <2>2 DEF ReplicaState
  <2> HIDE DEF new
  <2>4. replicas'[r] = new
    BY <2>1 DEF ReplicasAreSound, ReplicasTyped
  <2>5. Plan(r)' = Plan(r)
    BY <1>0, <2>3, <2>4 DEF Plan
  <2>6. StackFollowsPlan(r)'
    <3>1. \A i \in 1..Len(held) : held[i] = Plan(r)[i]
      BY <1>0, <2>1, <2>2
    <3>2. Len(held) <= Len(Plan(r)) /\ (Len(held) > 1 => old.initialized)
      BY <1>0, <2>1, <2>2, PlanIsOrdered
    <3> QED BY <2>3, <2>4, <2>5, <3>1, <3>2 DEF StackFollowsPlan, ReplicaAt
  <2>7. Acquired(r) = {old.stack[i] : i \in 1..n}
    BY <1>0 DEF Acquired
  <2>8. Acquired(r)' = {held[i] : i \in 1..(n - 1)}
    BY <2>2, <2>3, <2>4 DEF Acquired
  <2>9. \A x \in Acquired(r) : x = Top(r) \/ x \in Acquired(r)'
    <3>1. ASSUME NEW i \in 1..n PROVE i = n \/ i \in 1..(n - 1)
      BY <1>0, <3>1
    <3> QED BY <2>2, <2>7, <2>8, <3>1 DEF Top
  <2>10. UsersAreHeld(r)'
    <3>1. Top(r) \notin old.active
      BY <1>0, <2>1 DEF Released, ReplicaState, Loops
    <3>2. old.requests > 0 => Top(r) # "app"
      BY <1>0, <2>1 DEF Released, ReplicaState, Loops
    <3> QED BY <1>0, <2>3, <2>4, <2>9, <3>1, <3>2 DEF UsersAreHeld
  <2>11. new.at # "apply"
    BY <2>3
  <2> QED BY <1>0, <2>1, <2>3, <2>6, <2>10, <2>11, ReplicaGoes
<1> QED BY <1>1, <1>2

(* Every step of the replicas, and of anything else.                       *)
LEMMA ReplicasStaySound ==
  ReplicasAreSound /\ [StartupNext]_startVars => ReplicasAreSound'
<1> SUFFICES ASSUME ReplicasAreSound, [StartupNext]_startVars PROVE ReplicasAreSound'
  OBVIOUS
<1>1. CASE ReplicasNext
  <2>1. PICK r \in Replicas :
          \/ ReplicaProceeds(r) \/ requestArrives(r) \/ close(r) \/ crash(r)
          \/ \E langfuse \in BOOLEAN : readConfiguration(r, langfuse)
          \/ \E l \in Loops : tick(r, l) \/ passEnds(r, l)
    BY <1>1 DEF ReplicasNext
  <2> QED BY <2>1, EmptyReplicasAreSound, UsersStaySound, TransactionStaysSound,
             CommitStaysSound, CompositionStaysSound, DisposalStaysSound DEF ReplicaProceeds
<1>2. CASE UNCHANGED <<service, release, ledger, executed, locked, replicas>>
  BY <1>2 DEF ReplicasAreSound, ReplicasTyped, StackFollowsPlan, UsersAreHeld, SchemaIsKnown,
              TransactionIsOwn, Plan, Acquired, ReplicaAt
<1>3. IntegrationNext \/ UNCHANGED startVars
        => UNCHANGED <<service, release, ledger, executed, locked, replicas>>
  BY DEF IntegrationNext, AppProceeds, AppVars, startVars, verifyStart, startCoordinators,
         coordinatorTick, coordinatorPassEnds, webhookArrives, startAndWaitForAdmission,
         admitted, settled, shutdown, stopBackground, shutdownCompletes
<1> QED BY <1>1, <1>2, <1>3 DEF StartupNext

(* Every step of the integration, and of anything else.                    *)
LEMMA IntegrationStaysSound ==
  IntegrationIsSound /\ [StartupNext]_startVars => IntegrationIsSound'
<1> SUFFICES ASSUME IntegrationIsSound, [StartupNext]_startVars PROVE IntegrationIsSound'
  OBVIOUS
<1> USE DEF IntegrationIsSound
<1>1. CASE verifyStart \/ startCoordinators \/ shutdown
  BY <1>1 DEF verifyStart, startCoordinators, shutdown, ServerIsClosed, HandlerIsOpen, Tracked
<1>2. ASSUME NEW c \in Coordinators, coordinatorTick(c) \/ coordinatorPassEnds(c)
      PROVE  IntegrationIsSound'
  BY <1>2 DEF coordinatorTick, coordinatorPassEnds, ServerIsClosed, HandlerIsOpen, Tracked
<1>3. ASSUME NEW e \in Events, webhookArrives(e) PROVE IntegrationIsSound'
  BY <1>3 DEF webhookArrives, ServerIsClosed, HandlerIsOpen, Tracked
<1>4. ASSUME NEW e \in Events, startAndWaitForAdmission(e) PROVE IntegrationIsSound'
  BY <1>4 DEF startAndWaitForAdmission, ServerIsClosed, HandlerIsOpen, Tracked
<1>5. ASSUME NEW e \in Events, admitted(e) PROVE IntegrationIsSound'
  BY <1>5 DEF admitted, ServerIsClosed, HandlerIsOpen, Tracked
<1>6. ASSUME NEW e \in Events, settled(e) PROVE IntegrationIsSound'
  BY <1>6 DEF settled, ServerIsClosed, HandlerIsOpen, Tracked
<1>7. CASE stopBackground
  BY <1>7 DEF stopBackground, ServerIsClosed, HandlerIsOpen, Tracked
<1>8. CASE shutdownCompletes
  BY <1>8 DEF shutdownCompletes, ServerIsClosed, HandlerIsOpen, Tracked
<1>9. CASE UNCHANGED <<app, work>>
  BY <1>9 DEF ServerIsClosed, HandlerIsOpen, Tracked
<1>10. ReplicasNext \/ UNCHANGED startVars => UNCHANGED <<app, work>>
  BY ZenonT(30) DEF ReplicasNext, ReplicaProceeds, startVars, openStore, lockSchema, refuseSchema,
         applyVersion, commitSchema, startReviewRunsServer, requestEnds, stopLoop,
         disposeAsync, requestArrives, close, crash, readConfiguration, tick, passEnds
<1> QED BY <1>1, <1>2, <1>3, <1>4, <1>5, <1>6, <1>7, <1>8, <1>9, <1>10
        DEF StartupNext, IntegrationNext, AppProceeds

(* The invariants say that processes start and stop soundly.               *)
LEMMA ProcessesHoldWhatTheyUse == ReplicasAreSound /\ IntegrationIsSound => ProcessesAreSound
<1> SUFFICES ASSUME ReplicasAreSound, IntegrationIsSound PROVE ProcessesAreSound
  OBVIOUS
<1>1. SchemaIsSound
  <2>1. ASSUME NEW r \in Replicas, checkLedger(r) PROVE ledger = release[r]
    <3>1. /\ ledger \in Seq(Versions) /\ release[r] \in Seq(Versions)
          /\ Len(ledger) = Len(release[r])
          /\ \A v \in 1..Len(release[r]) : ledger[v] = release[r][v]
      BY <2>1 DEF checkLedger, ReplicasAreSound, ReplicasTyped, SchemaIsKnown
    <3> QED BY <3>1
  <2> QED BY <2>1 DEF SchemaIsSound, ReplicasAreSound, ReplicasTyped, SchemaIsKnown
<1>2. ASSUME NEW r \in Replicas
      PROVE  /\ \A l \in replicas[r].active :
                   StoreOf(l) \in Acquired(r) /\ replicas[r].initialized
             /\ replicas[r].requests > 0 => "store" \in Acquired(r) /\ replicas[r].initialized
  <2> DEFINE held == replicas[r].stack
  <2>0. /\ held \in Seq(Resources) /\ Len(held) \in Nat /\ DOMAIN held = 1..Len(held)
        /\ Len(held) <= Len(Plan(r)) /\ \A i \in 1..Len(held) : held[i] = Plan(r)[i]
        /\ Len(held) > 1 => replicas[r].initialized
    BY DEF ReplicasAreSound, ReplicasTyped, ReplicaState, StackFollowsPlan
  <2>1. ASSUME NEW x \in Acquired(r), x # "store"
        PROVE  "store" \in Acquired(r) /\ replicas[r].initialized
    <3>1. PICK i \in 1..Len(held) : x = held[i]
      BY <2>0, <2>1 DEF Acquired
    <3>2. held[1] = "store" /\ 1 \in 1..Len(held) /\ i # 1
      BY <2>0, <2>1, <3>1, PlanIsOrdered
    <3> QED BY <2>0, <3>1, <3>2 DEF Acquired
  <2>2. "statistics" \in Acquired(r) => "statistics_store" \in Acquired(r)
    <3>1. SUFFICES ASSUME NEW i \in 1..Len(held), held[i] = "statistics"
                   PROVE  "statistics_store" \in Acquired(r)
      BY <2>0 DEF Acquired
    <3>2. i > 1 /\ Plan(r)[i - 1] = "statistics_store"
      BY <2>0, <3>1, PlanIsOrdered, SMTT(30)
    <3>3. i - 1 \in 1..Len(held)
      BY <2>0, <3>1, <3>2
    <3> QED BY <2>0, <3>2, <3>3 DEF Acquired
  <2>3. replicas[r].active \subseteq Acquired(r) \cap Loops
    BY DEF ReplicasAreSound, ReplicasTyped, ReplicaState, UsersAreHeld
  <2>4. replicas[r].requests > 0 => "app" \in Acquired(r)
    BY DEF ReplicasAreSound, UsersAreHeld
  <2> QED BY <2>1, <2>2, <2>3, <2>4 DEF StoreOf, Loops
<1>3. StartedWorkIsAwaited
  BY DEF IntegrationIsSound, StartedWorkIsAwaited
<1> QED BY <1>1, <1>2, <1>3 DEF ProcessesAreSound, StoresOutliveTheirUsers

(* Processes start and stop soundly, for any number of replicas, releases  *)
(* and events, crashes and failing steps: the ledger tells what was        *)
(* executed, an initialized replica has its release's schema, nobody works *)
(* on a pool that is closed, and a completed shutdown left nothing behind  *)
(* (schema-version-runner.ts, server-runtime.ts, app.ts).                  *)
THEOREM ProcessesAlwaysSound == StartupSpec => []ProcessesAreSound
<1>1. StartupInit => ReplicasAreSound
  <2> SUFFICES ASSUME StartupInit PROVE ReplicasAreSound
    OBVIOUS
  <2>1. ReplicasTyped
    <3>1. <<>> \in Seq(Resources) /\ <<>> \in Seq(Versions)
      OBVIOUS
    <3>2. NotStarted \in ReplicaState
      BY <3>1 DEF NotStarted, ReplicaState
    <3>3. release \in [Replicas -> Seq(Versions)]
      BY ReleasesAreSequences DEF StartupInit
    <3> QED BY <3>1, <3>2, <3>3 DEF StartupInit, ReplicasTyped
  <2>2. ASSUME NEW r \in Replicas
        PROVE  /\ StackFollowsPlan(r) /\ UsersAreHeld(r)
               /\ SchemaIsKnown(r) /\ TransactionIsOwn(r)
    <3>1. /\ replicas[r].at = "off" /\ Len(replicas[r].stack) = 0 /\ replicas[r].active = {}
          /\ replicas[r].requests = 0 /\ ~replicas[r].initialized
      BY DEF StartupInit, NotStarted
    <3> QED BY <3>1, PlanIsOrdered DEF StackFollowsPlan, UsersAreHeld, SchemaIsKnown,
                                       TransactionIsOwn, ReplicaAt
  <2> QED BY <2>1, <2>2 DEF ReplicasAreSound
<1>2. StartupInit => IntegrationIsSound
  BY DEF StartupInit, IntegrationIsSound
<1> QED BY <1>1, <1>2, ReplicasStaySound, IntegrationStaysSound, ProcessesHoldWhatTheyUse, PTL
        DEF StartupSpec

=============================================================================
