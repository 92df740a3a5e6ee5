----------------------------- MODULE RunNotices -----------------------------
(***************************************************************************)
(* The delivery of run notices: the queue in Review Runs                   *)
(* (persistence/run-notices.ts) and the integration's workers that claim a *)
(* notice, find where it belongs and post one comment for it               *)
(* (review-runs/run-notice-coordinator.ts, -claim.ts, -reply.ts).          *)
(*                                                                         *)
(* GitHub keeps the comments with the marker of a notice, each in the      *)
(* issue it was posted to: 0 is the notice's own conversation, and k the   *)
(* k-th summary issue of the scanned repository.  Issues are opened and    *)
(* never closed here.  A lease that runs out lets another worker claim the *)
(* notice while the first still works; a renewal succeeds as long as no    *)
(* one else claimed.  A write lands within the lease its assertion renews.  *)
(***************************************************************************)
EXTENDS Naturals, FiniteSets

CONSTANTS
    Null,
    Notices, Workers,
    Inputs,         \* where the notices belong and what kinds of notice they
                    \* may be: functions to [kind, repo, raises]
    MaxFaults,      \* bound on failing GitHub and Review Runs calls
    MaxOvertakes,   \* bound on leases that run out under a working holder
    MaxTokens       \* bound on claims of a notice

\* A scan's input names the repository it scans.
ASSUME ScansNameARepository ==
    \A i \in Inputs, n \in Notices : i[n].kind = "scan" => i[n].repo # Null

VARIABLES
    targets,        \* what the runs' stored inputs say of each notice
    notices,        \* run_notices
    expired,        \* notices whose lease has run out
    workers,        \* the integration's deliveries
    comments,       \* the comments that carry a notice's marker
    summaries,      \* per repository, how many summary issues it has
    faults, overtakes

noticeVars == <<targets, notices, expired, workers, comments, summaries, faults, overtakes>>

Repos == {i[n].repo : i \in Inputs, n \in Notices} \ {Null}

Idle == [at |-> "idle", notice |-> Null, token |-> 0, issue |-> 0, url |-> Null]

Holds(w) == /\ notices[workers[w].notice].status = "delivering"
            /\ notices[workers[w].notice].token = workers[w].token

At(w, at) == workers[w].at = at
Go(w, at) == workers' = [workers EXCEPT ![w].at = at]
Target(w) == targets[workers[w].notice]

\* What a worker posts; it posts once under a token.
Comment(w) == [notice |-> workers[w].notice, issue |-> workers[w].issue,
               token |-> workers[w].token]
Told(n) == {c \in comments : c.notice = n}

-----------------------------------------------------------------------------
(***************************************************************************)
(* The queue                                                               *)
(***************************************************************************)

\* The run's decision queues it in the transaction of the decision.
queueRunNotice(n, kind) ==
    /\ notices[n].status = "none" /\ kind \in targets[n].raises
    /\ notices' = [notices EXCEPT ![n].status = "pending", ![n].kind = kind]
    /\ UNCHANGED <<targets, expired, workers, comments, summaries, faults, overtakes>>

\* An operator resumed the run it speaks of.
supersedeRunAttentionNotices(n) ==
    /\ notices[n].kind = "attention"
    /\ notices[n].status \in {"pending", "delivering"}
    /\ notices' = [notices EXCEPT ![n].status = "superseded", ![n].token = 0]
    /\ UNCHANGED <<targets, expired, workers, comments, summaries, faults, overtakes>>

\* Mutant: a delivery whose holder was lost is never claimed again.
Deliverable_PendingOnly(n) == notices[n].status = "pending"

Deliverable(n) == \/ notices[n].status = "pending"
                  \/ notices[n].status = "delivering" /\ n \in expired

claimNext(w, n) ==
    /\ At(w, "idle") /\ Deliverable(n)
    /\ notices[n].issued < MaxTokens
    /\ notices' = [notices EXCEPT ![n].status = "delivering",
                                  ![n].token = notices[n].issued + 1,
                                  ![n].issued = @ + 1]
    /\ expired' = expired \ {n}
    /\ workers' = [workers EXCEPT ![w] = [at |-> "heartbeat", notice |-> n,
                                          token |-> notices[n].issued + 1, issue |-> 0,
                                          url |-> Null]]
    /\ UNCHANGED <<targets, comments, summaries, faults, overtakes>>

Working(n) == \E w \in Workers : ~At(w, "idle") /\ workers[w].notice = n /\ Holds(w)
Writing(n) == \E w \in Workers : workers[w].notice = n /\ workers[w].at \in {"open", "post"}

\* Nobody renews the lease any more, or its holder is cut off.
LeaseRunsOut(n) ==
    /\ notices[n].status = "delivering" /\ n \notin expired
    /\ IF Working(n)
       THEN ~Writing(n) /\ overtakes < MaxOvertakes /\ overtakes' = overtakes + 1
       ELSE UNCHANGED overtakes
    /\ expired' = expired \cup {n}
    /\ UNCHANGED <<targets, notices, workers, comments, summaries, faults>>

-----------------------------------------------------------------------------
(***************************************************************************)
(* A delivery                                                              *)
(***************************************************************************)
Leave(w) == workers' = [workers EXCEPT ![w] = Idle]

\* The error handler: a transient fault leaves the notice to its lease.
Abandon(w) == Leave(w) /\ UNCHANGED <<notices, expired>>

complete(w, delivered) ==
    /\ Leave(w)
    /\ IF Holds(w)
       THEN notices' = [notices EXCEPT ![workers[w].notice].status =
                            IF delivered THEN "delivered" ELSE "failed",
                        ![workers[w].notice].token = 0,
                        ![workers[w].notice].url = workers[w].url]
       ELSE UNCHANGED notices
    /\ UNCHANGED expired

\* Mutant: a renewal does not ask whose claim it is.
renewClaim_AnyClaim(w, next) ==
    /\ Go(w, next)
    /\ expired' = expired \ {workers[w].notice}
    /\ UNCHANGED notices

\* assertOwned: the holder renews its lease, or stops.
renewClaim(w, next) ==
    IF Holds(w)
    THEN /\ Go(w, next)
         /\ expired' = expired \ {workers[w].notice}
         /\ UNCHANGED notices
    ELSE Abandon(w)

startRunNoticeClaimHeartbeat(w) ==
    /\ At(w, "heartbeat")
    /\ renewClaim(w, "resolve")
    /\ UNCHANGED <<targets, comments, summaries, faults, overtakes>>

\* replyTarget, repositoryScope: a conversation, a scanned repository, or
\* nowhere, which is a failed delivery.
resolveTarget(w) ==
    /\ At(w, "resolve")
    /\ CASE Target(w).kind = "none" -> complete(w, FALSE)
         [] Target(w).kind # "none" -> Go(w, "installed") /\ UNCHANGED <<notices, expired>>
    /\ UNCHANGED <<targets, comments, summaries, faults, overtakes>>

assertRepositoryIsInstalled(w) ==
    /\ At(w, "installed")
    /\ Go(w, IF Target(w).kind = "scan" THEN "find_issue" ELSE "find_marker")
    /\ UNCHANGED <<targets, notices, expired, comments, summaries, faults, overtakes>>

\* A repository the app cannot see any more is a deterministic failure.
RepositoryIsRefused(w) ==
    /\ At(w, "installed") /\ faults < MaxFaults
    /\ faults' = faults + 1
    /\ complete(w, FALSE)
    /\ UNCHANGED <<targets, comments, summaries, overtakes>>

\* GitHub lists the newest issue first, and the first of the title is taken.
findRepositorySecuritySummaryIssue(w) ==
    /\ At(w, "find_issue")
    /\ IF summaries[Target(w).repo] > 0
       THEN workers' = [workers EXCEPT ![w].at = "find_marker",
                                       ![w].issue = summaries[Target(w).repo]]
       ELSE Go(w, "own_issue")
    /\ UNCHANGED <<targets, notices, expired, comments, summaries, faults, overtakes>>

assertBeforeIssue(w) ==
    /\ At(w, "own_issue")
    /\ renewClaim(w, "open")
    /\ UNCHANGED <<targets, comments, summaries, faults, overtakes>>

ensureSummaryIssueNumber(w) ==
    /\ At(w, "open")
    /\ summaries' = [summaries EXCEPT ![Target(w).repo] = @ + 1]
    /\ workers' = [workers EXCEPT ![w].at = "find_marker",
                                  ![w].issue = summaries[Target(w).repo] + 1]
    /\ UNCHANGED <<targets, notices, expired, comments, faults, overtakes>>

\* The comment of an earlier delivery is found by the notice's marker, in the
\* issue this delivery found or opened and in no other.
findIssueCommentByMarker(w) ==
    /\ At(w, "find_marker")
    /\ workers' = IF \E c \in Told(workers[w].notice) : c.issue = workers[w].issue
                  THEN [workers EXCEPT ![w].at = "complete", ![w].url = workers[w].issue]
                  ELSE [workers EXCEPT ![w].at = "own_comment"]
    /\ UNCHANGED <<targets, notices, expired, comments, summaries, faults, overtakes>>

assertBeforeComment(w) ==
    /\ At(w, "own_comment")
    /\ renewClaim(w, "post")
    /\ UNCHANGED <<targets, comments, summaries, faults, overtakes>>

createIssueComment(w) ==
    /\ At(w, "post")
    /\ comments' = comments \cup {Comment(w)}
    /\ workers' = [workers EXCEPT ![w].at = "complete", ![w].url = workers[w].issue]
    /\ UNCHANGED <<targets, notices, expired, summaries, faults, overtakes>>

completeRunNotice(w) ==
    /\ At(w, "complete")
    /\ complete(w, TRUE)
    /\ UNCHANGED <<targets, comments, summaries, faults, overtakes>>

Calling == {"heartbeat", "installed", "find_issue", "open", "find_marker", "post", "complete"}

\* A call fails on the way, its effect done or not; or the worker restarts.
CallFails(w, landed) ==
    /\ workers[w].at \in Calling /\ faults < MaxFaults
    /\ landed => workers[w].at \in {"open", "post"}
    /\ faults' = faults + 1
    /\ comments' = IF landed /\ At(w, "post") THEN comments \cup {Comment(w)} ELSE comments
    /\ summaries' = IF landed /\ At(w, "open")
                    THEN [summaries EXCEPT ![Target(w).repo] = @ + 1] ELSE summaries
    /\ Abandon(w)
    /\ UNCHANGED <<targets, overtakes>>

-----------------------------------------------------------------------------
NoticesInit ==
    /\ targets \in Inputs
    /\ notices = [n \in Notices |-> [status |-> "none", kind |-> Null,
                                     token |-> 0, issued |-> 0, url |-> Null]]
    /\ expired = {}
    /\ workers = [w \in Workers |-> Idle]
    /\ comments = {}
    /\ summaries = [r \in Repos |-> 0]
    /\ faults = 0 /\ overtakes = 0

DeliveryStep(w) ==
    \/ startRunNoticeClaimHeartbeat(w) \/ resolveTarget(w) \/ assertRepositoryIsInstalled(w)
    \/ findRepositorySecuritySummaryIssue(w) \/ assertBeforeIssue(w)
    \/ ensureSummaryIssueNumber(w) \/ findIssueCommentByMarker(w)
    \/ assertBeforeComment(w) \/ createIssueComment(w) \/ completeRunNotice(w)

NoticesNext ==
    \/ \E n \in Notices : supersedeRunAttentionNotices(n) \/ LeaseRunsOut(n)
                        \/ \E kind \in {"failure", "attention"} : queueRunNotice(n, kind)
    \/ \E w \in Workers :
          \/ DeliveryStep(w) \/ RepositoryIsRefused(w)
          \/ \E n \in Notices : claimNext(w, n)
          \/ \E landed \in BOOLEAN : CallFails(w, landed)

\* The coordinator polls, a started delivery goes on, and a lease that nobody
\* renews runs out.
NoticesFairness ==
    /\ \A w \in Workers : WF_noticeVars(DeliveryStep(w))
    /\ \A n \in Notices : /\ WF_noticeVars(\E w \in Workers : claimNext(w, n))
                          /\ WF_noticeVars(~Working(n) /\ LeaseRunsOut(n))

NoticesSpec == NoticesInit /\ [][NoticesNext]_noticeVars /\ NoticesFairness

-----------------------------------------------------------------------------
(***************************************************************************)
(* Properties                                                              *)
(***************************************************************************)

\* A notice is told once where it is read: lost answers, restarts and workers
\* that overtake each other leave one comment with its marker in an issue.  A
\* conversation has one; a scan has more than one only if the repository has
\* more than one summary issue, which workers that look for it at the same
\* time may open.  A notice recorded as delivered points at a comment of its
\* own, and one that is delivered, failed or superseded is held by nobody
\* (run-notice-reply.ts: find by marker in the issue found, assert, create;
\* run-notices.ts: the fenced completion).
ToldOnce ==
    \A n \in Notices :
        /\ \A c, d \in Told(n) : c # d =>
              /\ c.issue # d.issue
              /\ targets[n].kind = "scan" /\ summaries[targets[n].repo] > 1
        /\ notices[n].status = "delivered" => \E c \in Told(n) : c.issue = notices[n].url
        /\ (notices[n].status = "delivering") = (notices[n].token > 0)

\* Every notice is delivered, recorded as failed, or overtaken by a resumed
\* run; none stays in the queue for ever.
NoticesConclude ==
    \A n \in Notices : notices[n].status = "pending" ~> (notices[n].status \in {"delivered", "failed", "superseded"})

=============================================================================
