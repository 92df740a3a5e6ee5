---------------------------- MODULE ConsoleServer ----------------------------
(***************************************************************************)
(* The Control Plane UI's server (apps/control-plane-ui/server): browser   *)
(* sessions, the bounded calls to Review Runs and the Memory Catalog, and  *)
(* the artifacts it reads from object storage and serves.                  *)
(*                                                                         *)
(* Content is a sequence of chunks of one byte each; a digest stands for   *)
(* the content it was taken of.  What the upstream services answer and     *)
(* what storage holds is not trusted: a record may be about another run,   *)
(* name another object or digest or be malformed, an object may be         *)
(* missing, shorter, longer or different, and its body may stall or break  *)
(* off.                                                                    *)
(***************************************************************************)
EXTENDS Naturals, Sequences, FiniteSets

CONSTANTS
    None,
    Browsers,           \* session values
    MaximumSessions, SessionTtl, MaxClock,
    Targets,            \* [route, id, view]: what a browser may ask for
    Replies(_),         \* what an upstream may answer about a target
    Holdings(_),        \* contents storage may hold under a key
    MaximumSize,        \* per route: the largest object it serves
    Jsonl,              \* file names that end in .jsonl
    Requests,           \* other requests: [method, path, query, origin, token, size]
    DeclaredQuery, MaxBody,
    Bundles,            \* diagnostic archives
    MaxBundleEntries, MaxBundleBytes, MaxPreviewFile, MaxPreviewText

VARIABLES
    clock,
    sessions,           \* sequence of [id, expires], oldest first
    revoked,            \* sessions that ended: signed out, evicted or restarted
    exchange,           \* the artifact request under way
    relayed             \* a request to be relayed to Review Runs: what was sent and answered

consoleVars == <<clock, sessions, revoked, exchange, relayed>>

-----------------------------------------------------------------------------
(***************************************************************************)
(* Sessions                                                                *)
(***************************************************************************)

SessionIds == {sessions[i].id : i \in DOMAIN sessions}

Unexpired == SelectSeq(sessions, LAMBDA s : s.expires > clock)

\* Expired sessions make room first, then the oldest ones do.
prepareSlot ==
    LET excess == Len(Unexpired) - (MaximumSessions - 1)
    IN IF Len(Unexpired) < MaximumSessions THEN Unexpired
       ELSE SubSeq(Unexpired, excess + 1, Len(Unexpired))

authenticated(id) == \E i \in DOMAIN sessions : sessions[i].id = id /\ sessions[i].expires > clock

\* Asking whether a session is authenticated forgets one that has expired.
Ask(id) ==
    /\ sessions' = IF authenticated(id) THEN sessions ELSE SelectSeq(sessions, LAMBDA s : s.id # id)
    /\ revoked' = revoked \cup (SessionIds \ {sessions'[i].id : i \in DOMAIN sessions'})

SignIn(id) ==
    /\ id \notin SessionIds \cup revoked
    /\ sessions' = Append(prepareSlot, [id |-> id, expires |-> clock + SessionTtl])
    /\ revoked' = revoked \cup (SessionIds \ {sessions'[i].id : i \in DOMAIN sessions'})
    /\ UNCHANGED <<clock, exchange, relayed>>

SignOut(id) ==
    /\ id \in SessionIds
    /\ sessions' = SelectSeq(sessions, LAMBDA s : s.id # id)
    /\ revoked' = revoked \cup {id}
    /\ UNCHANGED <<clock, exchange, relayed>>

\* A restart forgets every session and drops the request under way.
Restart ==
    /\ sessions # <<>>
    /\ revoked' = revoked \cup SessionIds /\ sessions' = <<>>
    /\ exchange' = IF exchange.at = "idle" THEN exchange ELSE [exchange EXCEPT !.at = "dropped"]
    /\ UNCHANGED <<clock, relayed>>

Tick == clock < MaxClock /\ clock' = clock + 1 /\ UNCHANGED <<sessions, revoked, exchange, relayed>>

-----------------------------------------------------------------------------
(***************************************************************************)
(* Calls to upstream services                                              *)
(***************************************************************************)

\* A declared length over the budget is refused before the body is read; a
\* body that grows over it is refused while it arrives.
readBoundedUpstreamBody(reply) ==
    IF reply.declared # None /\ reply.declared > reply.budget THEN "too_large"
    ELSE IF reply.length > reply.budget THEN "too_large" ELSE "read"

\* What arrived before the call failed decides first: a body over the budget
\* is too large even when the timer fires while it is being cancelled.
requestUpstream(reply) ==
    IF readBoundedUpstreamBody(reply) = "too_large" THEN "too_large"
    ELSE IF reply.fault # None THEN reply.fault        \* timeout, unavailable
    ELSE "answered"

upstreamFailure(kind) == IF kind = "timeout" THEN 504 ELSE 502

\* A relayed read or decision: only the paths the console states, only the
\* query Review Runs declares, and a decision only from the console's own
\* origin with an operator credential.
isAllowedReadPath(path) == path \in {"runs", "parked", "run", "publication-steps", "events"}

forwardedPath(request) == [path |-> request.path, query |-> request.query \cap DeclaredQuery]

requireSameOrigin(request) == request.origin = "console"

Refusal(request) ==
    CASE ~requireSameOrigin(request) -> 403
      [] request.token = None -> 401
      [] request.size > MaxBody -> 413
      [] OTHER -> None

\* A read carries the console's own credential, a decision the operator's.
RelayRequest(id, request) ==
    LET refusal == CASE ~authenticated(id) -> 401
                     [] request.method = "POST" /\ request.path = "decision" -> Refusal(request)
                     [] request.method = "GET" /\ isAllowedReadPath(request.path) -> None
                     [] OTHER -> 404
        sent == [call |-> forwardedPath(request),
                 token |-> IF request.method = "POST" THEN request.token ELSE "read"]
    IN /\ relayed.request = None
       /\ relayed' = [request |-> request, by |-> id, revoked |-> revoked,
                      sent |-> IF refusal = None THEN sent ELSE None,
                      status |-> IF refusal = None THEN 0 ELSE refusal]
       /\ Ask(id)
       /\ UNCHANGED <<clock, exchange>>

\* The upstream's own status is relayed, the ones the console itself refuses
\* with among them; a failed call has one of two.
RelayAnswer ==
    /\ relayed.sent # None /\ relayed.status = 0
    /\ \E status \in {200, 401, 403, 404, 409, 413, 500}, fault \in {None, "timeout", "unavailable", "too_large"} :
          relayed' = [relayed EXCEPT !.status = IF fault = None THEN status ELSE upstreamFailure(fault)]
    /\ UNCHANGED <<clock, sessions, revoked, exchange>>

-----------------------------------------------------------------------------
(***************************************************************************)
(* Published references                                                    *)
(***************************************************************************)

TreeKey(digest) == [kind |-> "tree", name |-> digest]
BundleKey(id) == [kind |-> "run", name |-> <<id>>]

\* A tree's key is derived from its digest and a bundle's from its run; a
\* trajectory has only its prefix.  So any tree under its own digest, and any
\* trajectory, is accepted for whichever revision was asked about.
acceptsKey(target, ref) ==
    CASE target.route = "tree" -> ref.key = TreeKey(ref.digest)
      [] target.route = "run" -> ref.key = BundleKey(target.id)
      [] OTHER -> ref.key.kind = "trajectory"

publishedArtifact(target, ref) ==
    IF ref = None THEN "invalid"
    ELSE IF ~ref.wellFormed \/ ~acceptsKey(target, ref) THEN "invalid"
    ELSE IF ref.size > MaximumSize[target.route] THEN "too_large" ELSE "available"

runDiagnosticBundle(target, record) ==
    IF record.id # target.id \/ record.status # "available" THEN "invalid"
    ELSE publishedArtifact(target, record.ref)

\* An operator's revision has no trajectory.
publishedMemoryArtifact(target, record) ==
    IF target.route = "trajectory" /\ record.source = "operator" THEN "invalid"
    ELSE publishedArtifact(target, record.ref)

Resolve(target, record) ==
    IF target.route = "run" THEN runDiagnosticBundle(target, record)
    ELSE publishedMemoryArtifact(target, record)

-----------------------------------------------------------------------------
(***************************************************************************)
(* The diagnostic archive of a run                                         *)
(***************************************************************************)

safePath(name) == name # <<>> /\ \A i \in DOMAIN name : name[i] \notin {"", ".", ".."}

FilesOf(bundle) == {i \in DOMAIN bundle.entries : bundle.entries[i].type = "file"}
FileNames(bundle) == {bundle.entries[i].name : i \in FilesOf(bundle)}
SizeOf(bundle, n) ==
    LET size[k \in 0..n] ==
            IF k = 0 THEN 0
            ELSE size[k - 1] + (IF k \in FilesOf(bundle) THEN bundle.entries[k].size ELSE 0)
    IN size[n]

ReadableManifest(bundle, run) ==
    /\ bundle.manifest # None
    /\ bundle.manifest.run = run
    /\ \A i, j \in DOMAIN bundle.manifest.units :
          bundle.manifest.units[i].id = bundle.manifest.units[j].id => i = j
    /\ \A i \in DOMAIN bundle.manifest.units :
          LET unit == bundle.manifest.units[i]
          IN /\ unit.trajectories # {}
             /\ \A t \in unit.trajectories :
                   safePath(t) /\ t[1] = "artifact-tree" /\ t[Len(t)] \in Jsonl /\ t \in FileNames(bundle)

\* Files are shown in archive order while the text budget lasts.
Preview(bundle) ==
    LET count == Len(bundle.entries)
        shows(e, used) == /\ e.type = "file" /\ e.size <= MaxPreviewFile /\ e.text
                          /\ used + e.size <= MaxPreviewText
        used[k \in 0..count] ==
            IF k = 0 THEN 0
            ELSE used[k - 1] + (IF shows(bundle.entries[k], used[k - 1]) THEN bundle.entries[k].size ELSE 0)
        shown == {k \in FilesOf(bundle) : shows(bundle.entries[k], used[k - 1])}
    IN [files |-> {bundle.entries[k].name : k \in shown},
        unpreviewable |-> {bundle.entries[k].name : k \in FilesOf(bundle) \ shown},
        bytes |-> used[count]]

\* Entries are checked in archive order; the first refusal counts.
InvalidEntry(bundle, k) ==
    \/ k > MaxBundleEntries
    \/ ~safePath(bundle.entries[k].name)
    \/ bundle.entries[k].type \notin {"file", "directory"}
    \/ \E j \in 1..(k - 1) : bundle.entries[j].name = bundle.entries[k].name

readDiagnosticBundle(bundle, run) ==
    LET refused == {k \in DOMAIN bundle.entries :
                       InvalidEntry(bundle, k) \/ SizeOf(bundle, k) > MaxBundleBytes}
        complete == /\ {<<"manifest.json">>, <<"result.json">>} \subseteq FileNames(bundle)
                    /\ \E n \in FileNames(bundle) : Len(n) > 1 /\ n[1] = "artifact-tree"
                    /\ ReadableManifest(bundle, run)
    IN IF \E k \in refused : (\A j \in refused : k <= j) /\ ~InvalidEntry(bundle, k) THEN "too_large"
       ELSE IF refused # {} \/ ~complete THEN "invalid" ELSE "readable"

-----------------------------------------------------------------------------
(***************************************************************************)
(* One artifact request                                                    *)
(***************************************************************************)

Nobody == [at |-> "idle", target |-> None, by |-> None, revoked |-> {}, ref |-> None, rest |-> <<>>,
           received |-> <<>>, temp |-> FALSE, view |-> None, status |-> 0, sent |-> <<>>]

\* Only a run download listens for the browser leaving.
Streams(target) == target.route = "run" /\ target.view = "download"

Answer(status) == exchange' = [exchange EXCEPT !.at = "answered", !.status = status, !.temp = FALSE]

\* How a failure of one kind is told: both timeouts are 504, and a run's
\* download alone tells a missing object from a failing store.
failureStatus(target, kind) ==
    CASE kind = "timeout" -> 504
      [] kind = "missing" /\ Streams(target) -> 404
      [] OTHER -> 502

Fail(kind) ==
    exchange' = [exchange EXCEPT !.at = "answered", !.status = failureStatus(exchange.target, kind),
                                 !.temp = FALSE]

Keep == UNCHANGED <<clock, sessions, revoked, relayed>>

\* The session is checked when the request arrives, and not again.
Arrive(id, target) ==
    /\ exchange.at = "idle"
    /\ exchange' = IF authenticated(id)
                   THEN [Nobody EXCEPT !.at = "record", !.target = target, !.by = id, !.revoked = revoked]
                   ELSE [Nobody EXCEPT !.at = "answered", !.target = target, !.by = id, !.status = 401]
    /\ Ask(id)
    /\ UNCHANGED <<clock, relayed>>

\* The record is fetched, classified and resolved to an object.
FetchRecord ==
    /\ exchange.at = "record"
    /\ \E reply \in Replies(exchange.target) :
          LET kind == requestUpstream(reply)
              found == Resolve(exchange.target, reply.record)
          IN CASE kind # "answered" -> Fail(kind)
               [] kind = "answered" /\ reply.status # 200 -> Answer(IF reply.status = 404 THEN 404 ELSE 502)
               [] kind = "answered" /\ reply.status = 200 /\ found = "invalid" -> Answer(409)
               [] kind = "answered" /\ reply.status = 200 /\ found = "too_large" -> Answer(413)
               [] OTHER -> exchange' = [exchange EXCEPT !.at = "object", !.ref = reply.record.ref,
                                                        !.temp = Streams(exchange.target)]
    /\ Keep

\* A body whose declared length is not the published size is refused.
getObject ==
    /\ exchange.at = "object"
    /\ \/ Fail("missing")
       \/ \E content \in Holdings(exchange.ref.key), tellsLength \in BOOLEAN :
             IF tellsLength /\ Len(content) # exchange.ref.size
             THEN Fail("identity")
             ELSE exchange' = [exchange EXCEPT !.at = "stream", !.rest = content]
    /\ Keep

\* Mutant: the final comparison checks the size only.
Verified_SizeOnly(received, ref) == Len(received) = ref.size

Verified(received, ref) == Len(received) = ref.size /\ received = ref.digest

\* Every chunk is counted before it is passed on.
ReceiveChunk ==
    /\ exchange.at = "stream" /\ exchange.rest # <<>>
    /\ LET received == Append(exchange.received, Head(exchange.rest))
       IN IF Len(received) > exchange.ref.size \/ Len(received) > MaximumSize[exchange.target.route]
          THEN Fail("identity")
          ELSE exchange' = [exchange EXCEPT !.received = received, !.rest = Tail(@)]
    /\ Keep

\* The body ends, early or not; nothing has reached the browser yet.
BodyEnds ==
    /\ exchange.at = "stream"
    /\ IF ~Verified(exchange.received, exchange.ref) THEN Fail("identity")
       ELSE exchange' = [exchange EXCEPT !.at = "verified"]
    /\ Keep

BodyBreaks == exchange.at = "stream" /\ Fail("broken") /\ Keep

\* No progress for the idle timeout, before or within the body.
IdleTimeout == exchange.at \in {"object", "stream"} /\ Fail("timeout") /\ Keep

\* A run's content view parses the archive it verified.
preview ==
    /\ exchange.at = "verified" /\ exchange.target.view = "content" /\ exchange.target.route = "run"
    /\ \E bundle \in Bundles :
          LET read == readDiagnosticBundle(bundle, exchange.target.id)
          IN IF read # "readable" THEN Fail(read)
             ELSE exchange' = [exchange EXCEPT !.at = "answered", !.status = 200,
                                               !.sent = exchange.received, !.view = Preview(bundle)]
    /\ Keep

\* Memory artifacts are sent whole, or parsed for their content view.
RespondMemory ==
    /\ exchange.at = "verified" /\ exchange.target.route # "run"
    /\ \/ exchange.target.view = "content" /\ Fail("unreadable")
       \/ exchange' = [exchange EXCEPT !.at = "answered", !.status = 200, !.sent = exchange.received]
    /\ Keep

\* A run's download is piped from the temporary file, which is then removed.
download ==
    /\ exchange.at = "verified" /\ Streams(exchange.target)
    /\ exchange' = [exchange EXCEPT !.at = "sending", !.status = 200]
    /\ Keep

SendChunk ==
    /\ exchange.at = "sending"
    /\ exchange' = IF Len(exchange.sent) = Len(exchange.received)
                   THEN [exchange EXCEPT !.at = "answered", !.temp = FALSE]
                   ELSE [exchange EXCEPT !.sent = SubSeq(exchange.received, 1, Len(@) + 1)]
    /\ Keep

\* The browser leaves: a run download stops where it is.
BrowserLeaves ==
    /\ exchange.at \in {"record", "object", "stream", "sending"} /\ Streams(exchange.target)
    /\ exchange' = [exchange EXCEPT !.at = "dropped", !.temp = FALSE]
    /\ Keep

ConsoleInit ==
    /\ clock = 0 /\ sessions = <<>> /\ revoked = {} /\ exchange = Nobody
    /\ relayed = [request |-> None, by |-> None, revoked |-> {}, sent |-> None, status |-> 0]

ConsoleNext ==
    \/ \E id \in Browsers : SignIn(id) \/ SignOut(id)
    \/ Restart
    \/ Tick
    \/ \E id \in Browsers, target \in Targets : Arrive(id, target)
    \/ \E id \in Browsers, request \in Requests : RelayRequest(id, request)
    \/ RelayAnswer
    \/ FetchRecord
    \/ getObject
    \/ ReceiveChunk
    \/ BodyEnds
    \/ BodyBreaks
    \/ IdleTimeout
    \/ preview
    \/ RespondMemory
    \/ download
    \/ SendChunk
    \/ BrowserLeaves

-----------------------------------------------------------------------------
\* A browser is told 200 only about bytes that were verified to be all of the
\* object that the record named by digest and size, within the size its route
\* serves, and a download that stops has sent a prefix of them: nothing altered,
\* cut short or grown in storage reaches it.  A run's bytes were stored for
\* that run and a tree's under their own digest; that a memory record is about
\* the revision asked for is not verified.  The session that asked had not
\* ended, no temporary file outlives an answered request, and what reached
\* Review Runs came from a live session, within the declared query, and, where
\* it decides something, from the console's own origin with the operator's
\* credential, never the console's (verified-artifact.ts
\* streamVerifiedArtifact, published-artifact.ts publishedArtifact,
\* run-artifacts.ts, memory-artifacts.ts, review-runs.ts, session.ts).
ServedIsPublished ==
    /\ Len(sessions) <= MaximumSessions
    /\ SessionIds \cap revoked = {}
    /\ exchange.at = "answered" =>
          /\ ~exchange.temp
          /\ exchange.status = 200 =>
                /\ exchange.by \notin exchange.revoked
                /\ exchange.sent = exchange.ref.digest /\ Len(exchange.sent) = exchange.ref.size
                /\ Len(exchange.sent) <= MaximumSize[exchange.target.route]
    /\ exchange.sent # <<>> =>
          /\ exchange.sent = SubSeq(exchange.ref.digest, 1, Len(exchange.sent))
          /\ exchange.target.route = "run" => exchange.ref.key = BundleKey(exchange.target.id)
          /\ exchange.target.route = "tree" => exchange.ref.key = TreeKey(exchange.sent)
    /\ relayed.sent # None =>
          /\ relayed.by \notin relayed.revoked
          /\ relayed.sent.call.query \subseteq DeclaredQuery
          /\ relayed.request.method = "POST" =>
                /\ relayed.request.origin = "console" /\ relayed.request.size <= MaxBody
                /\ relayed.sent.token = relayed.request.token /\ relayed.sent.token # None
=============================================================================
