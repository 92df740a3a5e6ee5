---------------------------- MODULE InputBundles ----------------------------
(***************************************************************************)
(* The bytes of a run's input: each preparation attempt archives its       *)
(* bundle in a staging directory (reviews/shared/input-bundle.ts) and      *)
(* publishes it to the file or the S3 store (artifacts/input-storage.ts).  *)
(* An attempt whose claim expired goes on beside its successor, dies at    *)
(* any point, and may leave an upload under way.                           *)
(*                                                                         *)
(* A content is a number and its digest the same number; a file is         *)
(* [content, whole].  An object is [content, whole, sha256], the last      *)
(* being what its metadata say.                                            *)
(***************************************************************************)
EXTENDS Naturals, FiniteSets

CONSTANTS
    Preparers,          \* attempts to prepare the run
    Contents,           \* what an attempt may find to archive
    NoFile,
    Oversized           \* contents whose workflow input exceeds its limit

VARIABLES
    backend,            \* the artifact store configured: "file" or "s3"
    staging,            \* archives, by staging root
    bucket,            \* what the store holds, by key
    uploads,            \* puts whose sender stopped waiting
    reserved,           \* references in the ledger of candidates
    attempts            \* where each attempt is

bundleVars == <<backend, staging, bucket, uploads, reserved, attempts>>

File(content, whole) == [content |-> content, whole |-> whole]
Object(content, whole, sha256) == [content |-> content, whole |-> whole, sha256 |-> sha256]

\* An archive in a staging root, an object of the store; neither is NoFile.
Archive == [content: Contents, whole: BOOLEAN]
Stored == [content: Contents, whole: BOOLEAN, sha256: Contents \cup {NoFile}]

ASSUME NoFileIsNone == NoFile \notin Archive /\ NoFile \notin Stored

Moves(p, before, after) == attempts[p].pc = before /\ attempts' = [attempts EXCEPT ![p].pc = after]

-----------------------------------------------------------------------------
(***************************************************************************)
(* Archiving                                                               *)
(***************************************************************************)

\* Mutant: the attempts of a run share a staging root.
createInputBundleRoot_PerRun(p) == CHOOSE q \in Preparers : TRUE

\* A root of its own for every attempt.
createInputBundleRoot(p) == p

\* archiveInputBundle: what is in the way is removed, the archive written,
\* read again for its digest and size.
StartArchive(p) ==
    /\ Moves(p, "building", "archiving")
    /\ staging' = [staging EXCEPT ![createInputBundleRoot(p)] = File(attempts[p].content, FALSE)]
    /\ UNCHANGED <<backend, bucket, uploads, reserved>>

FinishArchive(p) ==
    /\ Moves(p, "archiving", "archived")
    /\ staging' = [staging EXCEPT ![createInputBundleRoot(p)] = File(attempts[p].content, TRUE)]
    /\ UNCHANGED <<backend, bucket, uploads, reserved>>

assertWorkflowInputFits(content) == content \notin Oversized

\* An input too large is refused before anything is reserved or written.
archiveInputBundleAndBuildInput(p) ==
    /\ attempts[p].pc = "archived"
    /\ LET digest == staging[createInputBundleRoot(p)].content
       IN IF assertWorkflowInputFits(digest)
          THEN /\ attempts' = [attempts EXCEPT ![p].pc = "publishing", ![p].digest = digest]
               /\ reserved' = reserved \cup {digest}
          ELSE attempts' = [attempts EXCEPT ![p].pc = "failed"] /\ UNCHANGED reserved
    /\ UNCHANGED <<backend, staging, bucket, uploads>>

-----------------------------------------------------------------------------
(***************************************************************************)
(* Looking                                                                 *)
(***************************************************************************)

\* The key is the run and the digest.
inputObjectKey(digest) == digest

\* What an object store tells of an object is its length and its metadata.
matchesReference(object, digest) == object.whole /\ object.sha256 = digest

\* "true", "false" or "absent"; absence needs a listing without the key.
existingObjectMatches(digest) ==
    LET object == bucket[inputObjectKey(digest)]
    IN IF object = NoFile THEN "absent" ELSE IF matchesReference(object, digest) THEN "true" ELSE "false"

\* A local file is read and hashed.
LocalBundle(digest) ==
    LET object == bucket[inputObjectKey(digest)]
    IN IF object = NoFile THEN "absent"
       ELSE IF object.whole /\ object.content = digest THEN "true" ELSE "false"

Found(digest) == IF backend = "file" THEN LocalBundle(digest) ELSE existingObjectMatches(digest)

\* recoverInputBundlePublication asks for each reserved candidate: one that
\* is there is submitted, one that is missing given up; any doubt is an error.
inputBundleExists(p) ==
    /\ attempts[p].pc = "recovering"
    /\ IF reserved = {} THEN attempts' = [attempts EXCEPT ![p].pc = "building"] /\ UNCHANGED reserved
       ELSE \E digest \in reserved :
              CASE Found(digest) = "true" ->
                     /\ attempts' = [attempts EXCEPT ![p].pc = "published", ![p].digest = digest]
                     /\ UNCHANGED reserved
                [] Found(digest) = "absent" -> reserved' = reserved \ {digest} /\ UNCHANGED attempts
                [] OTHER -> attempts' = [attempts EXCEPT ![p].pc = "failed"] /\ UNCHANGED reserved
    /\ UNCHANGED <<backend, staging, bucket, uploads>>

-----------------------------------------------------------------------------
(***************************************************************************)
(* Publishing                                                              *)
(***************************************************************************)
LookFirst(p) ==
    /\ attempts[p].pc = "publishing"
    /\ attempts' = [attempts EXCEPT ![p].pc =
          CASE Found(attempts[p].digest) = "true" -> "published"
            [] Found(attempts[p].digest) = "absent" -> IF backend = "file" THEN "copying" ELSE "putting"
            [] OTHER -> "failed"]
    /\ UNCHANGED <<backend, staging, bucket, uploads, reserved>>

\* The file store: a private copy, verified, then linked unless another
\* attempt's is there; and looked at again.
CopyFile(p) ==
    /\ attempts[p].pc = "copying" /\ backend = "file"
    /\ attempts' = [attempts EXCEPT ![p].copy = staging[createInputBundleRoot(p)], ![p].pc = "verifying"]
    /\ UNCHANGED <<backend, staging, bucket, uploads, reserved>>

VerifyCopy(p) ==
    /\ attempts[p].pc = "verifying"
    /\ attempts' = [attempts EXCEPT ![p].pc =
          IF attempts[p].copy = File(attempts[p].digest, TRUE) THEN "linking" ELSE "failed"]
    /\ UNCHANGED <<backend, staging, bucket, uploads, reserved>>

LinkFile(p) ==
    /\ Moves(p, "linking", "confirming")
    /\ LET key == inputObjectKey(attempts[p].digest)
       IN bucket' = IF bucket[key] # NoFile THEN bucket
                     ELSE [bucket EXCEPT ![key] = Object(attempts[p].copy.content, attempts[p].copy.whole, NoFile)]
    /\ UNCHANGED <<backend, staging, uploads, reserved>>

Confirm(p) ==
    /\ attempts[p].pc = "confirming"
    /\ attempts' = [attempts EXCEPT ![p].pc = IF Found(attempts[p].digest) = "true" THEN "published" ELSE "failed"]
    /\ UNCHANGED <<backend, staging, bucket, uploads, reserved>>

\* The S3 store: the archive is streamed, whole or not at all, under the
\* digest its sender computed earlier; an existing object is not replaced.
PutOf(p) == [from |-> createInputBundleRoot(p), digest |-> attempts[p].digest]

Put(upload) ==
    LET key == inputObjectKey(upload.digest)
        file == staging[upload.from]
    IN bucket' = IF bucket[key] # NoFile \/ ~file.whole THEN bucket
                  ELSE [bucket EXCEPT ![key] = Object(file.content, TRUE, upload.digest)]

PutObject(p) ==
    /\ attempts[p].pc = "putting" /\ backend = "s3"
    /\ Put(PutOf(p))
    /\ attempts' = [attempts EXCEPT ![p].pc =
          IF bucket[inputObjectKey(attempts[p].digest)] # NoFile THEN "confirming"
          ELSE IF staging[createInputBundleRoot(p)].whole THEN "published" ELSE "failed"]
    /\ UNCHANGED <<backend, staging, uploads, reserved>>

\* No answer to the put: it took place, or is still under way.
PutUnanswered(p) ==
    /\ Moves(p, "putting", "failed")
    /\ \/ Put(PutOf(p)) /\ UNCHANGED uploads
       \/ uploads' = uploads \cup {PutOf(p)} /\ UNCHANGED bucket
    /\ UNCHANGED <<backend, staging, reserved>>

LatePut ==
    /\ \E upload \in uploads : Put(upload) /\ uploads' = uploads \ {upload}
    /\ UNCHANGED <<backend, staging, reserved, attempts>>

\* The store, the disk or the process fails; the staged archive stays.
AttemptDies(p) ==
    /\ attempts[p].pc \notin {"idle", "published", "failed"}
    /\ attempts' = [attempts EXCEPT ![p].pc = "failed"]
    /\ UNCHANGED <<backend, staging, bucket, uploads, reserved>>

\* An attempt starts beside those that lost their claim.
StartAttempt(p) ==
    /\ attempts[p].pc = "idle"
    /\ \E content \in Contents : attempts' = [attempts EXCEPT ![p].pc = "recovering", ![p].content = content]
    /\ UNCHANGED <<backend, staging, bucket, uploads, reserved>>

-----------------------------------------------------------------------------
\* A key may hold what somebody else left there.
BundlesInit ==
    /\ backend \in {"file", "s3"}
    /\ staging = [p \in Preparers |-> NoFile]
    /\ \E damaged \in SUBSET Contents :
          bucket = [key \in Contents |-> IF key \in damaged THEN Object(key, FALSE, key) ELSE NoFile]
    /\ uploads = {} /\ reserved = {}
    /\ attempts = [p \in Preparers |-> [pc |-> "idle", content |-> 0, digest |-> 0, copy |-> NoFile]]

BundlesNext ==
    \/ \E p \in Preparers :
          \/ StartAttempt(p) \/ inputBundleExists(p)
          \/ StartArchive(p) \/ FinishArchive(p) \/ archiveInputBundleAndBuildInput(p)
          \/ LookFirst(p) \/ CopyFile(p) \/ VerifyCopy(p) \/ LinkFile(p) \/ Confirm(p)
          \/ PutObject(p) \/ PutUnanswered(p) \/ AttemptDies(p)
    \/ LatePut

BundlesSpec == BundlesInit /\ [][BundlesNext]_bundleVars

-----------------------------------------------------------------------------
\* A bundle that is reported as published is in the store, whole and with the
\* content its digest names, and stays so, whichever attempts raced, died or
\* left an upload behind: also what a later attempt recovers from the ledger
\* by asking for its metadata, and although S3 takes the sender's word for
\* the digest.  An object under a reserved digest never has another content
\* (input-storage.ts publishInputBundle, inputBundleExists; input-bundle.ts
\* createInputBundleRoot).
BundlesAreWhole ==
    /\ \A p \in Preparers : attempts[p].pc = "published" =>
          /\ bucket[inputObjectKey(attempts[p].digest)] # NoFile
          /\ bucket[inputObjectKey(attempts[p].digest)].whole
    /\ \A key \in Contents : bucket[key] # NoFile => bucket[key].content = key
    /\ \A p \in Preparers : attempts[p].pc = "published" => attempts[p].digest \notin Oversized

=============================================================================
