-------------------------- MODULE PublishingProofs --------------------------
(***************************************************************************)
(* Proofs about what the GitHub Integration publishes and about its calls  *)
(* to Review Runs: the draft pull request and the comment of an issue      *)
(* review, the review of a pull request, and what a caller concludes.      *)
(***************************************************************************)
EXTENDS ReviewPublishing, IssuePublishing, ServiceCalls, FiniteSetTheorems,
        WellFoundedInduction, TLAPS

-----------------------------------------------------------------------------
(***************************************************************************)
(* The draft pull request                                                  *)
(***************************************************************************)
DraftPlaces == {"idle", "listing", "building", "assert branch", "creating branch", "assert verify",
                "verifying", "assert open", "opening", "published", "mismatch", "refused"}

\* The commits of the run's branch: a publisher's, or one that a person made.
Commits == [sha : Nat, tree : {ResultTree, {}},
            parents : {<<BaseCommit>>, <<"other">>, <<BaseCommit, "other">>}]

Attempts == [pc : DraftPlaces, commit : Commits \cup {Null}, moved : BOOLEAN]

DraftTyped ==
    /\ record \in Records
    /\ drafts \in [Publishers -> Attempts]
    /\ branch \in Commits \cup {Null}
    /\ commits \in Nat
    /\ budgets \in [attempts : Int, people : Int] /\ budgets.people <= MaxPeople

HasResult(commit) == commit.tree = ResultTree /\ commit.parents = <<BaseCommit>>

Publishable == normalizePublishableFileChanges(record.files) # {"refused"}

\* What a publisher may rely on, by the place it has reached: its own commit
\* has the result, and the branch it created or verified has it until a
\* person moves it.
DraftIsSound(d) ==
    /\ d.pc # "idle" => Publishable
    /\ d.pc \in {"assert branch", "creating branch", "assert verify", "verifying"} =>
         HasResult(d.commit)
    /\ d.pc \in {"assert open", "opening"} /\ branch # Null => HasResult(branch) \/ d.moved
    /\ d.pc = "mismatch" => budgets.people < MaxPeople

PullIsSound ==
    pull # Null => /\ pull.carries \/ pull.moved
                   /\ pull.body = buildDraftPullRequestBodyFromReviewRecord(record)
                   /\ Publishable

DraftInv ==
    /\ DraftTyped
    /\ \A p \in Publishers : DraftIsSound(drafts[p])
    /\ branch # Null => HasResult(branch) \/ budgets.people < MaxPeople
    /\ PullIsSound

\* A set of natural numbers that is not empty has a least element.
LEMMA LeastExists ==
  ASSUME NEW S \in SUBSET Nat, S # {}
  PROVE  \E n \in S : \A m \in S : n <= m
<1> DEFINE R == OpToRel(<, Nat)
<1>1. IsWellFoundedOn(R, Nat)
  BY NatLessThanWellFounded
<1>2. PICK n \in S : \A m \in S : ~(<<m, n>> \in R)
  BY <1>1, WFMin
<1>3. \A m \in S : ~(m < n)
  BY <1>2 DEF OpToRel
<1> HIDE DEF R
<1>4. \A m \in S : m \in Nat /\ n \in Nat
  OBVIOUS
<1> QED
  BY <1>3, <1>4

\* Of the changes that name a file, the first is publishable: the tree has
\* every file a record changes (buildTreeElementsFromFileChanges).
LEMMA FirstChangeIsPublished ==
  ASSUME NEW changes, NEW i \in DOMAIN changes, changes[i].kind # "empty",
         Len(changes) \in Nat, DOMAIN changes = 1..Len(changes)
  PROVE  \E k \in PublishablePositions(changes) : changes[k].name = changes[i].name
<1> DEFINE Same1 == {k \in DOMAIN changes : changes[k].kind # "empty" /\ changes[k].name = changes[i].name}
<1>1. Same1 \in SUBSET Nat /\ Same1 # {}
  OBVIOUS
<1>2. PICK k \in Same1 : \A m \in Same1 : k <= m
  <2> HIDE DEF Same1
  <2> QED BY <1>1, LeastExists
<1>3. \A j \in 1..(k - 1) : j \in DOMAIN changes /\ j \notin Same1
  BY <1>2
<1>4. k \in PublishablePositions(changes)
  BY <1>2, <1>3 DEF PublishablePositions
<1> QED
  BY <1>2, <1>4

\* The files a body displays are the files of the tree, for a result none of
\* whose files is refused (normalizeDisplayFiles against
\* normalizePublishableFileChanges).
LEMMA DisplayedFilesAreTheTree ==
  ASSUME record \in Records, Publishable
  PROVE  normalizeDisplayFiles(record.files) = {e.path : e \in ResultTree}
<1> DEFINE changes == record.files
           first == PublishablePositions(changes)
           shown == {normalizePromotionFilePath(changes[i]) : i \in DOMAIN changes} \ {Null, "refused"}
           names == {changes[i].name : i \in first}
<1>1. /\ Len(changes) \in Nat /\ DOMAIN changes = 1..Len(changes)
      /\ \A i \in DOMAIN changes : changes[i].name # Null
  BY RecordsListFiles
<1>2. \A i \in first : normalizePromotionFilePath(changes[i]) # "refused"
  BY DEF Publishable, normalizePublishableFileChanges
<1>3. \A i \in first : i \in DOMAIN changes /\ changes[i].kind # "empty"
  BY DEF PublishablePositions
<1>4. \A i \in first : normalizePromotionFilePath(changes[i]) = changes[i].name
  BY <1>2, <1>3 DEF normalizePromotionFilePath
<1>5. \A i \in DOMAIN changes : normalizePromotionFilePath(changes[i]) \notin {Null, "refused"} =>
          changes[i].kind # "empty" /\ normalizePromotionFilePath(changes[i]) = changes[i].name
  BY DEF normalizePromotionFilePath
<1>6. ASSUME NEW n \in shown PROVE n \in names
  <2>1. PICK i \in DOMAIN changes : n = normalizePromotionFilePath(changes[i])
    OBVIOUS
  <2>2. changes[i].kind # "empty" /\ n = changes[i].name
    BY <2>1, <1>5
  <2>3. \E k \in first : changes[k].name = changes[i].name
    BY <2>2, <1>1, FirstChangeIsPublished
  <2> QED BY <2>2, <2>3
<1>7. ASSUME NEW n \in names PROVE n \in shown
  <2>1. PICK i \in first : n = changes[i].name
    OBVIOUS
  <2>2. n = normalizePromotionFilePath(changes[i]) /\ i \in DOMAIN changes
    BY <2>1, <1>3, <1>4
  <2> QED BY <2>1, <2>2, <1>1, <1>2
<1>8. ResultTree = {[path |-> changes[i].name, gone |-> changes[i].status = "deleted"] : i \in first}
  BY DEF ResultTree, buildTreeElementsFromFileChanges
<1>9. {e.path : e \in ResultTree} = names
  <2>1. ASSUME NEW e \in ResultTree PROVE e.path \in names
    BY <1>8
  <2>2. ASSUME NEW i \in first PROVE \E e \in ResultTree : e.path = changes[i].name
    <3> DEFINE e == [path |-> changes[i].name, gone |-> changes[i].status = "deleted"]
    <3>1. e \in ResultTree
      BY <1>8, Zenon
    <3>2. e.path = changes[i].name
      OBVIOUS
    <3> QED BY <3>1, <3>2
  <2> QED BY <2>1, <2>2
<1> QED
  BY <1>6, <1>7, <1>9 DEF normalizeDisplayFiles

\* What is said of a record stays true while the record stays.
LEMMA RecordStays ==
  ASSUME record' = record
  PROVE  /\ ResultTree' = ResultTree /\ Publishable' = Publishable
         /\ Commits' = Commits /\ Attempts' = Attempts
         /\ buildDraftPullRequestBodyFromReviewRecord(record)' =
              buildDraftPullRequestBodyFromReviewRecord(record)
         /\ \A c : HasResult(c)' = HasResult(c)
<1>1. ResultTree' = ResultTree
  BY DEF ResultTree
<1>2. Commits' = Commits
  BY <1>1 DEF Commits
<1> QED
  BY <1>1, <1>2 DEF Publishable, Attempts, HasResult

\* One publisher moves on, and neither the branch nor the pull request does.
LEMMA PublisherMoves ==
  ASSUME DraftInv, NEW p \in Publishers, NEW d \in Attempts, DraftIsSound(d),
         drafts' = [drafts EXCEPT ![p] = d],
         record' = record, branch' = branch, pull' = pull, commits' \in Nat,
         budgets' \in [attempts : Int, people : Int], budgets'.people = budgets.people
  PROVE  DraftInv'
<1>1. DraftTyped'
  BY RecordStays DEF DraftInv, DraftTyped
<1>2. ASSUME NEW q \in Publishers PROVE DraftIsSound(drafts[q])'
  <2>1. drafts'[q] = d \/ drafts'[q] = drafts[q]
    BY DEF DraftInv, DraftTyped
  <2>2. DraftIsSound(drafts'[q])
    BY <2>1 DEF DraftInv
  <2> QED
    BY <2>2, RecordStays DEF DraftIsSound, HasResult
<1>3. PullIsSound'
  BY RecordStays DEF DraftInv, PullIsSound
<1> QED
  BY <1>1, <1>2, <1>3, RecordStays DEF DraftInv, HasResult

\* Whoever ends an attempt starts the next one from nothing.
LEMMA PublisherRests ==
  ASSUME DraftInv, NEW p \in Publishers, drafts' = [drafts EXCEPT ![p] = IdleDraft],
         UNCHANGED <<record, branch, pull, commits, budgets>>
  PROVE  DraftInv'
<1>1. IdleDraft \in Attempts /\ DraftIsSound(IdleDraft)
  BY DEF IdleDraft, Attempts, DraftPlaces, DraftIsSound
<1>2. commits' \in Nat /\ budgets' \in [attempts : Int, people : Int] /\ budgets'.people = budgets.people
  BY DEF DraftInv, DraftTyped
<1> QED
  BY <1>1, <1>2, PublisherMoves

\* DraftInv is about the draft's own variables but the claim.
LEMMA DraftRests ==
  ASSUME DraftInv, UNCHANGED <<record, drafts, branch, pull, commits, budgets>>
  PROVE  DraftInv'
<1>1. DraftTyped'
  BY RecordStays DEF DraftInv, DraftTyped
<1>2. ASSUME NEW q \in Publishers PROVE DraftIsSound(drafts[q])'
  <2>1. DraftIsSound(drafts[q])
    BY DEF DraftInv
  <2> QED
    BY <2>1, RecordStays DEF DraftIsSound, HasResult
<1> QED
  BY <1>1, <1>2, RecordStays DEF DraftInv, HasResult, PullIsSound

\* An attempt is taken up only for files that may be published.
LEMMA TakeUpIsSound ==
  ASSUME DraftInv, NEW p \in Publishers, TakeUp(p)
  PROVE  DraftInv'
<1> DEFINE d == [drafts[p] EXCEPT !.pc =
                   IF normalizePublishableFileChanges(record.files) = {"refused"} THEN "idle" ELSE "listing"]
<1>1. drafts[p] \in Attempts
  BY DEF DraftInv, DraftTyped
<1>2. d \in Attempts /\ DraftIsSound(d)
  BY <1>1 DEF Attempts, DraftPlaces, DraftIsSound, Publishable
<1>3. drafts' = [drafts EXCEPT ![p] = d]
  BY DEF TakeUp
<1>4. budgets' \in [attempts : Int, people : Int] /\ budgets'.people = budgets.people /\ commits' \in Nat
  BY DEF TakeUp, DraftInv, DraftTyped
<1>5. record' = record /\ branch' = branch /\ pull' = pull
  BY DEF TakeUp
<1> HIDE DEF d
<1> QED
  BY <1>2, <1>3, <1>4, <1>5, PublisherMoves

\* The steps of a publisher that leave branch and pull request alone.  The
\* branch is verified against the commit the publisher built, so it either
\* has the result, or a person made its commit.
LEMMA QuietStepsAreSound ==
  ASSUME DraftInv, NEW p \in Publishers,
         \/ ListPulls(p) \/ BuildCommit(p) \/ AssertBeforeBranch(p)
         \/ AssertBeforeVerify(p) \/ VerifyBranch(p) \/ AssertBeforeOpen(p)
  PROVE  DraftInv'
<1>1. drafts[p] \in Attempts /\ DraftIsSound(drafts[p])
  BY DEF DraftInv, DraftTyped
<1>2. commits \in Nat /\ budgets \in [attempts : Int, people : Int]
  BY DEF DraftInv, DraftTyped
<1>3. ASSUME NEW d \in Attempts, DraftIsSound(d), drafts' = [drafts EXCEPT ![p] = d], commits' \in Nat,
             UNCHANGED <<record, branch, pull, budgets>>
      PROVE  DraftInv'
  <2>1. budgets' \in [attempts : Int, people : Int] /\ budgets'.people = budgets.people
    BY <1>2, <1>3
  <2> QED
    BY <1>3, <2>1, PublisherMoves
<1>4. CASE ListPulls(p)
  <2> DEFINE d == [drafts[p] EXCEPT !.pc = IF pull # Null THEN "published" ELSE "building"]
  <2>1. d \in Attempts /\ DraftIsSound(d)
    BY <1>1, <1>4 DEF ListPulls, Attempts, DraftPlaces, DraftIsSound
  <2>2. drafts' = [drafts EXCEPT ![p] = d] /\ commits' \in Nat /\ UNCHANGED <<record, branch, pull, budgets>>
    BY <1>2, <1>4 DEF ListPulls
  <2> HIDE DEF d
  <2> QED BY <2>1, <2>2, <1>3
<1>5. CASE BuildCommit(p)
  <2>1. CASE ResultTree = {} \/ claim # p
    <3>1. drafts' = [drafts EXCEPT ![p] = IdleDraft] /\ UNCHANGED <<record, branch, pull, commits, budgets>>
      BY <1>5, <2>1 DEF BuildCommit
    <3> QED BY <3>1, PublisherRests
  <2>2. CASE ~(ResultTree = {} \/ claim # p)
    <3> DEFINE c == [sha |-> commits + 1, tree |-> ResultTree, parents |-> <<BaseCommit>>]
               d == [drafts[p] EXCEPT !.commit = c, !.pc = "assert branch"]
    <3>1. c \in Commits /\ HasResult(c)
      BY <1>2 DEF Commits, HasResult
    <3>2. d \in Attempts /\ d.commit = c /\ d.pc = "assert branch"
      BY <1>1, <3>1 DEF Attempts, DraftPlaces
    <3>3. Publishable
      BY <1>1, <1>5 DEF BuildCommit, DraftIsSound
    <3>4. drafts' = [drafts EXCEPT ![p].commit = c, ![p].pc = "assert branch"]
      BY <1>5, <2>2 DEF BuildCommit
    <3>5. commits' = commits + 1 /\ UNCHANGED <<record, branch, pull, budgets>>
      BY <1>5, <2>2 DEF BuildCommit
    <3>6. commits' \in Nat
      BY <1>2, <3>5
    <3>7. drafts' = [drafts EXCEPT ![p] = d]
      <4> HIDE DEF c
      <4> QED BY <3>4
    <3> HIDE DEF c, d
    <3>8. DraftIsSound(d)
      BY <3>1, <3>2, <3>3 DEF DraftIsSound
    <3> QED BY <3>2, <3>5, <3>6, <3>7, <3>8, <1>3
  <2> QED BY <2>1, <2>2
<1>6. ASSUME NEW before, NEW then \in DraftPlaces, AssertClaim(p, before, then),
             DraftIsSound([drafts[p] EXCEPT !.pc = then])
      PROVE  DraftInv'
  <2>1. CASE claim = p
    <3> DEFINE d == [drafts[p] EXCEPT !.pc = then]
    <3>1. d \in Attempts
      BY <1>1 DEF Attempts
    <3>2. drafts' = [drafts EXCEPT ![p] = d] /\ commits' \in Nat /\ UNCHANGED <<record, branch, pull, budgets>>
      BY <1>2, <1>6, <2>1 DEF AssertClaim
    <3>3. DraftIsSound(d)
      BY <1>6
    <3> HIDE DEF d
    <3> QED BY <3>1, <3>2, <3>3, <1>3
  <2>2. CASE claim # p
    <3>1. drafts' = [drafts EXCEPT ![p] = IdleDraft] /\ UNCHANGED <<record, branch, pull, commits, budgets>>
      BY <1>6, <2>2 DEF AssertClaim
    <3> QED BY <3>1, PublisherRests
  <2> QED BY <2>1, <2>2
<1>7. CASE AssertBeforeBranch(p)
  <2>1. DraftIsSound([drafts[p] EXCEPT !.pc = "creating branch"])
    BY <1>1, <1>7 DEF AssertBeforeBranch, AssertClaim, Attempts, DraftIsSound
  <2> QED BY <1>6, <1>7, <2>1 DEF AssertBeforeBranch, DraftPlaces
<1>8. CASE AssertBeforeVerify(p)
  <2>1. DraftIsSound([drafts[p] EXCEPT !.pc = "verifying"])
    BY <1>1, <1>8 DEF AssertBeforeVerify, AssertClaim, Attempts, DraftIsSound
  <2> QED BY <1>6, <1>8, <2>1 DEF AssertBeforeVerify, DraftPlaces
<1>9. CASE AssertBeforeOpen(p)
  <2>1. DraftIsSound([drafts[p] EXCEPT !.pc = "opening"])
    BY <1>1, <1>9 DEF AssertBeforeOpen, AssertClaim, Attempts, DraftIsSound
  <2> QED BY <1>6, <1>9, <2>1 DEF AssertBeforeOpen, DraftPlaces
<1>10. CASE VerifyBranch(p)
  <2> DEFINE then == IF branch = Null THEN "idle"
                     ELSE IF /\ branch.tree = drafts[p].commit.tree
                             /\ Len(branch.parents) = 1
                             /\ branch.parents[1] = BaseCommit
                          THEN "assert open" ELSE "mismatch"
             d == [drafts[p] EXCEPT !.pc = then, !.moved = FALSE]
  <2>1. d \in Attempts /\ d.pc = then /\ then \in {"idle", "assert open", "mismatch"}
    BY <1>1 DEF Attempts, DraftPlaces
  <2>2. drafts' = [drafts EXCEPT ![p] = d] /\ commits' \in Nat /\ UNCHANGED <<record, branch, pull, budgets>>
    BY <1>2, <1>10 DEF VerifyBranch
  <2>3. Publishable /\ drafts[p].commit.tree = ResultTree
    BY <1>1, <1>10 DEF VerifyBranch, DraftIsSound, HasResult
  <2>4. then = "assert open" => HasResult(branch)
    <3>1. SUFFICES ASSUME then = "assert open" PROVE HasResult(branch)
      OBVIOUS
    <3>2. /\ branch # Null /\ branch.tree = drafts[p].commit.tree
          /\ Len(branch.parents) = 1 /\ branch.parents[1] = BaseCommit
      BY <3>1
    <3>3. branch.parents \in {<<BaseCommit>>, <<"other">>, <<BaseCommit, "other">>}
      BY <3>2 DEF DraftInv, DraftTyped, Commits
    <3>4. branch.parents = <<BaseCommit>>
      BY <3>2, <3>3 DEF BaseCommit
    <3> QED BY <2>3, <3>2, <3>4 DEF HasResult
  <2>5. then = "mismatch" => budgets.people < MaxPeople
    <3>1. SUFFICES ASSUME then = "mismatch" PROVE budgets.people < MaxPeople
      OBVIOUS
    <3>2. branch # Null /\ ~HasResult(branch)
      BY <2>3, <3>1 DEF HasResult
    <3> QED BY <3>2 DEF DraftInv
  <2> HIDE DEF then
  <2>6. DraftIsSound(d)
    BY <2>1, <2>3, <2>4, <2>5 DEF DraftIsSound
  <2> HIDE DEF d
  <2> QED BY <2>1, <2>2, <2>6, <1>3
<1> QED
  BY <1>4, <1>5, <1>7, <1>8, <1>9, <1>10

\* A branch is created only where there is none, at a commit with the result.
LEMMA CreateBranchIsSound ==
  ASSUME DraftInv, NEW p \in Publishers, CreateBranch(p)
  PROVE  DraftInv'
<1>1. drafts[p] \in Attempts /\ DraftIsSound(drafts[p]) /\ drafts[p].pc = "creating branch"
  BY DEF DraftInv, DraftTyped, CreateBranch
<1>2. Publishable /\ HasResult(drafts[p].commit)
  BY <1>1 DEF DraftIsSound
<1>3. UNCHANGED <<record, pull, commits, budgets>>
  BY DEF CreateBranch
<1>4. CASE branch = Null
  <2> DEFINE d == [drafts[p] EXCEPT !.pc = "assert open", !.moved = FALSE]
  <2>1. d \in Attempts /\ d.pc = "assert open"
    BY <1>1 DEF Attempts, DraftPlaces
  <2>2. branch' = drafts[p].commit /\ drafts' = [drafts EXCEPT ![p] = d]
    BY <1>4 DEF CreateBranch
  <2> HIDE DEF d
  <2>3. HasResult(branch')
    BY <1>2, <2>2
  <2>4. DraftTyped'
    <3>1. branch' \in Commits \cup {Null}
      BY <1>1, <2>2 DEF Attempts
    <3>2. drafts' \in [Publishers -> Attempts]
      BY <2>1, <2>2 DEF DraftInv, DraftTyped
    <3> QED BY <1>3, <3>1, <3>2, RecordStays DEF DraftInv, DraftTyped
  <2>5. ASSUME NEW q \in Publishers PROVE DraftIsSound(drafts[q])'
    <3>1. drafts'[q] = d \/ (drafts'[q] = drafts[q] /\ DraftIsSound(drafts[q]))
      BY <2>2 DEF DraftInv, DraftTyped
    <3>2. /\ drafts'[q].pc # "idle" => Publishable
          /\ drafts'[q].pc \in {"assert branch", "creating branch", "assert verify", "verifying"} =>
               HasResult(drafts'[q].commit)
          /\ drafts'[q].pc = "mismatch" => budgets.people < MaxPeople
      BY <1>2, <2>1, <3>1 DEF DraftIsSound
    <3> QED BY <1>3, <2>3, <3>2, RecordStays DEF DraftIsSound, HasResult
  <2>6. PullIsSound'
    BY <1>3, RecordStays DEF DraftInv, PullIsSound
  <2> QED BY <1>3, <2>3, <2>4, <2>5, <2>6, RecordStays DEF DraftInv, HasResult
<1>5. CASE branch # Null
  <2> DEFINE d == [drafts[p] EXCEPT !.pc = "assert verify"]
  <2>1. d \in Attempts /\ d.pc = "assert verify" /\ d.commit = drafts[p].commit
    BY <1>1 DEF Attempts, DraftPlaces
  <2>2. drafts' = [drafts EXCEPT ![p] = d] /\ branch' = branch
    BY <1>5 DEF CreateBranch
  <2>3. commits' \in Nat /\ budgets' \in [attempts : Int, people : Int] /\ budgets'.people = budgets.people
    BY <1>3 DEF DraftInv, DraftTyped
  <2> HIDE DEF d
  <2>4. DraftIsSound(d)
    BY <1>2, <2>1 DEF DraftIsSound
  <2> QED BY <1>3, <2>1, <2>2, <2>3, <2>4, PublisherMoves
<1> QED
  BY <1>4, <1>5

\* What is opened is the branch as the publisher left or verified it, or as a
\* person moved it.
LEMMA OpenPullIsSound ==
  ASSUME DraftInv, NEW p \in Publishers, OpenPull(p)
  PROVE  DraftInv'
<1>1. drafts[p] \in Attempts /\ DraftIsSound(drafts[p]) /\ drafts[p].pc = "opening"
  BY DEF DraftInv, DraftTyped, OpenPull
<1>2. Publishable /\ (branch # Null => HasResult(branch) \/ drafts[p].moved)
  BY <1>1 DEF DraftIsSound
<1>3. UNCHANGED <<record, branch, commits, budgets>>
  BY DEF OpenPull
<1>4. PICK then \in {"published", "refused"} : drafts' = [drafts EXCEPT ![p].pc = then]
  BY DEF OpenPull
<1>5. PullIsSound'
  <2>1. CASE pull' = pull
    BY <1>3, <2>1, RecordStays DEF DraftInv, PullIsSound
  <2>2. CASE pull' # pull
    <3>1. /\ branch # Null
          /\ pull' = [by |-> p, carries |-> Carries(branch), moved |-> drafts[p].moved,
                      body |-> buildDraftPullRequestBodyFromReviewRecord(record)]
      BY <2>2 DEF OpenPull
    <3>2. Carries(branch) \/ drafts[p].moved
      BY <1>2, <3>1 DEF Carries, HasResult
    <3>3. pull'.carries \/ pull'.moved
      BY <3>1, <3>2
    <3>4. pull'.body = buildDraftPullRequestBodyFromReviewRecord(record)
      BY <3>1
    <3> QED BY <1>2, <1>3, <3>3, <3>4, RecordStays DEF PullIsSound
  <2> QED BY <2>1, <2>2
<1>6. DraftTyped'
  <2>1. drafts' \in [Publishers -> Attempts]
    BY <1>4 DEF DraftInv, DraftTyped, Attempts, DraftPlaces
  <2> QED BY <1>3, <2>1, RecordStays DEF DraftInv, DraftTyped
<1>7. ASSUME NEW q \in Publishers PROVE DraftIsSound(drafts[q])'
  <2>1. \/ drafts'[q] = drafts[q] /\ DraftIsSound(drafts[q])
        \/ drafts'[q] = [drafts[p] EXCEPT !.pc = then]
    BY <1>4 DEF DraftInv, DraftTyped
  <2>2. DraftIsSound(drafts'[q])
    BY <1>1, <1>2, <2>1 DEF DraftIsSound, Attempts
  <2> QED BY <1>3, <2>2, RecordStays DEF DraftIsSound, HasResult
<1> QED
  BY <1>3, <1>5, <1>6, <1>7, RecordStays DEF DraftInv, HasResult

\* Whatever people do to the branch is counted, and a publisher that had
\* created or verified it is known to have been overtaken.
LEMMA PeopleAreSound ==
  ASSUME DraftInv, PeopleStep
  PROVE  DraftInv'
<1>1. /\ record' = record /\ budgets.people > 0
      /\ budgets' = [budgets EXCEPT !.people = @ - 1]
  BY DEF PeopleStep, PersonPushes, PersonDeletesBranch, PersonClosesPull, PersonActs
<1>2. /\ budgets' \in [attempts : Int, people : Int]
      /\ budgets'.people < MaxPeople /\ budgets'.people < budgets.people
      /\ budgets'.people <= MaxPeople
  BY <1>1, DraftBounds DEF DraftInv, DraftTyped
<1>3. pull' = pull \/ pull' = Null
  BY DEF PeopleStep, PersonPushes, PersonDeletesBranch, PersonClosesPull
<1>4. PullIsSound'
  BY <1>1, <1>3, RecordStays DEF DraftInv, PullIsSound
<1>5. CASE PersonPushes
  <2>1. /\ commits' = commits + 1
        /\ drafts' = [q \in Publishers |-> [drafts[q] EXCEPT !.moved = TRUE]]
    BY <1>5 DEF PersonPushes
  <2>2. PICK tree \in {ResultTree, {}}, parents \in {<<BaseCommit>>, <<"other">>, <<BaseCommit, "other">>} :
           branch' = [sha |-> commits + 1, tree |-> tree, parents |-> parents]
    BY <1>5 DEF PersonPushes
  <2>3. DraftTyped'
    <3>1. branch' \in Commits /\ commits' \in Nat
      BY <2>1, <2>2 DEF DraftInv, DraftTyped, Commits
    <3>2. drafts' \in [Publishers -> Attempts]
      BY <2>1 DEF DraftInv, DraftTyped, Attempts
    <3> QED BY <1>1, <1>2, <3>1, <3>2, RecordStays DEF DraftInv, DraftTyped
  <2>4. ASSUME NEW q \in Publishers PROVE DraftIsSound(drafts[q])'
    <3>1. drafts[q] \in Attempts /\ DraftIsSound(drafts[q])
      BY DEF DraftInv, DraftTyped
    <3>2. drafts'[q].pc = drafts[q].pc /\ drafts'[q].commit = drafts[q].commit /\ drafts'[q].moved
      BY <2>1, <3>1 DEF Attempts
    <3> QED BY <1>1, <1>2, <3>1, <3>2, RecordStays DEF DraftIsSound, HasResult
  <2> QED BY <1>2, <1>4, <2>3, <2>4 DEF DraftInv
<1>6. CASE PersonDeletesBranch \/ PersonClosesPull
  <2>1. UNCHANGED <<drafts, commits>> /\ (branch' = branch \/ branch' = Null)
    BY <1>6 DEF PersonDeletesBranch, PersonClosesPull
  <2>2. DraftTyped'
    BY <1>1, <1>2, <2>1, RecordStays DEF DraftInv, DraftTyped
  <2>3. ASSUME NEW q \in Publishers PROVE DraftIsSound(drafts[q])'
    <3>1. DraftIsSound(drafts[q])
      BY DEF DraftInv
    <3> QED BY <1>1, <1>2, <2>1, <3>1, RecordStays DEF DraftIsSound, HasResult
  <2> QED BY <1>2, <1>4, <2>2, <2>3 DEF DraftInv
<1> QED
  BY <1>5, <1>6 DEF PeopleStep

-----------------------------------------------------------------------------
(***************************************************************************)
(* The issue review around it                                              *)
(***************************************************************************)
\* Every step of a publication of an issue review keeps the draft sound.
LEMMA IssueStepsKeepTheDraft ==
  ASSUME DraftInv, [IssueNext]_<<draftVars, issueVars>>
  PROVE  DraftInv'
<1>1. CASE UNCHANGED <<draftVars, issueVars>>
  BY <1>1, DraftRests DEF draftVars
<1>2. CASE PeopleStep
  BY <1>2, PeopleAreSound
<1>3. ASSUME NEW p \in Publishers, PublishDraft(p) PROVE DraftInv'
  BY <1>3, TakeUpIsSound DEF PublishDraft
<1>4. ASSUME NEW p \in Publishers, FailDraft(p) \/ CompleteDraft(p) \/ DraftAttemptDies(p) PROVE DraftInv'
  BY <1>4, PublisherRests DEF FailDraft, CompleteDraft, DraftAttemptDies
<1>5. ASSUME NEW p \in Publishers, DraftStep(p) PROVE DraftInv'
  BY <1>5, QuietStepsAreSound, CreateBranchIsSound, OpenPullIsSound DEF DraftStep
<1>6. ASSUME NEW p \in Publishers,
             \/ \E k \in DOMAIN steps : settleExhaustedStep(p, k)
             \/ PublishComment(p) \/ findIssueCommentByMarker(p) \/ assert_publication_claim(p)
             \/ createIssueComment(p) \/ completePublicationStep(p)
             \/ Write(p, "idle")
      PROVE DraftInv'
  BY <1>6, DraftRests
     DEF settleExhaustedStep, PublishComment, findIssueCommentByMarker, assert_publication_claim,
         createIssueComment, completePublicationStep, Write, draftVars
<1> QED
  BY <1>1, <1>2, <1>3, <1>4, <1>5, <1>6 DEF IssueNext, PublisherDies

\* A pull request the bot opened carries exactly the validated result, unless
\* a person moved the branch between the publisher's check and its opening; a
\* mismatch is only concluded about a commit that a person made; and the files
\* the body lists are the files of the tree (draft-pull-request.ts,
\* issues/draft-pr.ts).
THEOREM DraftsAlwaysCarryTheResult == IssueSpec => []DraftCarriesResult
<1>1. DraftInit => DraftInv
  <2> SUFFICES ASSUME DraftInit PROVE DraftInv
    OBVIOUS
  <2>1. IdleDraft \in Attempts /\ DraftIsSound(IdleDraft)
    BY DEF IdleDraft, Attempts, DraftPlaces, DraftIsSound
  <2>2. DraftTyped
    BY <2>1, DraftBounds DEF DraftInit, DraftTyped
  <2> QED BY <2>1, <2>2 DEF DraftInit, DraftInv, PullIsSound
<1>2. DraftInv /\ [IssueNext]_<<draftVars, issueVars>> => DraftInv'
  BY IssueStepsKeepTheDraft
<1>3. DraftInv => DraftCarriesResult
  <2> SUFFICES ASSUME DraftInv PROVE DraftCarriesResult
    OBVIOUS
  <2>1. record \in Records
    BY DEF DraftInv, DraftTyped
  <2>2. ASSUME pull # Null
        PROVE  /\ pull.carries \/ pull.moved
               /\ pull.body.files = {e.path : e \in ResultTree}
    <3>1. /\ pull.carries \/ pull.moved
          /\ pull.body = buildDraftPullRequestBodyFromReviewRecord(record)
          /\ Publishable
      BY <2>2 DEF DraftInv, PullIsSound
    <3>2. pull.body.files = normalizeDisplayFiles(record.files)
      BY <3>1 DEF buildDraftPullRequestBodyFromReviewRecord
    <3> QED BY <2>1, <3>1, <3>2, DisplayedFilesAreTheTree
  <2>3. \A p \in Publishers : drafts[p].pc = "mismatch" => budgets.people < MaxPeople
    BY DEF DraftInv, DraftIsSound
  <2> QED BY <2>2, <2>3 DEF DraftCarriesResult
<1> QED
  BY <1>1, <1>2, <1>3, PTL DEF IssueSpec

StepStatuses == {"open", "succeeded", "terminal_failed"}
WriterPlaces == {"idle", "finding", "assert", "posting", "posted"}
Writers == [pc : WriterPlaces, draft : {"pull", Null}]

TellingTyped ==
    /\ drafts \in [Publishers -> Attempts]
    /\ steps \in [{"draft-pr", "summary-comment"} -> StepStatuses]
    /\ writers \in [Publishers -> Writers]
    /\ comments \in Seq([link : {"pull", Null}, owner : BOOLEAN])

\* A publisher about to link a pull request belongs to a run that recorded
\* one, and one that is about to write everything to a run that opens none.
Links(link) == IF link # Null THEN steps["draft-pr"] = "succeeded" ELSE ~should_open_pr

NoOwnerWrote == \A i \in DOMAIN comments : ~comments[i].owner

\* What a publisher may rely on.  The step of the draft is open as long as
\* the owner of the claim works on it, so no failure takes a recorded pull
\* request back; and the owner has looked, and no owner wrote since.
WriterIsInformed(p) ==
    /\ drafts[p].pc # "idle" /\ claim = p => steps["draft-pr"] = "open"
    /\ writers[p].pc # "idle" => Links(writers[p].draft)
    /\ writers[p].pc \in {"assert", "posting"} /\ claim = p => NoOwnerWrote
    /\ writers[p].pc = "posted" => comments # << >>

CommentsAreSound ==
    /\ \A i \in DOMAIN comments : Links(comments[i].link)
    /\ \A i, j \in DOMAIN comments : comments[i].owner /\ comments[j].owner => i = j
    /\ steps["summary-comment"] = "succeeded" => comments # << >>

TellingInv == TellingTyped /\ CommentsAreSound /\ \A p \in Publishers : WriterIsInformed(p)

\* A recorded pull request is never taken back, and what a run was asked to
\* do stays, so a link that was right stays right.
LEMMA LinksStay ==
  ASSUME record' = record, openPr' = openPr,
         steps["draft-pr"] = "succeeded" => steps'["draft-pr"] = "succeeded"
  PROVE  /\ should_open_pr' = should_open_pr
         /\ \A link : Links(link) => Links(link)'
<1>1. should_open_pr' = should_open_pr
  BY DEF should_open_pr, Plan
<1> QED
  BY <1>1 DEF Links

\* Steps on the draft that leave the rest of the publication alone.
LEMMA DraftMovesKeepTelling ==
  ASSUME TellingInv, UNCHANGED <<record, claim, issueVars>>, drafts' \in [Publishers -> Attempts]',
         \A q \in Publishers : drafts'[q].pc # "idle" => drafts[q].pc # "idle"
  PROVE  TellingInv'
<1>1. TellingTyped'
  BY DEF TellingInv, TellingTyped, issueVars
<1>2. \A link : Links(link) => Links(link)'
  BY LinksStay DEF issueVars
<1>3. CommentsAreSound'
  BY <1>2 DEF TellingInv, CommentsAreSound, issueVars
<1>4. ASSUME NEW q \in Publishers PROVE WriterIsInformed(q)'
  <2>1. WriterIsInformed(q)
    BY DEF TellingInv
  <2> QED BY <1>2, <2>1 DEF WriterIsInformed, NoOwnerWrote, issueVars
<1> QED
  BY <1>1, <1>3, <1>4 DEF TellingInv

\* Steps of a draft start from a place that is not idle.
LEMMA DraftStepsAreBusy ==
  ASSUME DraftInv, NEW p \in Publishers, DraftStep(p) \/ DraftAttemptDies(p)
  PROVE  /\ UNCHANGED <<record, claim>>
         /\ \A q \in Publishers : drafts'[q].pc # "idle" => drafts[q].pc # "idle"
<1>1. drafts \in [Publishers -> Attempts]
  BY DEF DraftInv, DraftTyped
<1>2. drafts[p].pc # "idle" /\ UNCHANGED <<record, claim>>
  BY DEF DraftStep, DraftAttemptDies, ListPulls, BuildCommit, AssertBeforeBranch, AssertBeforeVerify,
         AssertBeforeOpen, AssertClaim, CreateBranch, VerifyBranch, OpenPull
<1>3. \A q \in Publishers : q # p => drafts'[q] = drafts[q]
  BY <1>1 DEF DraftStep, DraftAttemptDies, ListPulls, BuildCommit, AssertBeforeBranch, AssertBeforeVerify,
              AssertBeforeOpen, AssertClaim, CreateBranch, VerifyBranch, OpenPull
<1> QED
  BY <1>2, <1>3

\* A publisher claims the publication while it does nothing else.
LEMMA ClaimsKeepTelling ==
  ASSUME TellingInv, NEW p \in Publishers, Free(p), claim' = p, UNCHANGED <<record, openPr, comments>>,
         drafts' \in [Publishers -> Attempts]', \A q \in Publishers : q # p => drafts'[q] = drafts[q],
         steps' \in [{"draft-pr", "summary-comment"} -> StepStatuses],
         \A k \in {"draft-pr", "summary-comment"} : steps'[k] # steps[k] => steps[k] = "open",
         steps'["summary-comment"] = "succeeded" /\ steps["summary-comment"] = "open" => comments # << >>,
         drafts'[p].pc # "idle" => steps'["draft-pr"] = "open",
         NEW w \in Writers, writers' = [writers EXCEPT ![p] = w],
         w.pc \in {"idle", "finding"}, w.pc # "idle" => Links(w.draft)
  PROVE  TellingInv'
<1>1. TellingTyped'
  BY DEF TellingInv, TellingTyped
<1>2. \A link : Links(link) => Links(link)'
  BY LinksStay
<1>3. CommentsAreSound'
  <2>1. steps'["summary-comment"] = "succeeded" => comments # << >>
    BY DEF TellingInv, CommentsAreSound
  <2> QED BY <1>2, <2>1 DEF TellingInv, CommentsAreSound
<1>4. ASSUME NEW q \in Publishers PROVE WriterIsInformed(q)'
  <2>1. WriterIsInformed(q)
    BY DEF TellingInv
  <2>2. CASE q = p
    <3>1. writers'[q] = w
      BY <2>2 DEF TellingInv, TellingTyped
    <3> QED BY <1>2, <2>2, <3>1 DEF WriterIsInformed
  <2>3. CASE q # p
    <3>1. writers'[q] = writers[q] /\ drafts'[q] = drafts[q]
      BY <2>3 DEF TellingInv, TellingTyped
    <3> QED BY <1>2, <2>1, <2>3, <3>1 DEF WriterIsInformed
  <2> QED BY <2>2, <2>3
<1> QED
  BY <1>1, <1>3, <1>4 DEF TellingInv

\* The steps that claim the publication.
LEMMA ClaimingStepsKeepTelling ==
  ASSUME DraftInv, DraftInv', TellingInv, NEW p \in Publishers,
         \/ PublishDraft(p) \/ PublishComment(p)
         \/ \E k \in DOMAIN steps : settleExhaustedStep(p, k)
  PROVE  TellingInv'
<1> USE DEF Free
<1>1. /\ drafts' \in [Publishers -> Attempts]'
      /\ steps \in [{"draft-pr", "summary-comment"} -> StepStatuses]
      /\ writers \in [Publishers -> Writers] /\ drafts \in [Publishers -> Attempts]
  BY DEF DraftInv, DraftTyped, TellingInv, TellingTyped
<1>2. writers[p] \in Writers /\ writers = [writers EXCEPT ![p] = writers[p]]
  BY <1>1
<1>3. CASE PublishDraft(p)
  <2>1. /\ Free(p) /\ claim' = p /\ UNCHANGED <<record, openPr, comments, steps, writers>>
        /\ steps["draft-pr"] = "open"
    BY <1>3 DEF PublishDraft, TakeUp, issueVars
  <2>2. \A q \in Publishers : q # p => drafts'[q] = drafts[q]
    BY <1>1, <1>3 DEF PublishDraft, TakeUp
  <2>3. steps' \in [{"draft-pr", "summary-comment"} -> StepStatuses]
    BY <1>1, <2>1
  <2>4. writers' = [writers EXCEPT ![p] = writers[p]] /\ writers[p].pc = "idle"
    BY <1>2, <2>1
  <2> QED BY <1>1, <1>2, <2>1, <2>2, <2>3, <2>4, ClaimsKeepTelling
<1>4. CASE PublishComment(p)
  <2> DEFINE w == [pc |-> "finding", draft |-> IF should_open_pr THEN "pull" ELSE Null]
  <2>1. /\ Free(p) /\ claim' = p /\ UNCHANGED <<record, openPr, comments, steps, drafts>>
        /\ should_open_pr => steps["draft-pr"] = "succeeded"
        /\ writers' = [writers EXCEPT ![p] = w]
    BY <1>4 DEF PublishComment
  <2>2. w \in Writers /\ w.pc = "finding" /\ Links(w.draft)
    BY <2>1, NullIsNoLink DEF Writers, WriterPlaces, Links
  <2>3. steps' \in [{"draft-pr", "summary-comment"} -> StepStatuses]
    BY <1>1, <2>1
  <2> HIDE DEF w
  <2> QED BY <1>1, <2>1, <2>2, <2>3, ClaimsKeepTelling
<1>5. ASSUME NEW k \in DOMAIN steps, settleExhaustedStep(p, k) PROVE TellingInv'
  <2>1. /\ Free(p) /\ claim' = p /\ UNCHANGED <<record, openPr, comments, drafts, writers>>
        /\ steps[k] = "open" /\ k \in {"draft-pr", "summary-comment"}
    BY <1>1, <1>5 DEF settleExhaustedStep
  <2>2. PICK status \in {"succeeded", "terminal_failed"} : steps' = [steps EXCEPT ![k] = status]
    BY <1>5 DEF settleExhaustedStep
  <2>3. /\ steps' \in [{"draft-pr", "summary-comment"} -> StepStatuses]
        /\ \A j \in {"draft-pr", "summary-comment"} : steps'[j] # steps[j] => steps[j] = "open"
    BY <1>1, <2>1, <2>2 DEF StepStatuses
  <2>4. steps'["summary-comment"] = "succeeded" /\ steps["summary-comment"] = "open" => comments # << >>
    BY <1>1, <1>5, <2>1 DEF settleExhaustedStep
  <2>5. writers' = [writers EXCEPT ![p] = writers[p]] /\ writers[p].pc = "idle"
    BY <1>2, <2>1
  <2> QED BY <1>1, <1>2, <2>1, <2>3, <2>4, <2>5, ClaimsKeepTelling
<1> QED
  BY <1>3, <1>4, <1>5

\* The end of a draft is recorded by the owner of the claim alone, whose step
\* is still open.
LEMMA DraftEndingsKeepTelling ==
  ASSUME DraftInv', TellingInv, NEW p \in Publishers, FailDraft(p) \/ CompleteDraft(p)
  PROVE  TellingInv'
<1>1. /\ drafts' \in [Publishers -> Attempts]'
      /\ steps \in [{"draft-pr", "summary-comment"} -> StepStatuses]
      /\ writers \in [Publishers -> Writers] /\ drafts \in [Publishers -> Attempts]
  BY DEF DraftInv, DraftTyped, TellingInv, TellingTyped
<1>2. /\ UNCHANGED <<record, claim, openPr, comments>> /\ drafts[p].pc # "idle"
      /\ drafts' = [drafts EXCEPT ![p] = IdleDraft]
  BY DEF FailDraft, CompleteDraft
<1>3. claim = p => steps["draft-pr"] = "open"
  BY <1>2 DEF TellingInv, WriterIsInformed
<1>4. /\ steps' \in [{"draft-pr", "summary-comment"} -> StepStatuses]
      /\ steps'["summary-comment"] = steps["summary-comment"]
      /\ steps'["draft-pr"] # steps["draft-pr"] => claim = p
  BY <1>1 DEF FailDraft, CompleteDraft, StepStatuses
<1>5. \/ writers' = writers
      \/ /\ writers' = [writers EXCEPT ![p] = [pc |-> "finding", draft |-> "pull"]]
         /\ steps'["draft-pr"] = "succeeded"
  BY <1>1 DEF FailDraft, CompleteDraft
<1>6. TellingTyped'
  <2>1. [pc |-> "finding", draft |-> "pull"] \in Writers
    BY DEF Writers, WriterPlaces
  <2>2. writers' \in [Publishers -> Writers]
    BY <1>1, <1>5, <2>1
  <2> QED BY <1>1, <1>2, <1>4, <2>2 DEF TellingInv, TellingTyped
<1>7. \A link : Links(link) => Links(link)'
  BY <1>2, <1>3, <1>4, LinksStay
<1>8. CommentsAreSound'
  BY <1>2, <1>4, <1>7 DEF TellingInv, CommentsAreSound
<1>9. ASSUME NEW q \in Publishers PROVE WriterIsInformed(q)'
  <2>1. WriterIsInformed(q)
    BY DEF TellingInv
  <2>2. drafts'[q].pc # "idle" /\ claim' = q => steps'["draft-pr"] = "open"
    <3>1. drafts'[q].pc # "idle" => q # p /\ drafts'[q] = drafts[q]
      BY <1>1, <1>2 DEF IdleDraft
    <3> QED BY <1>2, <1>4, <2>1, <3>1 DEF WriterIsInformed
  <2>3. CASE writers'[q] = writers[q]
    BY <1>2, <1>7, <2>1, <2>2, <2>3 DEF WriterIsInformed, NoOwnerWrote
  <2>4. CASE writers'[q] # writers[q]
    <3>1. writers'[q].pc = "finding" /\ writers'[q].draft = "pull" /\ steps'["draft-pr"] = "succeeded"
      BY <1>1, <1>5, <2>4
    <3> QED BY <2>2, <3>1, NullIsNoLink DEF WriterIsInformed, Links
  <2> QED BY <2>3, <2>4
<1> QED
  BY <1>6, <1>8, <1>9 DEF TellingInv

\* A writer that goes on while nobody writes.
LEMMA WriterMovesKeepTelling ==
  ASSUME TellingInv, NEW p \in Publishers, NEW w \in Writers, writers' = [writers EXCEPT ![p] = w],
         UNCHANGED <<draftVars, openPr, comments>>,
         steps' \in [{"draft-pr", "summary-comment"} -> StepStatuses],
         steps'["draft-pr"] = steps["draft-pr"],
         steps'["summary-comment"] # steps["summary-comment"] => comments # << >>,
         w.pc # "idle" => Links(w.draft),
         w.pc \in {"assert", "posting"} /\ claim = p => NoOwnerWrote,
         w.pc = "posted" => comments # << >>
  PROVE  TellingInv'
<1>1. TellingTyped'
  BY RecordStays DEF TellingInv, TellingTyped, draftVars
<1>2. \A link : Links(link) => Links(link)'
  BY LinksStay DEF draftVars
<1>3. CommentsAreSound'
  BY <1>2 DEF TellingInv, CommentsAreSound
<1>4. ASSUME NEW q \in Publishers PROVE WriterIsInformed(q)'
  <2>1. WriterIsInformed(q) /\ claim' = claim /\ drafts' = drafts
    BY DEF TellingInv, draftVars
  <2>2. CASE q = p
    <3>1. writers'[q] = w
      BY <2>2 DEF TellingInv, TellingTyped
    <3> QED BY <1>2, <2>1, <2>2, <3>1 DEF WriterIsInformed, NoOwnerWrote
  <2>3. CASE q # p
    <3>1. writers'[q] = writers[q]
      BY <2>3 DEF TellingInv, TellingTyped
    <3> QED BY <1>2, <2>1, <2>3, <3>1 DEF WriterIsInformed, NoOwnerWrote
  <2> QED BY <2>2, <2>3
<1> QED
  BY <1>1, <1>3, <1>4 DEF TellingInv

\* The comment of the owner of the claim is the first of an owner, because it
\* looked before and no owner wrote since.
LEMMA CreatingKeepsTelling ==
  ASSUME TellingInv, NEW p \in Publishers, createIssueComment(p)
  PROVE  TellingInv'
<1> DEFINE c == [link |-> writers[p].draft, owner |-> claim = p]
           w == [writers[p] EXCEPT !.pc = "posted"]
<1>1. /\ writers[p] \in Writers /\ WriterIsInformed(p) /\ writers[p].pc = "posting"
      /\ comments \in Seq([link : {"pull", Null}, owner : BOOLEAN])
  BY DEF createIssueComment, TellingInv, TellingTyped
<1>2. comments' = Append(comments, c) /\ steps' = steps /\ UNCHANGED <<draftVars, openPr>>
  BY DEF createIssueComment, Write
<1>3. w \in Writers /\ w.pc = "posted" /\ w.draft = writers[p].draft
  BY <1>1 DEF Writers, WriterPlaces
<1>4. writers' = [writers EXCEPT ![p] = w]
  BY DEF createIssueComment, Write
<1>5. c \in [link : {"pull", Null}, owner : BOOLEAN] /\ c.link = writers[p].draft /\ (c.owner <=> claim = p)
  BY <1>1 DEF Writers
<1> HIDE DEF c, w
<1>6. /\ comments' \in Seq([link : {"pull", Null}, owner : BOOLEAN]) /\ comments' # << >>
      /\ DOMAIN comments' = DOMAIN comments \cup {Len(comments) + 1}
      /\ Len(comments) + 1 \notin DOMAIN comments
      /\ comments'[Len(comments) + 1] = c
      /\ \A i \in DOMAIN comments : comments'[i] = comments[i]
  BY <1>1, <1>2, <1>5
<1>7. TellingTyped'
  BY <1>2, <1>3, <1>4, <1>6, RecordStays DEF TellingInv, TellingTyped, draftVars
<1>8. \A link : Links(link) => Links(link)'
  BY <1>2, LinksStay DEF draftVars
<1>9. CommentsAreSound'
  <2>1. Links(c.link)
    BY <1>1, <1>5 DEF WriterIsInformed
  <2>2. ASSUME NEW i \in DOMAIN comments' PROVE Links(comments[i].link)'
    <3>1. PICK link : link = comments'[i].link
      OBVIOUS
    <3>2. Links(link)
      BY <1>6, <2>1, <3>1 DEF TellingInv, CommentsAreSound
    <3> QED BY <1>8, <3>1, <3>2 DEF Links
  <2>3. c.owner => NoOwnerWrote
    BY <1>1, <1>5 DEF WriterIsInformed
  <2>4. ASSUME NEW i \in DOMAIN comments', NEW j \in DOMAIN comments', comments'[i].owner, comments'[j].owner
        PROVE  i = j
    <3>1. CASE i \in DOMAIN comments /\ j \in DOMAIN comments
      BY <1>6, <2>4, <3>1 DEF TellingInv, CommentsAreSound
    <3>2. CASE i = Len(comments) + 1 \/ j = Len(comments) + 1
      BY <1>6, <2>3, <2>4, <3>2 DEF NoOwnerWrote
    <3> QED BY <1>6, <3>1, <3>2
  <2>5. \A i \in DOMAIN comments' : Links(comments[i].link)'
    BY <2>2
  <2> QED BY <1>6, <2>4, <2>5 DEF CommentsAreSound
<1>10. ASSUME NEW q \in Publishers PROVE WriterIsInformed(q)'
  <2>1. WriterIsInformed(q) /\ claim' = claim /\ drafts' = drafts
    BY <1>2 DEF TellingInv, draftVars
  <2>2. CASE q = p
    <3>1. writers'[q] = w
      BY <1>4, <2>2 DEF TellingInv, TellingTyped
    <3>2. Links(w.draft)
      BY <1>1, <1>3 DEF WriterIsInformed
    <3> QED BY <1>2, <1>3, <1>6, <1>8, <2>1, <2>2, <3>1, <3>2 DEF WriterIsInformed
  <2>3. CASE q # p
    <3>1. writers'[q] = writers[q]
      BY <1>4, <2>3 DEF TellingInv, TellingTyped
    <3>2. claim = q => ~c.owner
      BY <1>5, <2>3
    <3>3. claim = q /\ NoOwnerWrote => NoOwnerWrote'
      BY <1>6, <3>2 DEF NoOwnerWrote
    <3> QED BY <1>2, <1>6, <1>8, <2>1, <3>1, <3>3 DEF WriterIsInformed
  <2> QED BY <2>2, <2>3
<1> QED
  BY <1>7, <1>9, <1>10 DEF TellingInv

\* The other steps of a writer.
LEMMA WriterStepsKeepTelling ==
  ASSUME TellingInv, NEW p \in Publishers,
         \/ findIssueCommentByMarker(p) \/ assert_publication_claim(p) \/ completePublicationStep(p)
         \/ Write(p, "idle") /\ UNCHANGED <<steps, comments>>
  PROVE  TellingInv'
<1>1. /\ writers[p] \in Writers /\ WriterIsInformed(p)
      /\ steps \in [{"draft-pr", "summary-comment"} -> StepStatuses]
  BY DEF TellingInv, TellingTyped
<1>2. UNCHANGED <<draftVars, openPr, comments>>
  BY DEF findIssueCommentByMarker, assert_publication_claim, completePublicationStep, Write
<1>3. /\ steps' \in [{"draft-pr", "summary-comment"} -> StepStatuses]
      /\ steps'["draft-pr"] = steps["draft-pr"]
      /\ steps'["summary-comment"] # steps["summary-comment"] => comments # << >>
  BY <1>1 DEF findIssueCommentByMarker, assert_publication_claim, completePublicationStep, Write,
              WriterIsInformed, StepStatuses
<1>4. CASE writers' = [writers EXCEPT ![p] = IdleWriter]
  <2>1. IdleWriter \in Writers /\ IdleWriter.pc = "idle"
    BY DEF IdleWriter, Writers, WriterPlaces
  <2> QED BY <1>2, <1>3, <1>4, <2>1, WriterMovesKeepTelling
<1>5. ASSUME NEW pc \in {"assert", "posting", "posted"}, writers[p].pc # "idle",
             writers' = [writers EXCEPT ![p] = [writers[p] EXCEPT !.pc = pc]],
             pc \in {"assert", "posting"} /\ claim = p => NoOwnerWrote,
             pc = "posted" => comments # << >>
      PROVE  TellingInv'
  <2> DEFINE w == [writers[p] EXCEPT !.pc = pc]
  <2>1. w \in Writers /\ w.pc = pc /\ w.draft = writers[p].draft
    BY <1>1 DEF Writers, WriterPlaces
  <2>2. Links(w.draft)
    BY <1>1, <1>5, <2>1 DEF WriterIsInformed
  <2>3. writers' = [writers EXCEPT ![p] = w]
    BY <1>5
  <2> HIDE DEF w
  <2> QED BY <1>2, <1>3, <1>5, <2>1, <2>2, <2>3, WriterMovesKeepTelling
<1>6. CASE findIssueCommentByMarker(p)
  <2> DEFINE pc == IF comments # << >> THEN "posted" ELSE "assert"
  <2>1. writers[p].pc # "idle" /\ writers' = [writers EXCEPT ![p] = [writers[p] EXCEPT !.pc = pc]]
    BY <1>6 DEF findIssueCommentByMarker, Write
  <2>2. comments = << >> => NoOwnerWrote
    BY DEF NoOwnerWrote
  <2> QED BY <1>5, <2>1, <2>2
<1>7. CASE assert_publication_claim(p)
  <2>1. CASE claim = p
    <3>1. writers[p].pc = "assert" /\ writers' = [writers EXCEPT ![p] = [writers[p] EXCEPT !.pc = "posting"]]
      BY <1>7, <2>1 DEF assert_publication_claim, Write
    <3>2. NoOwnerWrote
      BY <1>1, <2>1, <3>1 DEF WriterIsInformed
    <3> QED BY <1>5, <3>1, <3>2
  <2>2. CASE claim # p
    BY <1>4, <1>7, <2>2 DEF assert_publication_claim, Write
  <2> QED BY <2>1, <2>2
<1>8. CASE completePublicationStep(p) \/ Write(p, "idle")
  BY <1>4, <1>8 DEF completePublicationStep, Write
<1> QED
  BY <1>6, <1>7, <1>8

\* What an issue review says reaches its readers: a comment that leaves the
\* details to a draft pull request belongs to a run that recorded one, whose
\* body holds the rest; a comment without a link holds everything, and is
\* never written by a run that was to open a pull request; the holders of the
\* claim leave one comment between them (reviews/issues/publish.ts,
\* issues/renderer.ts).
THEOREM IssueReviewsAreAlwaysTold == IssueSpec => []IssueReviewIsTold
<1>1. DraftInit /\ IssueInit => DraftInv /\ TellingInv
  <2> SUFFICES ASSUME DraftInit, IssueInit PROVE DraftInv /\ TellingInv
    OBVIOUS
  <2>1. IdleDraft \in Attempts /\ DraftIsSound(IdleDraft) /\ IdleDraft.pc = "idle"
    BY DEF IdleDraft, Attempts, DraftPlaces, DraftIsSound
  <2>2. DraftInv
    <3>1. DraftTyped
      BY <2>1, DraftBounds DEF DraftInit, DraftTyped
    <3> QED BY <2>1, <3>1 DEF DraftInit, DraftInv, PullIsSound
  <2>3. IdleWriter \in Writers /\ IdleWriter.pc = "idle"
    BY DEF IdleWriter, Writers, WriterPlaces
  <2>4. TellingTyped
    BY <2>1, <2>3 DEF DraftInit, IssueInit, TellingTyped, StepStatuses
  <2>5. comments = << >> /\ steps["summary-comment"] = "open"
    BY DEF IssueInit
  <2>6. CommentsAreSound
    BY <2>5 DEF CommentsAreSound
  <2>7. ASSUME NEW p \in Publishers PROVE WriterIsInformed(p)
    BY <2>1, <2>3 DEF DraftInit, IssueInit, WriterIsInformed
  <2> QED BY <2>2, <2>4, <2>6, <2>7 DEF TellingInv
<1>2. DraftInv /\ TellingInv /\ [IssueNext]_<<draftVars, issueVars>> => DraftInv' /\ TellingInv'
  <2> SUFFICES ASSUME DraftInv, TellingInv, [IssueNext]_<<draftVars, issueVars>>
               PROVE  DraftInv' /\ TellingInv'
    OBVIOUS
  <2>1. DraftInv'
    BY IssueStepsKeepTheDraft
  <2>2. drafts \in [Publishers -> Attempts] /\ drafts' \in [Publishers -> Attempts]'
    BY <2>1 DEF DraftInv, DraftTyped
  <2>3. CASE UNCHANGED <<draftVars, issueVars>>
    <3>1. UNCHANGED <<record, claim, issueVars>> /\ drafts' = drafts
      BY <2>3 DEF draftVars
    <3>2. \A q \in Publishers : drafts'[q].pc # "idle" => drafts[q].pc # "idle"
      BY <3>1
    <3> QED BY <2>1, <2>2, <3>1, <3>2, DraftMovesKeepTelling
  <2>4. CASE PeopleStep /\ UNCHANGED issueVars
    <3>1. UNCHANGED <<record, claim>> /\ \A q \in Publishers : drafts'[q].pc # "idle" => drafts[q].pc # "idle"
      <4>1. CASE PersonPushes
        <5>1. \A q \in Publishers : drafts'[q] = [drafts[q] EXCEPT !.moved = TRUE]
          BY <4>1 DEF PersonPushes
        <5> QED BY <4>1, <2>2, <5>1 DEF PersonPushes, Attempts
      <4>2. CASE PersonDeletesBranch \/ PersonClosesPull
        BY <4>2 DEF PersonDeletesBranch, PersonClosesPull
      <4> QED BY <2>4, <4>1, <4>2 DEF PeopleStep
    <3>2. UNCHANGED <<record, claim, issueVars>>
      BY <2>4, <3>1
    <3>3. \A q \in Publishers : drafts'[q].pc # "idle" => drafts[q].pc # "idle"
      BY <3>1
    <3> QED BY <2>1, <2>2, <3>2, <3>3, DraftMovesKeepTelling
  <2>5. ASSUME NEW p \in Publishers, DraftStep(p) \/ DraftAttemptDies(p), UNCHANGED issueVars
        PROVE  TellingInv'
    BY <2>2, <2>5, DraftStepsAreBusy, DraftMovesKeepTelling
  <2>6. ASSUME NEW p \in Publishers,
               \/ PublishDraft(p) \/ PublishComment(p)
               \/ \E k \in DOMAIN steps : settleExhaustedStep(p, k)
        PROVE  TellingInv'
    BY <2>1, <2>6, ClaimingStepsKeepTelling
  <2>7. ASSUME NEW p \in Publishers, FailDraft(p) \/ CompleteDraft(p) PROVE TellingInv'
    BY <2>1, <2>7, DraftEndingsKeepTelling
  <2>8. ASSUME NEW p \in Publishers, createIssueComment(p) PROVE TellingInv'
    BY <2>8, CreatingKeepsTelling
  <2>9. ASSUME NEW p \in Publishers,
               \/ findIssueCommentByMarker(p) \/ assert_publication_claim(p) \/ completePublicationStep(p)
               \/ Write(p, "idle") /\ UNCHANGED <<steps, comments>>
        PROVE  TellingInv'
    BY <2>9, WriterStepsKeepTelling
  <2> QED
    BY <2>1, <2>3, <2>4, <2>5, <2>6, <2>7, <2>8, <2>9 DEF IssueNext, PublisherDies
<1>3. TellingInv => IssueReviewIsTold
  <2> SUFFICES ASSUME TellingInv PROVE IssueReviewIsTold
    OBVIOUS
  <2> DEFINE comment(link) == renderIssueReviewCommentFromReviewRecord(record, Plan, link)
             body == buildDraftPullRequestBodyFromReviewRecord(record)
             lines == {"coverage", "regression", "level", "next step", "claim"}
             more == IF record.residual THEN {"findings", "evidence", "residual risks"} ELSE {}
             whole == {"verdict", "analysis", "mitigation", "coverage", "regression", "level",
                       "next step", "claim"} \cup more
  <2>1. renderVerificationSummaryLines(record, TRUE) = lines \cup more
    BY DEF renderVerificationSummaryLines
  <2>2. /\ body.sections = {"mitigation", "verdict", "analysis", "notes"} \cup lines \cup more
        /\ body.narratives = renderAnalysisNarratives(record.narratives)
        /\ body.status.mitigation = mitigationHeadline(record.verdict, fileChangePaths(record.files))
    <3> HIDE DEF lines, more
    <3> QED BY <2>1 DEF buildDraftPullRequestBodyFromReviewRecord, renderAnalysisSection, renderReviewStatusLines
  <2>3. comment("pull").status.mitigation = mitigationHeadline(record.verdict, fileChangePaths(record.files))
    BY NullIsNoLink DEF renderIssueReviewCommentFromReviewRecord, renderReviewStatusLines
  <2>4. /\ {"mitigation", "verdict", "analysis"} \cup lines \cup more \subseteq comment(Null).sections
        /\ comment(Null).narratives = renderAnalysisNarratives(record.narratives)
        /\ fileChangePaths(record.files) \subseteq comment(Null).files
    <3> HIDE DEF lines, more
    <3> QED BY <2>1 DEF renderIssueReviewCommentFromReviewRecord, renderAnalysisSection
  <2>5. whole \subseteq body.sections /\ whole \subseteq comment(Null).sections
    <3>1. whole = {"mitigation", "verdict", "analysis"} \cup lines \cup more
      OBVIOUS
    <3> HIDE DEF lines, more, whole, body, comment
    <3> QED BY <2>2, <2>4, <3>1
  <2>6. ASSUME NEW i \in DOMAIN comments
        PROVE  IF comments[i].link # Null
               THEN /\ steps["draft-pr"] = "succeeded"
                    /\ whole \subseteq comment("pull").sections \cup body.sections
                    /\ body.narratives = comment(Null).narratives
                    /\ comment("pull").status.mitigation = body.status.mitigation
               ELSE /\ ~should_open_pr
                    /\ whole \subseteq comment(Null).sections
                    /\ fileChangePaths(record.files) \subseteq comment(Null).files
    <3> HIDE DEF lines, more, whole, body, comment
    <3>1. Links(comments[i].link)
      BY DEF TellingInv, CommentsAreSound
    <3> QED BY <2>2, <2>3, <2>4, <2>5, <3>1 DEF Links
  <2>7. /\ \A i, j \in DOMAIN comments : comments[i].owner /\ comments[j].owner => i = j
        /\ steps["summary-comment"] = "succeeded" => comments # << >>
    BY DEF TellingInv, CommentsAreSound
  <2> QED BY <2>6, <2>7 DEF IssueReviewIsTold
<1> QED
  BY <1>1, <1>2, <1>3, PTL DEF IssueSpec

-----------------------------------------------------------------------------
(***************************************************************************)
(* The review of a pull request                                            *)
(***************************************************************************)
\* A set of at most one element is finite.
LEMMA SmallIsFinite ==
  ASSUME NEW S, S = {} \/ \E x : S = {x}
  PROVE  IsFiniteSet(S)
<1>1. CASE S = {}
  BY <1>1, FS_EmptySet, Zenon
<1>2. ASSUME NEW x, S = {x} PROVE IsFiniteSet(S)
  <2>1. IsFiniteSet({x})
    BY FS_Singleton, Zenon
  <2> QED BY <1>2, <2>1, Zenon
<1> QED BY <1>1, <1>2

\* What a function makes of a finite set is finite.
LEMMA ImageIsFinite ==
  ASSUME NEW S, IsFiniteSet(S), NEW f
  PROVE  IsFiniteSet({f[x] : x \in S})
<1> DEFINE T == {f[x] : x \in S}
           g == [x \in S |-> f[x]]
<1>1. g \in [S -> T] /\ \A t \in T : \E x \in S : g[x] = t
  OBVIOUS
<1>2. g \in Surjection(S, T)
  <2> HIDE DEF g, T
  <2> QED BY <1>1 DEF Surjection
<1> HIDE DEF g, T
<1>3. IsFiniteSet(T)
  BY <1>2, FS_Surjection, Zenon
<1> QED
  BY <1>3 DEF T

\* A run of changed lines becomes at most one block.
LEMMA BlocksOfARunAreFinite ==
  ASSUME NEW hunk, NEW start
  PROVE  IsFiniteSet(BlocksOfRun(hunk, start))
<1> DEFINE end == RunEnd(hunk, start)
           run == SubSeq(hunk.lines, start, end)
           added == TextsOf(run, "added")
           core == TrimEnd(added)
           removed == {OldLineAt(hunk, i) : i \in {j \in start..end : hunk.lines[j].mark = "removed"}}
           block(first, last, texts) ==
               [run |-> start, start_line |-> first, line |-> last, replacement |-> texts]
           line == OldLineAt(hunk, start)
           insertions == {block(line, line, texts) : texts \in Anchored(hunk, start, end, core)}
<1>1. \/ BlocksOfRun(hunk, start) = {}
      \/ \E b : BlocksOfRun(hunk, start) = {b}
      \/ BlocksOfRun(hunk, start) = insertions
  <2> HIDE DEF end, run, core, removed
  <2> QED BY DEF BlocksOfRun, end, run, core, removed
<1>2. insertions = {} \/ \E b : insertions = {b}
  <2> HIDE DEF end, core, line
  <2>1. Anchored(hunk, start, end, core) = {} \/ \E t : Anchored(hunk, start, end, core) = {t}
    BY DEF Anchored
  <2> QED BY <2>1
<1> HIDE DEF insertions
<1> QED
  BY <1>1, <1>2, SmallIsFinite

\* So the blocks of a hunk are finite, and so is what cannot be suggested.
LEMMA UnmappedIsFinite ==
  ASSUME patch \in Patches
  PROVE  IsFiniteSet(Manifest.unmapped)
<1> DEFINE file == patch.file
<1>1. IsFiniteSet(DOMAIN file.hunks) /\ \A h \in DOMAIN file.hunks : IsFiniteSet(DOMAIN file.hunks[h].lines)
  BY PatchesAreFinite
<1> HIDE DEF file
<1>2. ASSUME NEW h \in DOMAIN file.hunks PROVE IsFiniteSet(splitWorkspaceHunkIntoSuggestionBlocks(file.hunks[h]))
  <2> DEFINE hunk == file.hunks[h]
             blocksOf == [start \in RunStarts(hunk) |-> BlocksOfRun(hunk, start)]
             sets == {blocksOf[start] : start \in RunStarts(hunk)}
  <2>1. IsFiniteSet(RunStarts(hunk))
    <3>1. RunStarts(hunk) \in SUBSET DOMAIN hunk.lines
      BY DEF RunStarts
    <3> QED BY <1>1, <3>1, FS_Subset
  <2>2. IsFiniteSet(sets)
    <3> HIDE DEF blocksOf
    <3> QED BY <2>1, ImageIsFinite
  <2>3. \A S \in sets : IsFiniteSet(S)
    BY BlocksOfARunAreFinite
  <2>4. UNION sets = splitWorkspaceHunkIntoSuggestionBlocks(hunk)
    BY DEF splitWorkspaceHunkIntoSuggestionBlocks
  <2> HIDE DEF sets
  <2>5. IsFiniteSet(UNION sets)
    BY <2>2, <2>3, FS_UNION
  <2> QED BY <2>4, <2>5
<1>3. ASSUME NEW h \in DOMAIN file.hunks PROVE IsFiniteSet(HunkManifest(file, h).unmapped)
  <2> DEFINE blocks == splitWorkspaceHunkIntoSuggestionBlocks(file.hunks[h])
             lost == {b \in blocks : findAnchoringHunkForBlock(b, file.pr) = {}}
             reason == [b \in lost |-> Unmapped("no_overlap", h, b.run)]
  <2>1. IsFiniteSet(lost)
    <3>1. lost \in SUBSET blocks /\ IsFiniteSet(blocks)
      BY <1>2
    <3> HIDE DEF lost, blocks
    <3> QED BY <3>1, FS_Subset
  <2>2. IsFiniteSet({reason[b] : b \in lost})
    <3> HIDE DEF reason, lost
    <3> QED BY <2>1, ImageIsFinite
  <2>3. \/ HunkManifest(file, h).unmapped = {Unmapped("empty", h, 0)}
        \/ HunkManifest(file, h).unmapped = {Unmapped("no_overlap", h, b.run) : b \in lost}
    <3> HIDE DEF blocks
    <3> QED BY DEF HunkManifest, blocks
  <2>4. {reason[b] : b \in lost} = {Unmapped("no_overlap", h, b.run) : b \in lost}
    <3> HIDE DEF lost
    <3> QED OBVIOUS
  <2> HIDE DEF reason, lost
  <2> QED BY <2>2, <2>3, <2>4, SmallIsFinite
<1>4. IsFiniteSet(FileManifest(file).unmapped)
  <2> DEFINE left == [h \in DOMAIN file.hunks |-> HunkManifest(file, h).unmapped]
             sets == {left[h] : h \in DOMAIN file.hunks}
  <2>1. IsFiniteSet(sets)
    <3> HIDE DEF left
    <3> QED BY <1>1, ImageIsFinite
  <2>2. \A S \in sets : IsFiniteSet(S)
    BY <1>3
  <2>3. {m.unmapped : m \in {HunkManifest(file, h) : h \in DOMAIN file.hunks}} = sets
    OBVIOUS
  <2>4. \/ \E u : FileManifest(file).unmapped = {u}
        \/ FileManifest(file).unmapped =
             UNION {m.unmapped : m \in {HunkManifest(file, h) : h \in DOMAIN file.hunks}}
    BY DEF FileManifest
  <2> HIDE DEF sets
  <2>5. IsFiniteSet(UNION sets)
    BY <2>1, <2>2, FS_UNION
  <2> QED BY <2>3, <2>4, <2>5, SmallIsFinite
<1>5. Manifest.unmapped = FileManifest(file).unmapped \/ Manifest.unmapped = {}
  BY DEF Manifest, file
<1> QED
  BY <1>4, <1>5, SmallIsFinite

ReviewPlaces == {"idle", "finding", "creating", "done"}

\* An approval is asked for only where nothing was found, and GitHub gives it
\* only to a person's pull request.
Approvable == record.verdict = "no-actionable-finding"

\* A review as it was composed: record, patch and author do not change.
ReviewIsComposed(r) ==
    /\ r.event = "APPROVE" => author = "person" /\ Approvable
    /\ r.comments = Manifest.candidates /\ r.body = ReviewBody

\* Whoever is about to create the review looked, and there was none.
ReviewInv ==
    /\ patch \in Patches /\ author \in {"app", "person", "forgotten app"}
    /\ posting \in [pc : ReviewPlaces, event : {"COMMENT", "APPROVE"}]
    /\ posting.event = "APPROVE" => Approvable
    /\ posting.pc = "creating" => reviews = {}
    /\ reviews = {} \/ \E r \in reviews : reviews = {r}
    /\ \A r \in reviews : ReviewIsComposed(r)

\* However often the attempt is repeated, the pull request gets one review of
\* this run; it approves only what had no actionable finding and is not the
\* app's own, and beside its suggestions it accounts for every change of the
\* patch that is not among them (pull-requests/publish.ts,
\* suggestion-comments.ts, github/comment-service.ts).
THEOREM ReviewsAreAlwaysHonest == ReviewSpec => []OneHonestReview
<1>1. DraftInit /\ ReviewInit => ReviewInv
  <2> SUFFICES ASSUME ReviewInit PROVE ReviewInv
    OBVIOUS
  <2>1. /\ posting \in [pc : ReviewPlaces, event : {"COMMENT", "APPROVE"}]
        /\ posting.event = "COMMENT" /\ posting.pc = "idle" /\ reviews = {}
    BY DEF ReviewInit, ReviewPlaces
  <2> QED BY <2>1 DEF ReviewInit, ReviewInv
<1>2. ReviewInv /\ [ReviewNext /\ UNCHANGED draftVars]_<<draftVars, reviewVars>> => ReviewInv'
  <2> SUFFICES ASSUME ReviewInv, [ReviewNext /\ UNCHANGED draftVars]_<<draftVars, reviewVars>>
               PROVE  ReviewInv'
    OBVIOUS
  <2>1. record' = record /\ patch' = patch /\ author' = author
    BY DEF draftVars, reviewVars, ReviewNext, ComposeReview, findPullRequestReviewByMarker,
           createPullRequestReview, ReviewAttemptDies
  <2>2. /\ Approvable' = Approvable /\ Manifest' = Manifest /\ ReviewBody' = ReviewBody
    BY <2>1 DEF Approvable, Manifest, shouldPublishSuggestions, ReviewBody
  <2>3. ASSUME NEW r, ReviewIsComposed(r) PROVE ReviewIsComposed(r)'
    BY <2>1, <2>2, <2>3 DEF ReviewIsComposed
  <2>4. CASE UNCHANGED <<draftVars, reviewVars>>
    <3>1. posting' = posting /\ reviews' = reviews
      BY <2>4 DEF reviewVars
    <3> QED BY <2>1, <2>2, <2>3, <3>1 DEF ReviewInv
  <2>5. CASE ComposeReview
    <3>1. /\ posting' = [pc |-> "finding", event |-> reviewEventForRecord] /\ reviews' = reviews
          /\ reviewEventForRecord \in {"COMMENT", "APPROVE"}
          /\ reviewEventForRecord = "APPROVE" => Approvable
      BY <2>5 DEF ComposeReview, reviewEventForRecord, Approvable
    <3> HIDE DEF reviewEventForRecord
    <3>2. /\ posting' \in [pc : ReviewPlaces, event : {"COMMENT", "APPROVE"}]
          /\ posting'.event = "APPROVE" => Approvable
          /\ posting'.pc = "finding"
      BY <3>1 DEF ReviewPlaces
    <3> QED BY <2>1, <2>2, <2>3, <3>1, <3>2 DEF ReviewInv
  <2>6. CASE findPullRequestReviewByMarker \/ ReviewAttemptDies
    <3>1. /\ posting' \in [pc : ReviewPlaces, event : {"COMMENT", "APPROVE"}]
          /\ posting'.event = posting.event /\ reviews' = reviews
          /\ posting'.pc = "creating" => reviews = {}
      BY <2>6 DEF findPullRequestReviewByMarker, ReviewAttemptDies, ReviewInv, ReviewPlaces
    <3> QED BY <2>1, <2>2, <2>3, <3>1 DEF ReviewInv
  <2>7. CASE createPullRequestReview
    <3>1. reviews = {} /\ posting \in [pc : ReviewPlaces, event : {"COMMENT", "APPROVE"}]
      BY <2>7 DEF createPullRequestReview, ReviewInv
    <3>2. CASE GitHubRefuses(posting.event)
      <4>1. /\ posting' \in [pc : ReviewPlaces, event : {"COMMENT", "APPROVE"}]
            /\ posting'.event = "COMMENT" /\ reviews' = {}
        BY <2>7, <3>1, <3>2 DEF createPullRequestReview
      <4> QED BY <2>1, <2>2, <4>1 DEF ReviewInv
    <3>3. CASE ~GitHubRefuses(posting.event)
      <4> DEFINE r == Review(posting.event)
      <4>1. /\ posting' = [posting EXCEPT !.pc = "done"]
            /\ reviews' = reviews \cup {r}
        BY <2>7, <3>3 DEF createPullRequestReview
      <4>2. reviews' = {r}
        BY <3>1, <4>1
      <4>3. /\ posting' \in [pc : ReviewPlaces, event : {"COMMENT", "APPROVE"}]
            /\ posting'.event = posting.event /\ posting'.pc = "done"
        BY <3>1, <4>1 DEF ReviewPlaces
      <4>4. ReviewIsComposed(r)
        BY <3>3 DEF ReviewIsComposed, Review, GitHubRefuses, ReviewInv
      <4> HIDE DEF r
      <4>5. PICK s : s = r
        OBVIOUS
      <4>6. reviews' = {s} /\ ReviewIsComposed(s)'
        BY <2>3, <4>2, <4>4, <4>5
      <4> QED BY <2>1, <2>2, <4>3, <4>6 DEF ReviewInv
    <3> QED BY <3>2, <3>3
  <2> QED
    BY <2>4, <2>5, <2>6, <2>7 DEF ReviewNext
<1>3. ReviewInv => OneHonestReview
  <2> SUFFICES ASSUME ReviewInv PROVE OneHonestReview
    OBVIOUS
  <2>1. Cardinality(reviews) <= 1
    <3>1. CASE reviews = {}
      BY <3>1, FS_EmptySet
    <3>2. ASSUME NEW r, reviews = {r} PROVE Cardinality(reviews) <= 1
      <4>1. Cardinality({r}) = 1
        BY FS_Singleton, Zenon
      <4> QED BY <3>2, <4>1
    <3> QED BY <3>1, <3>2 DEF ReviewInv
  <2>2. PICK n \in Nat : n = Cardinality(Manifest.unmapped)
    BY UnmappedIsFinite, FS_CardinalityType DEF ReviewInv
  <2>3. PICK m \in Nat : m = Min({n, MaxListed})
    <3>1. \E x \in {n, MaxListed} : \A y \in {n, MaxListed} : x =< y
      BY ListedIsNatural
    <3>2. Min({n, MaxListed}) \in {n, MaxListed}
      BY <3>1 DEF Min
    <3> QED BY <3>2, ListedIsNatural
  <2>4. ASSUME NEW r \in reviews
        PROVE  /\ r.event = "APPROVE" => author = "person" /\ record.verdict = "no-actionable-finding"
               /\ r.comments # {} => r.body.unmapped.listed + r.body.unmapped.more = Cardinality(Manifest.unmapped)
    <3>1. ReviewIsComposed(r)
      BY DEF ReviewInv
    <3>2. ASSUME r.comments # {} PROVE r.body.unmapped = [listed |-> m, more |-> n - m]
      <4>1. Manifest.candidates # {} /\ r.body = ReviewBody
        BY <3>1, <3>2 DEF ReviewIsComposed
      <4>2. ReviewBody.unmapped = appendUnmappedSuggestionSection(Manifest.unmapped)
        BY <4>1 DEF ReviewBody
      <4>3. appendUnmappedSuggestionSection(Manifest.unmapped) = [listed |-> m, more |-> n - m]
        BY <2>2, <2>3 DEF appendUnmappedSuggestionSection
      <4> QED BY <4>1, <4>2, <4>3
    <3>3. m + (n - m) = n
      OBVIOUS
    <3> QED BY <2>2, <3>1, <3>2, <3>3 DEF ReviewIsComposed, Approvable
  <2> QED BY <2>1, <2>4 DEF OneHonestReview
<1> QED
  BY <1>1, <1>2, <1>3, PTL DEF ReviewSpec

-----------------------------------------------------------------------------
(***************************************************************************)
(* Calls to Review Runs                                                    *)
(***************************************************************************)
Statuses == {0, 200, 400, 401, 404, 409, 413, 500, 502}
Values == {NoCode, "empty", "null", "work", "record", "true", "false", "retry", "no retry",
           "undefined"}
Codes == errorCodeEnum \cup {NoCode, "REVIEW_RUNS_REQUEST_TIMEOUT", "REVIEW_RUNS_RESPONSE_TOO_LARGE"}

Ids == {Missing, Json("null", ""), Str("7"), Str("10"), Str("ten")}

CallRequests ==
    [op : Operations, token : {"service", "read", "admin"}, size : {1, MaxBody + 1}, json : BOOLEAN,
     params : BOOLEAN, id : Ids, query : Ids, admin : BOOLEAN]

Answers == [got : {"nothing", "whole", "oversized", "timeout", "dropped"}, status : Statuses,
            code : errorCodeEnum \cup {NoCode}, value : Values]

Results == [kind : {"error", "value"}, value : Values, status : Statuses, code : Codes]

CallTypes ==
    [at : {"idle", "sent", "answered", "concluded"}, op : Operations \cup {NoCode},
     request : CallRequests \cup {NoCode}, refused : BOOLEAN, committed : BOOLEAN, answer : Answers,
     result : Results, retry : BOOLEAN, after : {NoCode, "PUBLISH_CONTEXT_INVALID"}]

StoredContexts == Contexts \cup {Parsed(w, c) : w \in Workflows, c \in Contexts}

StoredRuns ==
    [workflow : Workflows, context : StoredContexts,
     publication : {"none", "pending", "publishing", "failed"}, ours : BOOLEAN, claim : BOOLEAN]

\* What a value says of what was asked for; an answer about a failed
\* preparation says it only if a retry was scheduled.
ValueTells(op, value, committed) ==
    /\ value \in Value(op)
    /\ op = "failPreparation" => (value = "retry" => committed)
    /\ op # "failPreparation" => (committed <=> value \notin {"false", "null"})

\* What an answer that can be read says of the call: a success carries the
\* handler's value, a refusal means that what was asked for is not done, and a
\* fault or a proxy's answer carries no code.
AnswerIsSound(c) ==
    /\ c.answer.got \in {"whole", "oversized"} =>
         /\ c.answer.status # 0
         /\ c.answer.status = 200 =>
              ValueTells(c.op, c.answer.value, c.committed) /\ ~c.refused
         /\ c.answer.status \in {400, 401, 404, 409, 413} => c.refused /\ ~c.committed
         /\ c.answer.status \in {500, 502} => ~c.refused /\ c.answer.code = NoCode
         /\ c.op \in ConnectorOps /\ c.answer.status = 409 => c.answer.code \in StepCodes
    /\ c.op \in ConnectorOps /\ c.refused => c.answer.status # 400
    /\ c.at \in {"answered", "concluded"} => c.answer.got # "nothing"

\* The connector's own requests can only be too large.
RequestIsSound(c) ==
    c.at = "sent" =>
        /\ c.op \in Operations /\ c.request \in CallRequests
        /\ c.answer = NoAnswer /\ ~c.refused /\ ~c.committed
        /\ c.op \in ConnectorOps => Refusals(c.request) \subseteq {Thrown("too_large", 413, NoCode)}

ConclusionIsSound(c) ==
    c.at = "concluded" =>
        /\ c.result = request(c.op, c.answer)
        /\ c.retry <=> c.result.kind = "error" /\ classifyPublicationFailure(c.result)

\* A publication is failed for its context only because it is unusable.
FailureIsSound ==
    /\ call.op = "failPublication" /\ call.after # NoCode =>
         ~Parses(stored.workflow, stored.context) /\ ~stored.ours
    /\ call.op = "failPublication" /\ call.answer.value = "true" => stored.publication = "failed"

\* A context that this code submitted is one that its publisher can use.
ContextIsSound(s) ==
    s.ours => Parses(s.workflow, s.context) /\ Parsed(s.workflow, s.context) = s.context

\* Once a failed preparation was answered, the caller's claim is gone.
ClaimIsSettled ==
    call.op = "failPreparation" /\ call.answer.value # NoCode => ~stored.claim

CallsInv ==
    /\ call \in CallTypes /\ stored \in StoredRuns /\ (call.at = "idle" => call = Idle)
    /\ AnswerIsSound(call) /\ RequestIsSound(call) /\ ConclusionIsSound(call)
    /\ FailureIsSound /\ ContextIsSound(stored) /\ ClaimIsSettled

\* What the absence of a code is told apart from by the error handler.
LEMMA NoCodeIsNotReported ==
  NoCode # "22007" /\ NoCode \notin errorCodeEnum
  BY NoCodeIsNoText

\* What a request refused before its handler is answered with.
LEMMA RefusalsAreAnswered ==
  ASSUME NEW asked, NEW thrown \in Refusals(asked)
  PROVE  /\ errorHandler(thrown).status \in {400, 401, 404, 413}
         /\ errorHandler(thrown).code \in errorCodeEnum \cup {NoCode}
         /\ Refusals(asked) \subseteq {Thrown("too_large", 413, NoCode)} => errorHandler(thrown).status = 413
<1>1. thrown \in {Thrown("status", 404, NoCode), Thrown("unauthorized", 401, NoCode),
                  Thrown("too_large", 413, NoCode), Thrown("invalid_json", 400, NoCode),
                  Thrown("params", 400, NoCode), Thrown("body", 400, NoCode), Thrown("query", 400, NoCode)}
  BY DEF Refusals
<1>2. errorHandler(thrown).status \in {400, 401, 404, 413} /\ errorHandler(thrown).code \in errorCodeEnum \cup {NoCode}
  BY <1>1, NoCodeIsNotReported DEF Thrown, errorHandler, errorCodeEnum
<1>3. thrown = Thrown("too_large", 413, NoCode) => errorHandler(thrown).status = 413
  BY NoCodeIsNotReported DEF Thrown, errorHandler, errorCodeEnum
<1> QED
  BY <1>2, <1>3

\* What an error of a handler is answered with: only a deterministic refusal
\* of a step has the status of a conflict, and an internal fault no code.
LEMMA HandlerErrorsAreAnswered ==
  ASSUME NEW op, NEW thrown \in HandlerThrows(op)
  PROVE  /\ errorHandler(thrown).status \in {400, 409, 500}
         /\ errorHandler(thrown).code \in errorCodeEnum \cup {NoCode}
         /\ errorHandler(thrown).status = 500 => errorHandler(thrown).code = NoCode
         /\ errorHandler(thrown).status = 409 => errorHandler(thrown).code \in StepCodes \/ op \in AdminOps
         /\ errorHandler(thrown).status = 400 => op \in {"listRuns"} \cup AdminOps
<1>1. CASE thrown \in {Thrown("internal", 500, NoCode), Thrown("internal", 500, "40001")}
  BY <1>1, NoCodeIsNotReported DEF Thrown, errorHandler, errorCodeEnum, StepCodes
<1>2. CASE \E c \in StepCodes : thrown = Thrown("deterministic", 409, c)
  BY <1>2 DEF Thrown, errorHandler, errorCodeEnum, StepCodes
<1>3. CASE /\ op = "listRuns"
           /\ thrown \in {Thrown("status", 400, "INVALID_QUERY"), Thrown("internal", 500, "22007")}
  BY <1>3 DEF Thrown, errorHandler, errorCodeEnum
<1>5. CASE op \in AdminOps /\ thrown \in {Thrown("status", 400, NoCode), Thrown("status", 409, NoCode)}
  BY <1>5, NoCodeIsNotReported DEF Thrown, errorHandler, errorCodeEnum
<1>4. \/ thrown \in {Thrown("internal", 500, NoCode), Thrown("internal", 500, "40001")}
      \/ op \in AdminOps /\ thrown \in {Thrown("status", 400, NoCode), Thrown("status", 409, NoCode)}
      \/ \E c \in StepCodes : thrown = Thrown("deterministic", 409, c)
      \/ op = "listRuns" /\ thrown \in {Thrown("status", 400, "INVALID_QUERY"), Thrown("internal", 500, "22007")}
  BY DEF HandlerThrows, StepCodes
<1> QED
  BY <1>1, <1>2, <1>3, <1>4, <1>5

\* A context that was accepted is accepted again after it was stored, and
\* reads the same (publish-context.ts on both sides of the database).
LEMMA ParsedContextsParse ==
  ASSUME NEW w, NEW c \in Contexts, Parses(w, c)
  PROVE  Parses(w, Parsed(w, c)) /\ Parsed(w, Parsed(w, c)) = Parsed(w, c)
<1>1. CASE w = "issue-review" /\ c.open_pr = Missing
  <2> DEFINE d == [c EXCEPT !.open_pr = Json("boolean", "false")]
  <2>1. Parsed(w, c) = d
    BY <1>1 DEF Parsed
  <2>2. /\ d.open_pr = Json("boolean", "false")
        /\ d.owner = c.owner /\ d.name = c.name /\ d.full = c.full /\ d.branch = c.branch
        /\ d.number = c.number /\ d.title = c.title /\ d.workspace_ref = c.workspace_ref
        /\ d.event = c.event
    BY ContextsHaveFields
  <2> HIDE DEF d
  <2>3. parseIssueReviewPublishContext(c)
    BY <1>1 DEF Parses
  <2>4. d.open_pr.t = "boolean" /\ d.open_pr # Missing
    <3>1. d.open_pr.t = "boolean" /\ Missing.t = "undefined"
      BY <2>2 DEF Json, Missing
    <3> QED BY <3>1
  <2>5. parseIssueReviewPublishContext(d)
    BY <2>2, <2>3, <2>4 DEF parseIssueReviewPublishContext, repositoryIdentity, issue
  <2> QED BY <1>1, <2>1, <2>4, <2>5 DEF Parses, Parsed
<1>2. CASE ~(w = "issue-review" /\ c.open_pr = Missing)
  <2>1. Parsed(w, c) = c
    BY <1>2 DEF Parsed
  <2> QED BY <2>1
<1> QED
  BY <1>1, <1>2

\* The call is left as it is.
LEMMA CallRests ==
  ASSUME CallsInv, call' = call, stored' \in StoredRuns, ContextIsSound(stored)',
         \/ /\ stored'.workflow = stored.workflow /\ stored'.context = stored.context
            /\ stored'.ours = stored.ours /\ stored'.publication = stored.publication
            /\ stored'.claim => stored.claim
         \/ call = Idle
  PROVE  CallsInv'
<1>1. AnswerIsSound(call)' /\ RequestIsSound(call)' /\ ConclusionIsSound(call)'
  BY DEF CallsInv, AnswerIsSound, RequestIsSound, ConclusionIsSound
<1>2. FailureIsSound'
  <2>1. CASE call # Idle
    BY <2>1 DEF CallsInv, FailureIsSound
  <2>2. CASE call = Idle
    BY <2>2, NoCodeIsNoText DEF FailureIsSound, Idle, NoAnswer
  <2> QED BY <2>1, <2>2
<1>3. ClaimIsSettled'
  <2>1. CASE call # Idle
    BY <2>1 DEF CallsInv, ClaimIsSettled, StoredRuns
  <2>2. CASE call = Idle
    BY <2>2 DEF ClaimIsSettled, Idle, NoAnswer
  <2> QED BY <2>1, <2>2
<1> QED
  BY <1>1, <1>2, <1>3 DEF CallsInv

\* A request goes out.
LEMMA CallIsSent ==
  ASSUME CallsInv, stored' = stored, NEW op \in Operations, NEW asked \in CallRequests,
         NEW after \in {NoCode, "PUBLISH_CONTEXT_INVALID"},
         call' = [at |-> "sent", op |-> op, request |-> asked, refused |-> FALSE, committed |-> FALSE,
                  answer |-> NoAnswer, result |-> Returned("undefined"), retry |-> FALSE, after |-> after],
         op \in ConnectorOps => Refusals(asked) \subseteq {Thrown("too_large", 413, NoCode)},
         after # NoCode => ~Parses(stored.workflow, stored.context) /\ ~stored.ours
  PROVE  CallsInv'
<1>1. NoAnswer \in Answers /\ NoAnswer.got = "nothing" /\ NoAnswer.value = NoCode /\ NoAnswer.status = 0
  BY DEF NoAnswer, Answers, Statuses, Values
<1>2. Returned("undefined") \in Results
  BY DEF Returned, Results, Values, Statuses, Codes
<1>3. call' \in CallTypes
  BY <1>1, <1>2 DEF CallTypes
<1>4. AnswerIsSound(call)' /\ RequestIsSound(call)' /\ ConclusionIsSound(call)'
  <2>1. /\ call'.at = "sent" /\ call'.op = op /\ call'.request = asked /\ call'.answer = NoAnswer
        /\ call'.refused = FALSE /\ call'.committed = FALSE
    OBVIOUS
  <2>2. AnswerIsSound(call)'
    BY <1>1, <2>1 DEF AnswerIsSound
  <2>3. RequestIsSound(call)'
    BY <2>1 DEF RequestIsSound
  <2>4. ConclusionIsSound(call)'
    BY <2>1 DEF ConclusionIsSound
  <2> QED BY <2>2, <2>3, <2>4
<1>5. FailureIsSound'
  BY <1>1, NoCodeIsNoText DEF FailureIsSound
<1>6. ContextIsSound(stored)' /\ stored' \in StoredRuns
  BY DEF CallsInv, ContextIsSound
<1>7. ClaimIsSettled'
  BY <1>1 DEF ClaimIsSettled
<1> QED
  BY <1>3, <1>4, <1>5, <1>6, <1>7 DEF CallsInv

\* What Review Runs answers to the request under way.
TellsTheOutcome(answer, committed, refused) ==
    /\ answer.got = "whole" /\ answer.status # 0
    /\ answer.status = 200 =>
         ValueTells(call.op, answer.value, committed) /\ ~refused
    /\ answer.status \in {400, 401, 404, 409, 413} => refused /\ ~committed
    /\ answer.status \in {500, 502} => ~refused /\ answer.code = NoCode
    /\ call.op \in ConnectorOps /\ answer.status = 409 => answer.code \in StepCodes
    /\ call.op \in ConnectorOps => answer.status # 400
    /\ call.op = "failPublication" /\ answer.value = "true" => stored'.publication = "failed"
    /\ call.op = "failPreparation" /\ answer.value # NoCode => ~stored'.claim

\* A request is answered.
LEMMA CallIsAnswered ==
  ASSUME CallsInv, NEW answer \in Answers, NEW committed \in BOOLEAN, NEW refused \in BOOLEAN,
         Respond(answer, committed, refused), TellsTheOutcome(answer, committed, refused),
         stored' \in StoredRuns, stored'.workflow = stored.workflow, stored'.context = stored.context,
         stored'.ours = stored.ours
  PROVE  CallsInv'
<1>1. call \in CallTypes
  BY DEF CallsInv
<1>2. /\ call' \in CallTypes /\ call'.at = "answered" /\ call'.op = call.op /\ call'.answer = answer
      /\ call'.committed = committed /\ call'.refused = refused /\ call'.after = call.after
  <2>1. call' = [call EXCEPT !.at = "answered", !.answer = answer, !.committed = committed,
                             !.refused = refused]
    BY DEF Respond
  <2>2. call' \in CallTypes
    <3> DEFINE c1 == [call EXCEPT !.at = "answered"]
               c2 == [c1 EXCEPT !.answer = answer]
               c3 == [c2 EXCEPT !.committed = committed]
    <3>1. c1 \in CallTypes BY <1>1 DEF CallTypes
    <3>2. c2 \in CallTypes
      <4> HIDE DEF c1
      <4> QED BY <3>1 DEF CallTypes
    <3>3. c3 \in CallTypes
      <4> HIDE DEF c2
      <4> QED BY <3>2 DEF CallTypes
    <3>4. [c3 EXCEPT !.refused = refused] \in CallTypes
      <4> HIDE DEF c3
      <4> QED BY <3>3 DEF CallTypes
    <3> QED BY <2>1, <3>4
  <2>3. call'.at = "answered" /\ call'.answer = answer /\ call'.committed = committed /\ call'.refused = refused
    BY <1>1, <2>1 DEF CallTypes
  <2>4. call'.op = call.op /\ call'.after = call.after
    BY <1>1, <2>1 DEF CallTypes
  <2> QED BY <2>2, <2>3, <2>4
<1>3. AnswerIsSound(call)'
  BY <1>2 DEF AnswerIsSound, TellsTheOutcome
<1>4. RequestIsSound(call)' /\ ConclusionIsSound(call)'
  BY <1>2 DEF RequestIsSound, ConclusionIsSound
<1>5. FailureIsSound'
  BY <1>2 DEF CallsInv, FailureIsSound, TellsTheOutcome
<1>6. ContextIsSound(stored)'
  BY DEF CallsInv, ContextIsSound
<1>7. ClaimIsSettled'
  BY <1>2 DEF ClaimIsSettled, TellsTheOutcome
<1> QED
  BY <1>2, <1>3, <1>4, <1>5, <1>6, <1>7 DEF CallsInv

\* The envelope of an error is an answer.
LEMMA EnvelopesAreAnswers ==
  ASSUME NEW envelope, envelope.status \in Statuses, envelope.code \in errorCodeEnum \cup {NoCode}
  PROVE  /\ AnswerOf(envelope) \in Answers /\ AnswerOf(envelope).got = "whole"
         /\ AnswerOf(envelope).status = envelope.status /\ AnswerOf(envelope).code = envelope.code
         /\ AnswerOf(envelope).value = NoCode
  BY DEF AnswerOf, Answers, Values

\* The types of the values a request carries.
LEMMA JsonHasAType ==
  /\ Missing.t = "undefined" /\ Json("null", "").t = "null"
  /\ Json("number", "7").t = "number" /\ Json("number", "7").v = "7" /\ Str("7").t = "string"
  BY DEF Missing, Json, Str

\* A well formed request with the right token can only be too large.
LEMMA WellFormedIsAtMostTooLarge ==
  ASSUME NEW asked, asked.op \notin AdminOps, bearerTokenMatches(asked), asked.json, asked.params,
         ValidBody(asked.op, asked.id), coerceQueryStrings(asked.query).t = "undefined"
  PROVE  Refusals(asked) \subseteq {Thrown("too_large", 413, NoCode)}
<1> DEFINE large == IF asked.size > MaxBody THEN {Thrown("too_large", 413, NoCode)} ELSE {}
<1>1. Refusals(asked) = {} \cup {} \cup large \cup {} \cup {} \cup {} \cup {}
  BY ZenonT(30) DEF Refusals
<1>2. large \subseteq {Thrown("too_large", 413, NoCode)}
  OBVIOUS
<1> HIDE DEF large
<1> QED BY <1>1, <1>2

\* The connector's own request is well formed: an id travels as text.
LEMMA CallingIsSound ==
  ASSUME CallsInv, NEW op \in Operations, Call(op)
  PROVE  CallsInv'
<1>1. op \in ConnectorOps /\ stored' = stored
  BY DEF Call
<1>2. PICK size \in {1, MaxBody + 1}, id \in {Missing, Json("null", ""), Json("number", "7")} :
        /\ op \notin {"completePublicationStep", "settleExhaustedPublicationStep"} => id = Missing
        /\ call' = [Idle EXCEPT !.at = "sent", !.op = op, !.request =
                       RequestOf(op, Token(op), size, TRUE, TRUE, remoteObject(op, id), Missing, TRUE)]
  BY DEF Call
<1> DEFINE asked == RequestOf(op, Token(op), size, TRUE, TRUE, remoteObject(op, id), Missing, TRUE)
<1>3. remoteObject(op, id) \in {Missing, Json("null", ""), Str("7")}
  BY <1>2, JsonHasAType DEF remoteObject
<1>4. remoteObject(op, id).t \in {"undefined", "null", "string"} /\ remoteObject(op, id) \in Ids
  BY <1>3, JsonHasAType DEF Ids
<1>5. Token(op) \in {"service", "read", "admin"} /\ Missing \in Ids
  BY DEF Token, Ids
<1>6. /\ asked \in CallRequests
      /\ asked.op = op /\ asked.token = Token(op) /\ asked.json /\ asked.params /\ asked.query = Missing
      /\ asked.id = remoteObject(op, id)
  BY <1>4, <1>5 DEF RequestOf, CallRequests
<1>7. op \notin AdminOps
  BY <1>1 DEF ConnectorOps, PreparationOps, StepOps, PublicationOps, AdminOps
<1>8. Refusals(asked) \subseteq {Thrown("too_large", 413, NoCode)}
  <2>1. bearerTokenMatches(asked) /\ ValidBody(asked.op, asked.id)
    BY <1>4, <1>6 DEF bearerTokenMatches, ValidBody
  <2>2. coerceQueryStrings(asked.query).t = "undefined"
    BY <1>6, JsonHasAType DEF coerceQueryStrings
  <2> HIDE DEF asked
  <2> QED BY <1>6, <1>7, <2>1, <2>2, WellFormedIsAtMostTooLarge
<1>9. call' = [at |-> "sent", op |-> op, request |-> asked, refused |-> FALSE, committed |-> FALSE,
               answer |-> NoAnswer, result |-> Returned("undefined"), retry |-> FALSE, after |-> NoCode]
  <2> HIDE DEF asked
  <2> QED BY <1>2 DEF Idle, asked
<1> HIDE DEF asked
<1> QED
  BY <1>1, <1>6, <1>8, <1>9, CallIsSent

\* A request from outside is not the connector's.
LEMMA OutsideCallingIsSound ==
  ASSUME CallsInv, NEW op \in Operations, CallFromOutside(op)
  PROVE  CallsInv'
<1>1. op \in AdminOps \cup {"listRuns"} /\ stored' = stored
  BY DEF CallFromOutside
<1>2. op \notin ConnectorOps
  BY <1>1 DEF ConnectorOps, PreparationOps, StepOps, PublicationOps, AdminOps
<1>3. PICK token \in {"service", "read", "admin"}, json \in BOOLEAN, params \in BOOLEAN, admin \in BOOLEAN,
           query \in {Missing, Str("10"), Str("ten")} :
          call' = [Idle EXCEPT !.at = "sent", !.op = op, !.request =
                      RequestOf(op, token, 1, json, params, Missing, query, admin)]
  BY DEF CallFromOutside
<1> DEFINE asked == RequestOf(op, token, 1, json, params, Missing, query, admin)
<1>4. asked \in CallRequests
  BY DEF RequestOf, CallRequests, Ids
<1>5. call' = [at |-> "sent", op |-> op, request |-> asked, refused |-> FALSE, committed |-> FALSE,
               answer |-> NoAnswer, result |-> Returned("undefined"), retry |-> FALSE, after |-> NoCode]
  <2> HIDE DEF asked
  <2> QED BY <1>3 DEF Idle, asked
<1> HIDE DEF asked
<1> QED
  BY <1>1, <1>2, <1>4, <1>5, CallIsSent

\* A publisher gives up a claimed publication only if its context does not
\* parse, which no context that was submitted here does.
LEMMA ClaimedContextIsSound ==
  ASSUME CallsInv, claimNextPublication
  PROVE  CallsInv'
<1> DEFINE op == "failPublication"
           asked == RequestOf(op, "service", 1, TRUE, TRUE, Missing, Missing, TRUE)
<1>1. /\ stored' = stored /\ ~Parses(stored.workflow, stored.context)
      /\ call' = [Idle EXCEPT !.at = "sent", !.op = "failPublication", !.after = "PUBLISH_CONTEXT_INVALID",
                              !.request = RequestOf("failPublication", "service", 1, TRUE, TRUE,
                                                    Missing, Missing, TRUE)]
  BY DEF claimNextPublication
<1>2. ~stored.ours
  BY <1>1 DEF CallsInv, ContextIsSound
<1>3. op \in Operations /\ op \notin AdminOps /\ Token(op) = "service"
  BY DEF Operations, PublicationOps, AdminOps, Token
<1>4. /\ asked \in CallRequests
      /\ asked.op = op /\ asked.token = "service" /\ asked.json /\ asked.params /\ asked.query = Missing
      /\ asked.id = Missing
  BY <1>3 DEF RequestOf, CallRequests, Ids
<1>5. Refusals(asked) \subseteq {Thrown("too_large", 413, NoCode)}
  <2>1. bearerTokenMatches(asked) /\ ValidBody(asked.op, asked.id)
    BY <1>3, <1>4 DEF bearerTokenMatches, ValidBody
  <2>2. coerceQueryStrings(asked.query).t = "undefined"
    BY <1>4, JsonHasAType DEF coerceQueryStrings
  <2> HIDE DEF asked
  <2> QED BY <1>3, <1>4, <2>1, <2>2, WellFormedIsAtMostTooLarge
<1>6. call' = [at |-> "sent", op |-> op, request |-> asked, refused |-> FALSE, committed |-> FALSE,
               answer |-> NoAnswer, result |-> Returned("undefined"), retry |-> FALSE,
               after |-> "PUBLISH_CONTEXT_INVALID"]
  <2> HIDE DEF asked
  <2> QED BY <1>1 DEF Idle, asked
<1> HIDE DEF asked, op
<1> QED
  BY <1>1, <1>2, <1>3, <1>4, <1>5, <1>6, CallIsSent, ZenonT(60)

\* A refused request is answered as refused, with nothing written; one of the
\* connector's only for its size.
LEMMA RefusingIsSound ==
  ASSUME CallsInv, RefuseRequest
  PROVE  CallsInv'
<1>1. PICK thrown \in Refusals(call.request) : Respond(AnswerOf(errorHandler(thrown)), FALSE, TRUE)
  BY DEF RefuseRequest
<1> DEFINE envelope == errorHandler(thrown)
<1>2. call.at = "sent" /\ stored' = stored
  BY DEF RefuseRequest
<1>3. envelope.status \in {400, 401, 404, 413} /\ envelope.code \in errorCodeEnum \cup {NoCode}
  BY RefusalsAreAnswered
<1>4. call.op \in ConnectorOps => envelope.status = 413
  BY <1>2, RefusalsAreAnswered DEF CallsInv, RequestIsSound
<1> HIDE DEF envelope
<1>5. /\ AnswerOf(envelope) \in Answers /\ AnswerOf(envelope).got = "whole"
      /\ AnswerOf(envelope).status = envelope.status /\ AnswerOf(envelope).value = NoCode
  BY <1>3, EnvelopesAreAnswers DEF Statuses
<1>6. Respond(AnswerOf(envelope), FALSE, TRUE)
  BY <1>1 DEF envelope
<1>7. envelope.status \notin {0, 200, 409, 500, 502} /\ (call.op \in ConnectorOps => envelope.status # 400)
  BY <1>3, <1>4
<1>8. stored' \in StoredRuns /\ NoCode # "true"
  BY <1>2, NoCodeIsNoText DEF CallsInv
<1>9. TellsTheOutcome(AnswerOf(envelope), FALSE, TRUE)
  BY <1>5, <1>7, <1>8 DEF TellsTheOutcome
<1> QED
  BY <1>2, <1>5, <1>6, <1>8, <1>9, CallIsAnswered

\* What a handler changes of the run.
LEMMA EffectsAreSmall ==
  ASSUME CallsInv, NEW op, NEW value, stored' = Effect(op, value)
  PROVE  /\ stored' \in StoredRuns /\ stored'.workflow = stored.workflow
         /\ stored'.context = stored.context /\ stored'.ours = stored.ours
         /\ op = "failPublication" /\ value = "true" => stored'.publication = "failed"
         /\ op = "failPreparation" => ~stored'.claim
<1>1. stored \in StoredRuns
  BY DEF CallsInv
<1>2. stored' \in {stored, [stored EXCEPT !.publication = "publishing"],
                   [stored EXCEPT !.publication = "failed"], [stored EXCEPT !.claim = FALSE]}
  BY DEF Effect
<1>3. op = "failPublication" /\ value = "true" => stored' = [stored EXCEPT !.publication = "failed"]
  BY DEF Effect
<1>4. op = "failPreparation" => stored' = [stored EXCEPT !.claim = FALSE]
  BY DEF Effect
<1> QED
  BY <1>1, <1>2, <1>3, <1>4 DEF StoredRuns

\* A handler that fails tells a conflict, an invalid query, an absence, or an
\* internal fault that says nothing about what was written.
LEMMA HandlerFailureIsSound ==
  ASSUME CallsInv, HandlerFails
  PROVE  CallsInv'
<1>1. stored' = stored => stored' \in StoredRuns
  BY DEF CallsInv
<1>2. NoCode # "true"
  BY NoCodeIsNoText
<1>3. CASE /\ \E thrown \in HandlerThrows(call.op) :
                Respond(AnswerOf(errorHandler(thrown)), FALSE, errorHandler(thrown).status < 500)
           /\ stored' = stored
  <2>1. PICK thrown \in HandlerThrows(call.op) :
             Respond(AnswerOf(errorHandler(thrown)), FALSE, errorHandler(thrown).status < 500)
    BY <1>3
  <2> DEFINE envelope == errorHandler(thrown)
             refused == envelope.status < 500
  <2>2. /\ envelope.status \in {400, 409, 500} /\ envelope.code \in errorCodeEnum \cup {NoCode}
        /\ envelope.status = 500 => envelope.code = NoCode
        /\ envelope.status = 409 => envelope.code \in StepCodes \/ call.op \in AdminOps
        /\ envelope.status = 400 => call.op \in {"listRuns"} \cup AdminOps
    BY HandlerErrorsAreAnswered
  <2>3. Respond(AnswerOf(envelope), FALSE, refused)
    BY <2>1
  <2> HIDE DEF envelope
  <2>4. /\ AnswerOf(envelope) \in Answers /\ AnswerOf(envelope).got = "whole"
        /\ AnswerOf(envelope).status = envelope.status /\ AnswerOf(envelope).code = envelope.code
        /\ AnswerOf(envelope).value = NoCode
    BY <2>2, EnvelopesAreAnswers DEF Statuses
  <2>5. refused \in BOOLEAN /\ (refused <=> envelope.status \in {400, 409})
    BY <2>2
  <2>6. call.op \in ConnectorOps => call.op \notin {"listRuns"} \cup AdminOps
    BY DEF ConnectorOps, PreparationOps, StepOps, PublicationOps, AdminOps
  <2> HIDE DEF refused
  <2> DEFINE answer == AnswerOf(envelope)
  <2>7. TellsTheOutcome(answer, FALSE, refused)
    <3>1. /\ call.op \in ConnectorOps => envelope.status # 400
          /\ call.op \in ConnectorOps /\ envelope.status = 409 => envelope.code \in StepCodes
      BY <2>2, <2>6
    <3>2. envelope.status \notin {0, 200, 401, 404, 413, 502}
      BY <2>2
    <3>3. answer.status = envelope.status /\ answer.code = envelope.code /\ answer.value = NoCode
          /\ answer.got = "whole"
      BY <2>4
    <3> HIDE DEF answer
    <3>4. /\ answer.status \in {400, 401, 404, 409, 413} => refused
          /\ answer.status \in {500, 502} => ~refused /\ answer.code = NoCode
      BY <2>2, <2>5, <3>3
    <3>5. answer.status # 0 /\ answer.status # 200
      BY <3>2, <3>3
    <3>6. /\ call.op \in ConnectorOps /\ answer.status = 409 => answer.code \in StepCodes
          /\ call.op \in ConnectorOps => answer.status # 400
      BY <3>1, <3>3
    <3>7. answer.value # "true" /\ answer.value = NoCode /\ answer.got = "whole"
      BY <1>2, <3>3
    <3> QED BY <3>4, <3>5, <3>6, <3>7, ZenonT(30) DEF TellsTheOutcome
  <2>8. Respond(answer, FALSE, refused) /\ answer \in Answers
    BY <2>3, <2>4
  <2> HIDE DEF answer
  <2> QED BY <1>1, <1>3, <2>5, <2>7, <2>8, CallIsAnswered, ZenonT(60)
<1>4. CASE /\ Respond([NoAnswer EXCEPT !.got = "whole", !.status = 404], FALSE, TRUE)
           /\ stored' = stored
  <2> DEFINE answer == [NoAnswer EXCEPT !.got = "whole", !.status = 404]
  <2>1. /\ answer \in Answers /\ answer.got = "whole" /\ answer.status = 404 /\ answer.value = NoCode
    BY ZenonT(30) DEF NoAnswer, Answers, Statuses, Values
  <2>2. Respond(answer, FALSE, TRUE)
    BY <1>4
  <2> HIDE DEF answer
  <2>3. TellsTheOutcome(answer, FALSE, TRUE)
    BY <1>2, <2>1 DEF TellsTheOutcome
  <2> QED BY <1>1, <1>4, <2>1, <2>2, <2>3, CallIsAnswered
<1>5. CASE \E value \in Value(call.op) :
             /\ Respond(AnswerOf(errorHandler(Thrown("internal", 500, NoCode))), TRUE, FALSE)
             /\ stored' = Effect(call.op, value)
  <2> DEFINE envelope == errorHandler(Thrown("internal", 500, NoCode))
  <2>1. envelope.status = 500 /\ envelope.code = NoCode
    BY NoCodeIsNoText DEF errorHandler, Thrown, errorCodeEnum
  <2>2. Respond(AnswerOf(envelope), TRUE, FALSE)
    BY <1>5
  <2> HIDE DEF envelope
  <2>3. /\ AnswerOf(envelope) \in Answers /\ AnswerOf(envelope).got = "whole"
        /\ AnswerOf(envelope).status = 500 /\ AnswerOf(envelope).code = NoCode
        /\ AnswerOf(envelope).value = NoCode
    BY <2>1, EnvelopesAreAnswers DEF Statuses
  <2>4. TellsTheOutcome(AnswerOf(envelope), TRUE, FALSE)
    BY <1>2, <2>3 DEF TellsTheOutcome
  <2>5. /\ stored' \in StoredRuns /\ stored'.workflow = stored.workflow
        /\ stored'.context = stored.context /\ stored'.ours = stored.ours
    BY <1>5, EffectsAreSmall
  <2> QED BY <2>2, <2>3, <2>4, <2>5, CallIsAnswered
<1> QED
  BY <1>3, <1>4, <1>5 DEF HandlerFails

\* A handler that succeeds answers a value of its operation.
LEMMA HandlerAnswerIsSound ==
  ASSUME CallsInv, HandlerAnswers
  PROVE  CallsInv'
<1>1. PICK value \in Value(call.op) :
        /\ Answerable(call.op, value)
        /\ Respond([NoAnswer EXCEPT !.got = "whole", !.status = 200, !.value = value],
                   CarriedOut(call.op, value), FALSE)
        /\ stored' = Effect(call.op, value)
  BY DEF HandlerAnswers
<1> DEFINE answer == [NoAnswer EXCEPT !.got = "whole", !.status = 200, !.value = value]
           committed == CarriedOut(call.op, value)
<1>2. value \in Values /\ value # NoCode
  BY NoCodeIsNoText DEF Value, Values
<1>3. answer \in Answers /\ answer.got = "whole" /\ answer.status = 200 /\ answer.value = value
  BY <1>2, ZenonT(30) DEF NoAnswer, Answers, Statuses
<1>4. stored.claim \in BOOLEAN
  BY DEF CallsInv, StoredRuns
<1>5. committed \in BOOLEAN
  BY <1>4 DEF CarriedOut
<1>6. ValueTells(call.op, value, committed)
  <2>1. value = "retry" => stored.claim
    BY <1>1 DEF Answerable
  <2> QED BY <2>1 DEF ValueTells, CarriedOut
<1>7. Respond(answer, committed, FALSE)
  BY <1>1
<1>8. /\ stored' \in StoredRuns /\ stored'.workflow = stored.workflow /\ stored'.context = stored.context
      /\ stored'.ours = stored.ours
      /\ call.op = "failPublication" /\ value = "true" => stored'.publication = "failed"
      /\ call.op = "failPreparation" => ~stored'.claim
  BY <1>1, EffectsAreSmall
<1> HIDE DEF answer, committed
<1>9. TellsTheOutcome(answer, committed, FALSE)
  BY <1>3, <1>6, <1>8 DEF TellsTheOutcome
<1>10. answer \in Answers /\ FALSE \in BOOLEAN
  BY <1>3
<1>11. /\ stored' \in StoredRuns /\ stored'.workflow = stored.workflow
       /\ stored'.context = stored.context /\ stored'.ours = stored.ours
  BY <1>8
<1> QED
  BY <1>5, <1>7, <1>9, <1>10, <1>11, CallIsAnswered, ZenonT(60)

\* A call whose answer changes keeps what is known about it.
LEMMA AnswerTurns ==
  ASSUME CallsInv, stored' = stored, call' \in CallTypes, call'.at \in {"answered", "concluded"},
         call'.op = call.op, call'.after = call.after, call'.answer.value \in {call.answer.value, NoCode},
         AnswerIsSound(call)', ConclusionIsSound(call)'
  PROVE  CallsInv'
<1>1. RequestIsSound(call)'
  BY DEF RequestIsSound
<1>2. FailureIsSound'
  BY NoCodeIsNoText DEF CallsInv, FailureIsSound
<1>3. ContextIsSound(stored)' /\ stored' \in StoredRuns
  BY DEF CallsInv, ContextIsSound
<1>4. ClaimIsSettled'
  BY DEF CallsInv, ClaimIsSettled
<1> QED
  BY <1>1, <1>2, <1>3, <1>4 DEF CallsInv

\* Whatever happens to an answer on its way, what can still be read of it is
\* true of the call.
LEMMA FaultyAnswerIsSound ==
  ASSUME CallsInv, AnswerFaulty
  PROVE  CallsInv'
<1>1. /\ call \in CallTypes /\ call.at \in {"sent", "answered"} /\ stored' = stored
      /\ AnswerIsSound(call) /\ call.answer \in Answers
  BY DEF CallsInv, AnswerFaulty, CallTypes
<1>2. CASE \E got \in {"timeout", "dropped"} : call' = [call EXCEPT !.at = "answered", !.answer.got = got]
  <2>1. PICK got \in {"timeout", "dropped"} : call' = [call EXCEPT !.at = "answered", !.answer.got = got]
    BY <1>2
  <2> DEFINE a == [call.answer EXCEPT !.got = got]
             c1 == [call EXCEPT !.at = "answered"]
  <2>2. a \in Answers /\ a.got = got /\ a.status = call.answer.status /\ a.value = call.answer.value
    BY <1>1 DEF Answers
  <2>3. c1 \in CallTypes
    BY <1>1 DEF CallTypes
  <2>4. call' = [c1 EXCEPT !.answer = a]
    BY <1>1, <2>1 DEF CallTypes
  <2>5. /\ call'.at = "answered" /\ call'.answer = a /\ call'.op = call.op /\ call'.after = call.after
        /\ call'.refused = call.refused
    <3> HIDE DEF a
    <3> QED BY <1>1, <2>4 DEF CallTypes
  <2> HIDE DEF a, c1
  <2>6. call' \in CallTypes
    BY <2>2, <2>3, <2>4 DEF CallTypes
  <2>7. AnswerIsSound(call)' /\ ConclusionIsSound(call)'
    BY <1>1, <2>2, <2>5 DEF AnswerIsSound, ConclusionIsSound
  <2> QED BY <1>1, <2>2, <2>5, <2>6, <2>7, AnswerTurns
<1>3. CASE call' = [call EXCEPT !.at = "answered", !.refused = FALSE,
                                !.answer = [NoAnswer EXCEPT !.got = "whole", !.status = 502]]
  <2> DEFINE a == [NoAnswer EXCEPT !.got = "whole", !.status = 502]
             c1 == [call EXCEPT !.at = "answered"]
             c2 == [c1 EXCEPT !.refused = FALSE]
  <2>1. a \in Answers /\ a.got = "whole" /\ a.status = 502 /\ a.value = NoCode /\ a.code = NoCode
    BY ZenonT(30) DEF NoAnswer, Answers, Statuses, Values
  <2>2. c1 \in CallTypes
    BY <1>1 DEF CallTypes
  <2>3. c2 \in CallTypes
    <3> HIDE DEF c1
    <3> QED BY <2>2 DEF CallTypes
  <2>4. call' = [c2 EXCEPT !.answer = a]
    BY <1>3
  <2> HIDE DEF a
  <2>5. /\ call'.at = "answered" /\ call'.answer = a /\ call'.op = call.op /\ call'.after = call.after
        /\ call'.refused = FALSE
    BY <1>1, <2>4 DEF CallTypes
  <2> HIDE DEF c1, c2
  <2>6. call' \in CallTypes
    BY <2>1, <2>3, <2>4 DEF CallTypes
  <2>7. AnswerIsSound(call)' /\ ConclusionIsSound(call)'
    BY <2>1, <2>5 DEF AnswerIsSound, ConclusionIsSound
  <2> QED BY <1>1, <2>1, <2>5, <2>6, <2>7, AnswerTurns
<1>4. CASE call.at = "answered" /\ call' = [call EXCEPT !.answer.got = "oversized"]
  <2> DEFINE a == [call.answer EXCEPT !.got = "oversized"]
  <2>1. /\ a \in Answers /\ a.got = "oversized" /\ a.status = call.answer.status
        /\ a.value = call.answer.value /\ a.code = call.answer.code
    BY <1>1 DEF Answers
  <2>2. call' = [call EXCEPT !.answer = a]
    BY <1>1, <1>4 DEF CallTypes
  <2> HIDE DEF a
  <2>3. call' \in CallTypes
    BY <1>1, <2>1, <2>2 DEF CallTypes
  <2>4. /\ call'.at = "answered" /\ call'.answer = a /\ call'.op = call.op /\ call'.after = call.after
        /\ call'.refused = call.refused /\ call'.committed = call.committed
    BY <1>1, <1>4, <2>2 DEF CallTypes
  <2>5. call.answer.got = "whole"
    BY <1>1, <1>4 DEF AnswerFaulty, AnswerIsSound
  <2>6. AnswerIsSound(call)' /\ ConclusionIsSound(call)'
    BY <1>1, <2>1, <2>4, <2>5 DEF AnswerIsSound, ConclusionIsSound
  <2> QED BY <1>1, <2>1, <2>3, <2>4, <2>6, AnswerTurns
<1> QED
  BY <1>2, <1>3, <1>4 DEF AnswerFaulty

\* What the client makes of an answer: an absence, the handler's value, a
\* failure without an answer, or the status that was answered, with its code
\* if the answer could be read.
LEMMA WhatTheClientReads ==
  ASSUME NEW op, NEW answer \in Answers, answer.got # "nothing",
         answer.got \in {"whole", "oversized"} => answer.status # 0
  PROVE  LET result == request(op, answer) IN
         \/ result = Returned("null") /\ op = "getInternalRun" /\ answer.status = 404
         \/ /\ answer.got = "whole" /\ answer.status = 200
            /\ result = Returned(IF answer.value = "empty" THEN "undefined" ELSE answer.value)
         \/ result = Failed(0, NoCode)
         \/ result = Failed(0, "REVIEW_RUNS_REQUEST_TIMEOUT")
         \/ result = Failed(0, "REVIEW_RUNS_RESPONSE_TOO_LARGE")
         \/ /\ answer.got = "oversized" /\ answer.status \in {400, 401, 404, 409, 413, 500, 502}
            /\ result = Failed(answer.status, NoCode)
         \/ /\ answer.got = "whole" /\ answer.status \in {400, 401, 404, 409, 413, 500, 502}
            /\ result = Failed(answer.status, answer.code)
<1>1. answer.got \in {"whole", "oversized", "timeout", "dropped"} /\ answer.status \in Statuses
  BY DEF Answers
<1>2. CASE answer.got = "timeout"
  BY <1>2 DEF request
<1>3. CASE answer.got = "dropped"
  BY <1>3 DEF request
<1>4. CASE answer.got = "oversized"
  <2>1. answer.status = 200 \/ answer.status \in {400, 401, 404, 409, 413, 500, 502}
    BY <1>1, <1>4 DEF Statuses
  <2> QED BY <1>4, <2>1 DEF request
<1>5. CASE answer.got = "whole"
  <2>1. answer.status = 200 \/ answer.status \in {400, 401, 404, 409, 413, 500, 502}
    BY <1>1, <1>5 DEF Statuses
  <2> QED BY <1>5, <2>1 DEF request
<1> QED
  BY <1>1, <1>2, <1>3, <1>4, <1>5

\* The fields of what the client returns.
LEMMA ResultsHaveFields ==
  /\ \A v : Returned(v).kind = "value" /\ Returned(v).value = v
  /\ \A s, x : /\ Failed(s, x).kind = "error" /\ Failed(s, x).value = NoCode
               /\ Failed(s, x).status = s /\ Failed(s, x).code = x
  BY DEF Returned, Failed

\* A conclusion is drawn from the answer and changes nothing about it.
LEMMA ConcludingIsSound ==
  ASSUME CallsInv, Conclude
  PROVE  CallsInv'
<1> DEFINE result == request(call.op, call.answer)
           retry == result.kind = "error" /\ classifyPublicationFailure(result)
           c1 == [call EXCEPT !.at = "concluded"]
           c2 == [c1 EXCEPT !.result = result]
<1>1. /\ call \in CallTypes /\ call.at = "answered" /\ stored' = stored
      /\ AnswerIsSound(call) /\ call.answer \in Answers
  BY DEF CallsInv, Conclude, CallTypes
<1>2. call' = [c2 EXCEPT !.retry = retry]
  BY DEF Conclude
<1>3. result \in Results
  <2>1. call.answer.got # "nothing" /\ (call.answer.got \in {"whole", "oversized"} => call.answer.status # 0)
    BY <1>1 DEF AnswerIsSound
  <2>2. /\ \A v \in Values : Returned(v) \in Results
        /\ \A s \in Statuses, x \in Codes : Failed(s, x) \in Results
    BY DEF Returned, Failed, Results, Values, Statuses, Codes
  <2>3. /\ call.answer.value \in Values /\ call.answer.status \in Statuses /\ call.answer.code \in Codes
        /\ "null" \in Values /\ "undefined" \in Values /\ 0 \in Statuses /\ NoCode \in Codes
        /\ "REVIEW_RUNS_REQUEST_TIMEOUT" \in Codes /\ "REVIEW_RUNS_RESPONSE_TOO_LARGE" \in Codes
    <3>1. /\ call.answer.value \in Values /\ call.answer.status \in Statuses
          /\ call.answer.code \in errorCodeEnum \cup {NoCode}
      BY <1>1 DEF Answers
    <3>2. call.answer.code \in Codes
      BY <3>1, ZenonT(30) DEF Codes
    <3>3. "null" \in Values /\ "undefined" \in Values
      BY DEF Values
    <3>4. 0 \in Statuses
      BY DEF Statuses
    <3>5. /\ NoCode \in Codes /\ "REVIEW_RUNS_REQUEST_TIMEOUT" \in Codes
          /\ "REVIEW_RUNS_RESPONSE_TOO_LARGE" \in Codes
      BY ZenonT(30) DEF Codes
    <3> QED BY <3>1, <3>2, <3>3, <3>4, <3>5, ZenonT(30)
  <2> QED BY <1>1, <2>1, <2>2, <2>3, WhatTheClientReads
<1>4. retry \in BOOLEAN
  OBVIOUS
<1> HIDE DEF retry, result
<1>5. c1 \in CallTypes
  BY <1>1 DEF CallTypes
<1>6. c2 \in CallTypes
  <2> HIDE DEF c1
  <2> QED BY <1>3, <1>5 DEF CallTypes
<1>7. call' \in CallTypes
  <2> HIDE DEF c2
  <2> QED BY <1>2, <1>4, <1>6 DEF CallTypes
<1>8. /\ call'.at = "concluded" /\ call'.result = result /\ call'.retry = retry /\ call'.op = call.op
      /\ call'.answer = call.answer
  BY <1>1, <1>2 DEF CallTypes
<1>9. call'.after = call.after /\ call'.refused = call.refused /\ call'.committed = call.committed
  BY <1>1, <1>2 DEF CallTypes
<1> HIDE DEF c1, c2
<1>10. AnswerIsSound(call)'
  BY <1>1, <1>8, <1>9 DEF AnswerIsSound
<1>11. ConclusionIsSound(call)'
  BY <1>8 DEF ConclusionIsSound, result, retry
<1> QED
  BY <1>1, <1>7, <1>8, <1>9, <1>10, <1>11, AnswerTurns

\* What is submitted is parsed first, and stored as it was parsed.
LEMMA SubmittingIsSound ==
  ASSUME CallsInv, submitPreparedRun
  PROVE  CallsInv'
<1>1. PICK c \in Contexts :
        /\ Parses(stored.workflow, c)
        /\ stored' = [stored EXCEPT !.publication = "pending", !.context = Parsed(stored.workflow, c),
                                    !.ours = TRUE, !.claim = FALSE]
  BY DEF submitPreparedRun
<1> DEFINE d == Parsed(stored.workflow, c)
<1>2. call' = call /\ call = Idle /\ stored \in StoredRuns
  BY DEF submitPreparedRun, CallsInv
<1>3. Parses(stored.workflow, d) /\ Parsed(stored.workflow, d) = d
  BY <1>1, ParsedContextsParse
<1>4. d \in StoredContexts
  BY <1>2 DEF StoredRuns, StoredContexts
<1> HIDE DEF d
<1>5. stored' = [stored EXCEPT !.publication = "pending", !.context = d, !.ours = TRUE, !.claim = FALSE]
  BY <1>1 DEF d
<1>6. stored' \in StoredRuns /\ stored'.workflow = stored.workflow /\ stored'.context = d
  BY <1>2, <1>4, <1>5 DEF StoredRuns
<1>7. ContextIsSound(stored)'
  BY <1>3, <1>6 DEF ContextIsSound
<1> QED
  BY <1>2, <1>6, <1>7, CallRests

\* A claim that is lost beside a call leaves the rest of the run alone.
LEMMA LosingTheClaimIsSound ==
  ASSUME CallsInv, ClaimIsLost
  PROVE  CallsInv'
<1>1. stored \in StoredRuns /\ stored' = [stored EXCEPT !.claim = FALSE] /\ call' = call
  BY DEF CallsInv, ClaimIsLost
<1>2. /\ stored' \in StoredRuns /\ stored'.workflow = stored.workflow /\ stored'.context = stored.context
      /\ stored'.ours = stored.ours /\ stored'.publication = stored.publication /\ ~stored'.claim
  BY <1>1 DEF StoredRuns
<1>3. ContextIsSound(stored)'
  BY <1>2 DEF CallsInv, ContextIsSound
<1> QED
  BY <1>1, <1>2, <1>3, CallRests

\* A failure is retried unless Review Runs refused the call, and a refusal of
\* the connector's call that was read is never retried.
LEMMA FailuresAreClassified ==
  ASSUME CallsInv, call.at = "concluded", call.result.kind = "error"
  PROVE  /\ ~call.retry => call.refused /\ ~call.committed
         /\ call.op \in ConnectorOps /\ call.refused /\ call.answer.got = "whole" => ~call.retry
<1>1. /\ call \in CallTypes /\ AnswerIsSound(call) /\ call.answer \in Answers
      /\ call.result = request(call.op, call.answer)
      /\ call.retry <=> classifyPublicationFailure(call.result)
  BY DEF CallsInv, CallTypes, ConclusionIsSound
<1>2. call.answer.got # "nothing" /\ (call.answer.got \in {"whole", "oversized"} => call.answer.status # 0)
  BY <1>1 DEF AnswerIsSound
<1>3. NoCode \notin StepCodes \cup {"PUBLISH_CONTEXT_INVALID"}
  BY NoCodeIsNoText DEF errorCodeEnum
<1>4. \/ call.result = Failed(0, NoCode)
      \/ call.result = Failed(0, "REVIEW_RUNS_REQUEST_TIMEOUT")
      \/ call.result = Failed(0, "REVIEW_RUNS_RESPONSE_TOO_LARGE")
      \/ /\ call.answer.got = "oversized" /\ call.answer.status \in {400, 401, 404, 409, 413, 500, 502}
         /\ call.result = Failed(call.answer.status, NoCode)
      \/ /\ call.answer.got = "whole" /\ call.answer.status \in {400, 401, 404, 409, 413, 500, 502}
         /\ call.result = Failed(call.answer.status, call.answer.code)
  BY <1>1, <1>2, WhatTheClientReads, ResultsHaveFields
<1>5. ASSUME NEW code \in {NoCode, "REVIEW_RUNS_REQUEST_TIMEOUT", "REVIEW_RUNS_RESPONSE_TOO_LARGE"},
             call.result = Failed(0, code), call.answer.got # "whole"
      PROVE  call.retry
  <2>1. code \notin StepCodes \cup {"PUBLISH_CONTEXT_INVALID"}
    BY <1>3 DEF StepCodes
  <2>2. call.result.status = 0 /\ call.result.code = code
    BY <1>5, ResultsHaveFields
  <2> QED BY <1>1, <2>1, <2>2 DEF classifyPublicationFailure, StepCodes
<1>6. ASSUME call.answer.got = "oversized", call.answer.status \in {400, 401, 404, 409, 413, 500, 502},
             call.result = Failed(call.answer.status, NoCode)
      PROVE  ~call.retry => call.refused /\ ~call.committed
  <2>1. call.result.status = call.answer.status /\ call.result.code = NoCode
    BY <1>6, ResultsHaveFields
  <2>2. call.answer.status \in {500, 502} => call.retry
    BY <1>1, <1>3, <2>1 DEF classifyPublicationFailure, StepCodes
  <2>3. call.answer.status \in {400, 401, 404, 409, 413} => call.refused /\ ~call.committed
    BY <1>1, <1>6 DEF AnswerIsSound
  <2> QED BY <1>6, <2>2, <2>3
<1>7. ASSUME call.answer.got = "whole", call.answer.status \in {400, 401, 404, 409, 413, 500, 502},
             call.result = Failed(call.answer.status, call.answer.code)
      PROVE  /\ ~call.retry => call.refused /\ ~call.committed
             /\ call.op \in ConnectorOps /\ call.refused => ~call.retry
  <2>1. call.result.status = call.answer.status /\ call.result.code = call.answer.code
    BY <1>7, ResultsHaveFields
  <2>2. call.answer.status \in {500, 502} => call.retry /\ ~call.refused
    <3>1. call.answer.status \in {500, 502} => call.answer.code = NoCode /\ ~call.refused
      BY <1>1, <1>7 DEF AnswerIsSound
    <3> QED BY <1>1, <1>3, <2>1, <3>1 DEF classifyPublicationFailure, StepCodes
  <2>3. call.answer.status \in {400, 401, 404, 409, 413} => call.refused /\ ~call.committed
    BY <1>1, <1>7 DEF AnswerIsSound
  <2>4. call.answer.status \in {400, 401, 404, 413} => ~call.retry
    BY <1>1, <2>1 DEF classifyPublicationFailure
  <2>5. call.op \in ConnectorOps /\ call.answer.status = 409 => ~call.retry
    <3>1. call.op \in ConnectorOps /\ call.answer.status = 409 => call.answer.code \in StepCodes
      BY <1>1, <1>7 DEF AnswerIsSound
    <3> QED BY <1>1, <2>1, <3>1 DEF classifyPublicationFailure
  <2> QED BY <1>7, <2>2, <2>3, <2>4, <2>5
<1>8. ASSUME call.answer.got = "whole" PROVE call.result # Failed(0, NoCode)
             /\ call.result # Failed(0, "REVIEW_RUNS_REQUEST_TIMEOUT")
             /\ call.result # Failed(0, "REVIEW_RUNS_RESPONSE_TOO_LARGE")
  <2>1. call.answer.status \in Statuses \ {0}
    BY <1>1, <1>2, <1>8 DEF Answers
  <2>2. \/ call.result.kind = "value"
        \/ call.result = Failed(call.answer.status, call.answer.code)
    <3>1. call.result = request(call.op, call.answer)
      BY <1>1
    <3> QED BY <1>8, <2>1, <3>1, ResultsHaveFields DEF request, Statuses
  <2> QED BY <2>1, <2>2, ResultsHaveFields
<1> QED
  BY <1>4, <1>5, <1>6, <1>7, <1>8

\* What the client returns is what the handler did.
LEMMA ValuesAreTold ==
  ASSUME CallsInv, call.at = "concluded", call.result.kind = "value"
  PROVE  /\ call.result.value \notin {"null", "false", "no retry"} /\ Durable(call.op) => call.committed
         /\ call.result.value = "false" => ~call.committed
         /\ call.result.value = "true" => call.answer.value = "true"
         /\ call.op = "failPreparation" => ~stored.claim
<1>1. /\ call \in CallTypes /\ AnswerIsSound(call) /\ call.answer \in Answers
      /\ call.result = request(call.op, call.answer)
  BY DEF CallsInv, CallTypes, ConclusionIsSound
<1>2. call.answer.got # "nothing" /\ (call.answer.got \in {"whole", "oversized"} => call.answer.status # 0)
  BY <1>1 DEF AnswerIsSound
<1>3. \/ call.result = Returned("null")
      \/ /\ call.answer.got = "whole" /\ call.answer.status = 200
         /\ call.result = Returned(IF call.answer.value = "empty" THEN "undefined" ELSE call.answer.value)
  BY <1>1, <1>2, WhatTheClientReads, ResultsHaveFields
<1>4. CASE call.result = Returned("null")
  <2>1. call.result.value = "null"
    BY <1>4, ResultsHaveFields
  <2>2. call.op # "failPreparation"
    <3>1. call.op = "failPreparation" => "null" \notin Value(call.op) /\ "null" # "undefined"
      BY DEF Value, EmptyBody
    <3> QED BY <1>1, <1>2, <2>1, <3>1, WhatTheClientReads, ResultsHaveFields DEF AnswerIsSound, ValueTells
  <2> QED BY <2>1, <2>2
<1>5. CASE /\ call.answer.got = "whole" /\ call.answer.status = 200
           /\ call.result = Returned(IF call.answer.value = "empty" THEN "undefined" ELSE call.answer.value)
  <2>1. call.result.value = IF call.answer.value = "empty" THEN "undefined" ELSE call.answer.value
    BY <1>5, ResultsHaveFields
  <2>2. ValueTells(call.op, call.answer.value, call.committed)
    BY <1>1, <1>5 DEF AnswerIsSound
  <2>3. CASE call.op = "failPreparation"
    <3>1. call.answer.value \in {"retry", "no retry"}
      <4>1. Value("failPreparation") = {"retry", "no retry"}
        BY DEF Value, EmptyBody, ReadOps, AdminOps
      <4> QED BY <2>2, <2>3, <4>1 DEF ValueTells
    <3>2. ~stored.claim
      BY <2>3, <3>1, NoCodeIsNoText DEF CallsInv, ClaimIsSettled
    <3> QED BY <2>1, <2>2, <2>3, <3>1, <3>2 DEF ValueTells
  <2>4. CASE call.op # "failPreparation"
    <3>1. call.committed <=> call.answer.value \notin {"false", "null"}
      BY <2>2, <2>4 DEF ValueTells
    <3> QED BY <2>1, <2>4, <3>1
  <2> QED BY <2>3, <2>4
<1> QED
  BY <1>3, <1>4, <1>5

\* What a caller of Review Runs concludes is what happened: a value that
\* claims an effect means that what was asked for is done, after an answer
\* about a failed preparation the caller's claim is gone, a failure is final
\* exactly if Review Runs refused the call, and a publication is failed for its
\* context only if the context is unusable, which none submitted here is, for
\* any publish contexts, repository names and body limit
\* (client.ts request, server-surface.ts registerReviewRunsRoutes,
\* publication-failure.ts, publish-context.ts).
THEOREM CallsAreAlwaysUnderstood == CallsSpec => []CallsAreUnderstood
<1>1. CallsInit => CallsInv
  <2> SUFFICES ASSUME CallsInit PROVE CallsInv
    OBVIOUS
  <2>1. PICK w \in Workflows, c \in Contexts, publication \in {"none", "pending"} :
          stored = [workflow |-> w, context |-> c, publication |-> publication, ours |-> FALSE,
                    claim |-> publication = "none"]
    BY DEF CallsInit
  <2>2. stored \in StoredRuns /\ ContextIsSound(stored)
    BY <2>1 DEF StoredRuns, StoredContexts, ContextIsSound
  <2>3. call = Idle
    BY DEF CallsInit
  <2>4. /\ call.at = "idle" /\ call.op = NoCode /\ call.answer = NoAnswer /\ ~call.refused
        /\ call.after = NoCode
    BY <2>3 DEF Idle
  <2>5. NoAnswer \in Answers /\ NoAnswer.got = "nothing" /\ NoAnswer.value = NoCode /\ NoAnswer.status = 0
    BY DEF NoAnswer, Answers, Statuses, Values
  <2>6. Returned("undefined") \in Results
    BY DEF Returned, Results, Values, Statuses, Codes
  <2>7. call \in CallTypes
    BY <2>3, <2>5, <2>6 DEF Idle, CallTypes
  <2>8. AnswerIsSound(call) /\ RequestIsSound(call) /\ ConclusionIsSound(call)
    BY <2>4, <2>5 DEF AnswerIsSound, RequestIsSound, ConclusionIsSound
  <2>9. FailureIsSound
    BY <2>4, <2>5, NoCodeIsNoText DEF FailureIsSound
  <2>10. ClaimIsSettled
    BY <2>4, <2>5 DEF ClaimIsSettled
  <2> QED BY <2>2, <2>3, <2>7, <2>8, <2>9, <2>10 DEF CallsInv
<1>2. CallsInv /\ [CallsNext]_callVars => CallsInv'
  <2> SUFFICES ASSUME CallsInv, [CallsNext]_callVars PROVE CallsInv'
    OBVIOUS
  <2>1. CASE UNCHANGED callVars
    <3>1. call' = call /\ stored' = stored
      BY <2>1 DEF callVars
    <3>2. stored' \in StoredRuns /\ ContextIsSound(stored)'
      BY <3>1 DEF CallsInv, ContextIsSound
    <3> QED BY <3>1, <3>2, CallRests
  <2>2. CASE CallsNext
    <3>1. ASSUME NEW op \in Operations, Call(op) \/ CallFromOutside(op) PROVE CallsInv'
      BY <3>1, CallingIsSound, OutsideCallingIsSound
    <3> QED
      BY <2>2, <3>1, SubmittingIsSound, RefusingIsSound, HandlerFailureIsSound, HandlerAnswerIsSound,
         FaultyAnswerIsSound, ConcludingIsSound, ClaimedContextIsSound, LosingTheClaimIsSound
         DEF CallsNext
  <2> QED BY <2>1, <2>2
<1>3. CallsInv => CallsAreUnderstood
  <2> SUFFICES ASSUME CallsInv PROVE CallsAreUnderstood
    OBVIOUS
  <2>1. /\ call \in CallTypes /\ call.answer \in Answers /\ call.result \in Results /\ stored \in StoredRuns
        /\ AnswerIsSound(call) /\ FailureIsSound /\ ContextIsSound(stored)
    BY DEF CallsInv, CallTypes
  <2>2. call.answer.code \in errorCodeEnum \cup {NoCode}
    BY <2>1 DEF Answers
  <2>3. call.op \in ConnectorOps /\ call.refused => call.answer.status # 400
    BY <2>1 DEF AnswerIsSound
  <2>4. call.at = "concluded" /\ call.result.value = "true" => call.answer.value = "true"
    <3>1. call.at = "concluded" /\ call.result.kind = "error" => call.result.value = NoCode
      <4> SUFFICES ASSUME call.at = "concluded", call.result.kind = "error" PROVE call.result.value = NoCode
        OBVIOUS
      <4>1. call.result = request(call.op, call.answer)
        BY DEF CallsInv, ConclusionIsSound
      <4>2. call.answer.got # "nothing" /\ (call.answer.got \in {"whole", "oversized"} => call.answer.status # 0)
        BY <2>1 DEF CallsInv, AnswerIsSound
      <4> QED BY <2>1, <4>1, <4>2, WhatTheClientReads, ResultsHaveFields
    <3>2. call.result.kind \in {"error", "value"} /\ NoCode # "true"
      BY <2>1, NoCodeIsNoText DEF Results
    <3> QED BY <3>1, <3>2, ValuesAreTold
  <2>5. call.op = "failPublication" /\ call.after # NoCode =>
          /\ ~Parses(stored.workflow, stored.context) /\ ~stored.ours
          /\ (call.at = "concluded" /\ call.result.value = "true") => stored.publication = "failed"
    BY <2>1, <2>4 DEF FailureIsSound
  <2>6. stored.ours =>
          /\ Parses(stored.workflow, stored.context)
          /\ Parsed(stored.workflow, stored.context) = stored.context
          /\ LET named == splitRepoFullName[stored.context.full.v]
             IN <<lowerCase[named[1]], lowerCase[named[2]]>> =
                   <<lowerCase[stored.context.owner.v], lowerCase[stored.context.name.v]>>
    <3> SUFFICES ASSUME stored.ours
                 PROVE  /\ Parses(stored.workflow, stored.context)
                        /\ Parsed(stored.workflow, stored.context) = stored.context
                        /\ LET named == splitRepoFullName[stored.context.full.v]
                           IN <<lowerCase[named[1]], lowerCase[named[2]]>> =
                                 <<lowerCase[stored.context.owner.v], lowerCase[stored.context.name.v]>>
      OBVIOUS
    <3>1. /\ Parses(stored.workflow, stored.context)
          /\ Parsed(stored.workflow, stored.context) = stored.context
      BY <2>1 DEF ContextIsSound
    <3>2. repositoryIdentity(stored.context)
      BY <3>1 DEF Parses, parseIssueReviewPublishContext, parsePullRequestReviewPublishContext,
                  parseRepositoryReviewPublishContext
    <3> QED BY <3>1, <3>2 DEF repositoryIdentity
  <2> QED BY <2>2, <2>3, <2>5, <2>6, FailuresAreClassified, ValuesAreTold DEF CallsAreUnderstood
<1> QED
  BY <1>1, <1>2, <1>3, PTL DEF CallsSpec

=============================================================================
