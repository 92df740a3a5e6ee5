--------------------------- MODULE MCMemoryCatalog ---------------------------
(***************************************************************************)
(* The Memory Catalog under four casts of attempts, the archives a memory  *)
(* tree may arrive in, the lists operators read, the console's server and  *)
(* one tab of the console.  The parts share no state, so a behaviour       *)
(* exercises one of them.                                                  *)
(***************************************************************************)
EXTENDS MemoryCatalog, MemoryTreeArtifact, ReadModels, ConsoleServer, ConsoleBrowser

CONSTANTS x1, x2, m1, m2, e1, c1, c2, r1, MaxRows, MaxRevisions, MaxBlocks

VARIABLES part, archive

parts == <<part, archive>>

\* Two attempts of an extraction beside a maintenance; two attempts of a
\* maintenance beside another and an edit; an edit and a restore sent twice;
\* pause and resume beside two maintenances and a restore.
Casts == {
    [prior |-> {}, cast |-> {<<x1, 1>>, <<x1, 2>>, <<m1, 1>>}],
    [prior |-> {x1, x2}, cast |-> {<<m1, 1>>, <<m1, 2>>, <<m2, 1>>, <<e1, 1>>}],
    [prior |-> {x1}, cast |-> {<<m1, 1>>, <<e1, 1>>, <<e1, 2>>, <<r1, 1>>, <<r1, 2>>}],
    [prior |-> {x1}, cast |-> {<<m1, 1>>, <<m2, 1>>, <<c1, 1>>, <<c1, 2>>, <<c2, 1>>, <<r1, 1>>}]}

Resting == [prior |-> {}, cast |-> {}]

-----------------------------------------------------------------------------
T(path) == Topics \o path

MCByteOrder == <<
    <<<<"manifest.json">>, FALSE>>,
    <<Root, TRUE>>,
    <<Root \o <<"MEMORY.md">>, FALSE>>,
    <<Topics, TRUE>>,
    <<T(<<"..">>), TRUE>>,
    <<T(<<"a.md">>), FALSE>>,
    <<T(<<"a.md NUL .md">>), FALSE>>,
    <<T(<<"a">>), TRUE>>,
    <<T(<<"a", "b">>), TRUE>>,
    <<T(<<"a", "b", "c.md">>), FALSE>>,
    <<T(<<"huge.md">>), FALSE>>,
    <<T(<<"long NUL .md">>), FALSE>>,
    <<T(<<"long.md">>), FALSE>>,
    <<T(<<"n">>), FALSE>>,
    <<T(<<"n NUL .md">>), FALSE>>,
    <<T(<<"n NUL ">>), TRUE>>,
    <<T(<<"n NUL ", "d.md">>), FALSE>>,
    <<T(<<"n.txt">>), FALSE>>,
    <<T(<<"o\\.md">>), FALSE>>,
    <<<<"PaxPath">>, FALSE>>>>

MCCut == [c \in {"a.md NUL .md", "long NUL .md", "n NUL .md", "n NUL "} |->
             IF c = "a.md NUL .md" THEN "a.md" ELSE IF c = "long NUL .md" THEN "long" ELSE "n"]

MCMarkdown == {"MEMORY.md", "a.md", "c.md", "d.md", "long.md", "huge.md", "a.md NUL .md", "long NUL .md",
               "n NUL .md", "o\\.md"}
MCOdd == {".", "..", "o\\.md"}

MCHugePaths == {<<T(<<"huge.md">>), FALSE>>}
MCLongPaths == {<<T(<<"long.md">>), FALSE>>, <<T(<<"long NUL .md">>), FALSE>>} \cup MCHugePaths

ContentPaths == {<<"MEMORY.md">>, <<"topics", "a.md">>, <<"topics", "a", "b", "c.md">>,
                 <<"topics", "long.md">>, <<"topics", "n.txt">>}

\* Names the builder or a reader may stumble over.
OddPaths == {<<"topics", "a.md">>, <<"topics", "a.md NUL .md">>, <<"topics", "long NUL .md">>,
             <<"topics", "n NUL .md">>, <<"topics", "n NUL ", "d.md">>, <<"topics", "huge.md">>,
             <<"topics", "o\\.md">>}

\* Everything the builder may be given: sizes at and beyond both limits, and
\* the names above.
Contents ==
    UNION {{[n \in names |-> [size |-> size[n], text |-> text]] :
               size \in [names -> {0, 1, 3}], text \in BOOLEAN} : names \in SUBSET ContentPaths}
    \cup {[n \in names \cup {<<"MEMORY.md">>} |-> [size |-> 1, text |-> TRUE]] : names \in SUBSET OddPaths}

Index == File(Root \o <<"MEMORY.md">>, [size |-> 1, text |-> TRUE])
Topic(size) == File(T(<<"a.md">>), [size |-> size, text |-> TRUE])
Long(name) == paxEntry(File(T(<<name>>), [size |-> 1, text |-> TRUE]))

\* Blocks an archive may be made of: the required ones, with others that name
\* one file twice, are out of place or of a wrong type, or with PAX headers.
Required == {Manifest, Directory(Root), Index, Directory(Topics), Topic(1)}
ArchiveBlocks == {
    Required \cup {Topic(3), Directory(T(<<"a">>)), Directory(T(<<"..">>)),
                  [Index EXCEPT !.type = "L"]},
    Required \cup {Long("long.md")[1], Long("long.md")[2], Long("huge.md")[1],
                  Long("long NUL .md")[1]}}

AppendBlock ==
    /\ Len(archive) < MaxBlocks
    /\ \E blocks \in ArchiveBlocks :
          /\ Range(archive) \subseteq blocks
          /\ \E b \in blocks \ Range(archive) : archive' = Append(archive, b)

-----------------------------------------------------------------------------
MCRunShapes == {
    [execution |-> "queued", preparation |-> "submitted", publication |-> "pending"],
    [execution |-> "running", preparation |-> "submitted", publication |-> "pending"],
    [execution |-> Nothing, preparation |-> "submitted", publication |-> "pending"]}

\* What happens before the first page is how the rows came to be, and what
\* happens after the last page concerns nobody.
ReadsNext ==
    \/ /\ Cardinality(runs) < MaxRows /\ records = {} /\ reader.at # "end"
       /\ InsertRun /\ UNCHANGED <<records, revisionCount, reader>>
    \/ reader.at = "reading" /\ UNCHANGED <<records, revisionCount>> /\ markRunning
    \/ /\ Cardinality(records) < MaxRows /\ runs = {} /\ reader.at # "end"
       /\ InsertExtraction /\ UNCHANGED <<runs, revisionCount, reader>>
    \/ StartReading /\ UNCHANGED <<runs, records, revisionCount>>
    \/ ReadPage /\ UNCHANGED <<runs, records, revisionCount>>
    \/ revisionCount < MaxRevisions /\ reader.at # "end" /\ UNCHANGED runs /\ ConsumeObservations

-----------------------------------------------------------------------------
Asked(route, id, view) == [route |-> route, id |-> id, view |-> view]

MCTargets == {Asked("run", "r1", "download"), Asked("run", "r1", "content"),
              Asked("tree", "t1", "download"), Asked("trajectory", "j1", "content")}

ContentFor(target) == IF target.route = "run" THEN <<"a", "b">> ELSE <<"c">>

TrajectoryKey(id) == [kind |-> "trajectory", name |-> <<id>>]

\* Under the right key the published bytes, or altered, shorter or longer
\* ones; under another key another object, altered or not.
MCHoldings(key) ==
    CASE key = BundleKey("r1") -> {<<"a", "b">>, <<"a", "x">>, <<"a">>, <<"a", "b", "x">>}
      [] key \in {BundleKey("r2"), TreeKey(<<"d">>), TrajectoryKey("j2")} -> {<<"d">>, <<"x">>}
      [] OTHER -> {<<"c">>, <<"x">>, <<>>, <<"c", "x">>}

MCKey(target) ==
    IF target.route = "run" THEN BundleKey(target.id)
    ELSE IF target.route = "tree" THEN TreeKey(<<"c">>) ELSE TrajectoryKey(target.id)

Ref(key, content) == [wellFormed |-> TRUE, key |-> key, digest |-> content, size |-> Len(content)]

Reply(record) == [fault |-> None, declared |-> None, length |-> 1, budget |-> 1, status |-> 200, record |-> record]

Published(target) == [id |-> target.id, status |-> "available", source |-> "maintenance",
                      ref |-> Ref(MCKey(target), ContentFor(target))]

\* The right record; another run's; one that names another run's object,
\* another tree or another trajectory; one that gives another digest; a size
\* beyond the limit; an unpublished one; failures of the call, before and
\* after a body that is too large.
MCReplies(target) ==
    LET right == Published(target)
        elsewhere == {Ref(key, <<"d">>) : key \in {BundleKey("r2"), TreeKey(<<"d">>), TrajectoryKey("j2")}}
        bad == {Reply([right EXCEPT !.ref.wellFormed = FALSE]), Reply([right EXCEPT !.ref = None]),
                Reply([right EXCEPT !.ref.size = 9]), Reply([right EXCEPT !.ref.digest = <<"a", "x">>]),
                Reply([right EXCEPT !.status = "pending", !.source = "operator"])}
        failed == {[Reply(right) EXCEPT !.status = 404], [Reply(right) EXCEPT !.status = 500],
                   [Reply(right) EXCEPT !.declared = 2], [Reply(right) EXCEPT !.length = 2]}
                  \cup {[Reply(right) EXCEPT !.fault = fault, !.length = length] :
                          fault \in {"timeout", "unavailable"}, length \in {0, 2}}
    IN {Reply(right)} \cup bad \cup failed
       \cup {Reply([right EXCEPT !.ref = ref, !.id = id]) : ref \in elsewhere, id \in {target.id, "r2"}}

MCMaximumSize == [run |-> 3, tree |-> 2, trajectory |-> 2]

BundleFile(name, size, text) == [name |-> name, type |-> "file", size |-> size, text |-> text]

\* Complete archives, with files beyond the preview budgets, and archives
\* that break one rule each.
MCBundles ==
    LET jsonl == <<"artifact-tree", "u.jsonl">>
        files == <<BundleFile(<<"manifest.json">>, 1, TRUE), BundleFile(<<"result.json">>, 1, TRUE),
                   [name |-> <<"artifact-tree">>, type |-> "directory", size |-> 0, text |-> FALSE],
                   BundleFile(jsonl, 2, TRUE), BundleFile(<<"artifact-tree", "big">>, 3, TRUE),
                   BundleFile(<<"artifact-tree", "bin">>, 1, FALSE), BundleFile(<<"artifact-tree", "last">>, 1, TRUE)>>
        manifest == [run |-> "r1", units |-> <<[id |-> "u", trajectories |-> {jsonl}]>>]
        good == [entries |-> files, manifest |-> manifest]
    IN {good, [good EXCEPT !.manifest = None], [good EXCEPT !.manifest.run = "r2"],
        [good EXCEPT !.manifest.units = <<[id |-> "u", trajectories |-> {<<"artifact-tree", "gone.jsonl">>}]>>],
        [good EXCEPT !.manifest.units = @ \o @], [good EXCEPT !.entries = SubSeq(files, 1, 3)],
        [good EXCEPT !.entries = files \o <<files[4]>>], [good EXCEPT !.entries[5].size = 9],
        [good EXCEPT !.entries[4].name = <<"artifact-tree", "..">>], [good EXCEPT !.entries[6].type = "link"]}

MCRequests ==
    [method : {"GET"}, path : {"runs", "admin"}, query : {{}, {"status", "range"}},
     origin : {"console"}, token : {None}, size : {0}]
    \cup [method : {"POST"}, path : {"decision", "runs"}, query : {{}}, origin : {"console", "elsewhere"},
          token : {None, "operator"}, size : {1, 2}]

-----------------------------------------------------------------------------
MCFollow(cursor) == IF cursor = First THEN "c1" ELSE IF cursor = "c1" /\ "c2" \in Cursors THEN "c2" ELSE Absent

\* The page a tab starts on, by what it is used for.
Starts == [list |-> "runs", pages |-> "run", overview |-> "memory", viewer |-> "memory", editing |-> "memory"]

Content(rs) == {r \in rs : r.what = "content"}

\* What keeps each use of the tab to the part of its state it is about: pages
\* that are only passed through do nothing, and an edit is accompanied by the
\* refreshes of its own page alone.
Focus ==
    /\ tab.at = "login" => part = "pages"
    /\ part # "pages" => tab'.at \in {Starts[part], "login", "failed", "hung"}
    /\ part = "list" => UNCHANGED world /\ (tab'.latest # tab.latest => list.data # Absent)
    /\ part = "pages" => (Starts["pages"] \notin {tab.at, tab'.at} => tab'.at # tab.at)
                         /\ (tab.at # tab'.at => ~queue.running)
    /\ part \in {"overview", "viewer"} => UNCHANGED <<editor, post>> /\ Content(reads') = {}
    /\ part = "overview" => panels'["viewer"] = EmptyPanel /\ Cardinality(reads') <= 3
    /\ part = "viewer" => panels'["tree"] = EmptyPanel
    /\ part = "editing" =>
          /\ \A p \in Panels : panels'[p].key = DefaultKey
          /\ \A r \in reads' : r.what # "viewer" /\ (r.what = "overview" => r.seen = Absent)
          /\ Cardinality(Content(reads')) <= 1 /\ (Content(reads' \ reads) # {} => editor = Absent)
          /\ panels'["tree"].error => post.at = "refreshing"
          /\ tab'.at = "login" => post.at = "sent"
          /\ queue'.queued \/ (queue'.running /\ ~queue.running) => tab.effect \/ queue.queued \/ post' # post

BrowserStart == IF part \in DOMAIN Starts THEN Starts[part] ELSE "memory"

\* The list alone, through three pages.
TrailInit ==
    /\ part = "list" /\ archive = <<>>
    /\ ConsoleInit /\ CatalogInit({}, {}) /\ BrowserInit("runs")
    /\ runs = {} /\ records = {} /\ revisionCount = 0 /\ reader = Unread

TrailSpec ==
    TrailInit /\ [][BrowserNext /\ Focus /\ UNCHANGED <<catalogVars, readVars, consoleVars, parts>>]_browserVars

-----------------------------------------------------------------------------
MemoryInit ==
    /\ part \in {"catalog", "archive", "reads", "console"} \cup DOMAIN Starts
    /\ ConsoleInit /\ BrowserInit(BrowserStart)
    /\ \E c \in IF part = "catalog" THEN Casts ELSE {Resting} : CatalogInit(c.prior, c.cast)
    /\ archive = <<>>
    /\ runs = {} /\ records = {} /\ revisionCount = 0 /\ reader = Unread

MemoryNext ==
    \/ part = "catalog" /\ CatalogNext /\ UNCHANGED <<readVars, consoleVars, browserVars, parts>>
    \/ part = "archive" /\ AppendBlock /\ UNCHANGED <<catalogVars, readVars, consoleVars, browserVars, part>>
    \/ part = "reads" /\ ReadsNext /\ UNCHANGED <<catalogVars, consoleVars, browserVars, parts>>
    \/ /\ part = "console" /\ ConsoleNext
       /\ exchange'.at = "idle" \/ relayed'.request = None
       /\ UNCHANGED <<catalogVars, readVars, browserVars, parts>>
    \/ /\ part \in DOMAIN Starts /\ BrowserNext /\ Focus
       /\ UNCHANGED <<catalogVars, readVars, consoleVars, parts>>

MemorySpec == MemoryInit /\ [][MemoryNext]_<<catalogVars, readVars, consoleVars, browserVars, parts>>

\* Every tree the Control Plane UI builds satisfies the published contract
\* and reads back as the same files, and every archive the contract accepts
\* the UI reads: an operator's edit never makes a revision that a consumer
\* refuses, and a worker's never one the UI cannot show.  Two differences are
\* known: the builder takes names with a NUL byte, and what it builds from
\* them is refused or reads back under other names; and a PAX header beyond
\* the reader's limit satisfies the contract, which has none, and cannot be
\* read (memory-tree-artifact.ts, tar-zstd.ts and the contract's archive.ts).
ArtifactsAgree ==
    part = "archive" =>
        /\ archive = <<>> =>
              \A content \in Contents :
                  LET built == buildMemoryTreeArtifact(content)
                      nul == \E n \in DOMAIN content : Range(n) \cap DOMAIN Cut # {}
                      huge == \E n \in DOMAIN content : <<Root \o n, FALSE>> \in HugePaths
                      agree == validateArchive(built) /\ readMemoryTreeArtifact(built) = content
                  IN built # Refused =>
                        /\ agree = (~nul /\ ~huge)
                        /\ huge => readMemoryTreeArtifact(built) = Refused
                        /\ huge /\ ~nul => validateArchive(built)
        /\ \A tar \in {archive, Append(archive, Terminator)} :
              validateArchive(tar) =>
                 readMemoryTreeArtifact(tar) =
                    IF \E i \in DOMAIN tar : tar[i].type = "x" /\ tar[i].size > MaxPaxHeaderBytes
                    THEN Refused ELSE ContentOf(parseTar(tar))
=============================================================================
