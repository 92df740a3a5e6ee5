------------------------- MODULE MemoryTreeArtifact -------------------------
(***************************************************************************)
(* The memory tree artifact: the builder and the reader of the Control     *)
(* Plane UI (server/memory/memory-tree-artifact.ts, artifacts/tar-zstd.ts) *)
(* and the validator the contract publishes (contracts/tar-zstd-artifact/  *)
(* profiles/memory-tree/tools/src/archive.ts).                             *)
(*                                                                         *)
(* A path is the sequence of its components; ByteOrder lists the entry     *)
(* names in the order of their bytes ("a.md" before "a/").  An archive is  *)
(* the sequence of its header blocks: a file, a directory, a PAX header    *)
(* that carries a path too long for the ustar fields, or another type.     *)
(* Compression, checksums and padding are left out: a block is well formed *)
(* or its archive does not decompress.                                     *)
(***************************************************************************)
EXTENDS Naturals, Sequences, SequencesExt

CONSTANTS
    Refused,            \* what a refused archive or content yields
    Markdown,           \* components that end in .md
    Odd,                \* components no path may have: empty, ".", "..", or
                        \* with a backslash
    Cut,                \* the components with a NUL byte, and what is before it
    LongPaths,          \* entry names that do not fit the ustar fields
    HugePaths,          \* those of them beyond the reader's limit
    ByteOrder,          \* all entry names, <<path, directory>>, in byte order
    MaxEntries, MaxFileBytes, MaxExtractedBytes, MaxPaxHeaderBytes

Rank(name) == CHOOSE i \in DOMAIN ByteOrder : ByteOrder[i] = name

Name(e) == <<e.path, e.directory>>

\* compareArchivePaths and Buffer.compare: byte order of the entry names.
compareArchivePaths(a, b) == Rank(Name(a)) < Rank(Name(b))

Ordered(entries) ==
    \A i \in 1..(Len(entries) - 1) : compareArchivePaths(entries[i], entries[i + 1])

Manifest == [path |-> <<"manifest.json">>, directory |-> FALSE, type |-> "0", size |-> 1,
             text |-> TRUE, canonical |-> TRUE, body |-> "version 1"]

Directory(path) == [path |-> path, directory |-> TRUE, type |-> "5", size |-> 0,
                    text |-> TRUE, canonical |-> TRUE, body |-> "none"]

File(path, file) == [path |-> path, directory |-> FALSE, type |-> "0", size |-> file.size,
                     text |-> file.text, canonical |-> TRUE, body |-> "markdown"]

\* The two zero blocks that end an archive.
Terminator == [Manifest EXCEPT !.path = << >>, !.type = "end", !.size = 0, !.body = "none"]

Root == <<"memory">>
Topics == <<"memory", "topics">>

Total(sizes) == FoldLeft(+, 0, sizes)

-----------------------------------------------------------------------------
(***************************************************************************)
(* The builder                                                             *)
(***************************************************************************)

\* Mutant: any file below topics/ will do.
validateContentPath_AnyTopic(name) ==
    \/ name = <<"MEMORY.md">>
    \/ /\ Len(name) > 1 /\ name[1] = "topics"
       /\ \A i \in DOMAIN name : name[i] \notin Odd

\* MEMORY.md, or Markdown below topics/ with canonical components.
validateContentPath(name) ==
    \/ name = <<"MEMORY.md">>
    \/ /\ Len(name) > 1 /\ name[1] = "topics" /\ name[Len(name)] \in Markdown
       /\ \A i \in DOMAIN name : name[i] \notin Odd

validateTextFile(file) == file.size <= MaxFileBytes /\ file.text

\* Every directory on the way to a file is an entry.
parentDirectories(names) ==
    {Topics} \cup
    {Root \o SubSeq(n, 1, k) : <<n, k>> \in {p \in names \X (1..4) : p[2] < Len(p[1])}}

\* A name in a header ends at a NUL byte, wherever it is read.
headerPath(e) ==
    LET cut == {i \in DOMAIN e.path : e.path[i] \in DOMAIN Cut}
        first == CHOOSE i \in cut : \A j \in cut : i <= j
    IN IF cut = {} THEN e
       ELSE [e EXCEPT !.path = Append(SubSeq(@, 1, first - 1), Cut[@[first]]),
                      !.directory = FALSE]

\* A path too long for the header goes into a PAX header before its entry,
\* whose own name is then a marker.
paxEntry(e) ==
    IF Name(e) \in LongPaths
    THEN <<[e EXCEPT !.type = "x", !.body = "path",
                     !.size = IF Name(e) \in HugePaths THEN MaxPaxHeaderBytes + 1 ELSE 1],
           [e EXCEPT !.path = <<"PaxPath">>]>>
    ELSE <<headerPath(e)>>

Blocks(entries) == FoldLeft(\o, <<>>, [i \in DOMAIN entries |-> paxEntry(entries[i])])

buildMemoryTreeArtifact(content) ==
    LET names == DOMAIN content
        entries == {Directory(d) : d \in parentDirectories(names)} \cup
                   {File(Root \o n, content[n]) : n \in names}
        ordered == SelectSeq([i \in DOMAIN ByteOrder |->
                       IF \E e \in entries : Name(e) = ByteOrder[i]
                       THEN CHOOSE e \in entries : Name(e) = ByteOrder[i] ELSE Manifest],
                       LAMBDA e : e # Manifest)
    IN IF /\ <<"MEMORY.md">> \in names
          /\ \A n \in names : validateContentPath(n) /\ validateTextFile(content[n])
          /\ 1 + Total([i \in DOMAIN ordered |-> ordered[i].size]) <= MaxExtractedBytes
          /\ Len(ordered) + 2 <= MaxEntries
       THEN Append(Blocks(<<Manifest, Directory(Root)>> \o ordered), Terminator)
       ELSE Refused

-----------------------------------------------------------------------------
(***************************************************************************)
(* The restricted PAX envelope: a PAX header names the entry after it, no  *)
(* other extension is known, and nothing follows the end.  The UI also     *)
(* checks types and metadata here, which the contract's parser leaves to   *)
(* its profile, and bounds the PAX header, which the contract does not.    *)
(***************************************************************************)

RejectedExtensions == {"g", "L", "K", "S"}

\* One record, and it holds the path.
parsePaxPath(header) == header.body = "path"

CanonicalMetadata(e) == e.canonical /\ (e.type = "5" => e.size = 0)

EnvelopeEntry(e) == e.type \in {"0", "5"} /\ CanonicalMetadata(e)

\* Reading one block: what was read, the PAX header that waits for its entry,
\* and whether the end was met.
ReadBlock(acc, b, strict) ==
    LET named == IF acc.pending = <<>> THEN b ELSE acc.pending[1]
        e == [b EXCEPT !.path = named.path, !.directory = named.directory]
    IN IF acc.entries = Refused \/ acc.ended \/ b.type \in RejectedExtensions
       THEN [acc EXCEPT !.entries = Refused]
       ELSE IF b.type = "end" THEN [acc EXCEPT !.ended = TRUE]
       ELSE IF b.type = "x" /\ acc.pending = <<>> /\ parsePaxPath(b)
               /\ (strict => b.size <= MaxPaxHeaderBytes)
       THEN [acc EXCEPT !.pending = <<b>>]
       ELSE IF b.type # "x" /\ (strict => EnvelopeEntry(e))
       THEN [acc EXCEPT !.entries = Append(@, e), !.pending = <<>>]
       ELSE [acc EXCEPT !.entries = Refused]

Parse(blocks, strict) ==
    LET read == FoldLeft(LAMBDA acc, b : ReadBlock(acc, b, strict),
                         [entries |-> <<>>, pending |-> <<>>, ended |-> FALSE], blocks)
    IN IF read.pending # <<>> \/ ~read.ended THEN Refused ELSE read.entries

validateRestrictedPaxTar(blocks) == Parse(blocks, TRUE)

parseTar(blocks) == Parse(blocks, FALSE)

-----------------------------------------------------------------------------
(***************************************************************************)
(* The reader                                                              *)
(***************************************************************************)

Below(e, path) == Len(e.path) > Len(path) /\ SubSeq(e.path, 1, Len(path)) = path

ReadsDirectory(e) ==
    e.directory /\ (e.path \in {Root, Topics} \/ Below(e, Topics))

ReadableEntry(e) ==
    IF Name(e) = Name(Manifest) THEN e.type = "0" /\ e.body = Manifest.body
    ELSE IF ReadsDirectory(e) THEN e.type = "5"
    ELSE /\ Below(e, Root) /\ ~e.directory
         /\ validateContentPath(Tail(e.path)) /\ e.type = "0"
         /\ validateTextFile(e)

ContentOf(entries) ==
    LET files == {i \in DOMAIN entries : Below(entries[i], Root) /\ ~entries[i].directory}
    IN [n \in {Tail(entries[i].path) : i \in files} |->
          LET e == entries[CHOOSE i \in files : Tail(entries[i].path) = n]
          IN [size |-> e.size, text |-> e.text]]

\* Entries must ascend; only memory/ is exempt from the comparison.
readMemoryTreeArtifact(blocks) ==
    LET entries == validateRestrictedPaxTar(blocks)
        has(path, directory) ==
            \E i \in DOMAIN entries : Name(entries[i]) = <<path, directory>>
    IN IF entries = Refused THEN Refused
       ELSE IF /\ Len(entries) \in 1..MaxEntries
               /\ entries[1].path = Manifest.path
               /\ \A i, j \in DOMAIN entries : Name(entries[i]) = Name(entries[j]) => i = j
               /\ \A i \in 2..Len(entries) :
                     entries[i].path = Root \/ compareArchivePaths(entries[i - 1], entries[i])
               /\ \A i \in DOMAIN entries : ReadableEntry(entries[i])
               /\ Total([i \in DOMAIN entries |-> entries[i].size]) <= MaxExtractedBytes
               /\ has(Root, TRUE) /\ has(Topics, TRUE) /\ has(Root \o <<"MEMORY.md">>, FALSE)
            THEN ContentOf(entries)
            ELSE Refused

-----------------------------------------------------------------------------
(***************************************************************************)
(* The contract's validator                                                *)
(***************************************************************************)

\* The contract's path rule, which the builder has but for the NUL byte.
canonicalPath(e) ==
    /\ (e.type = "5") = e.directory
    /\ \A i \in DOMAIN e.path : e.path[i] \notin Odd /\ e.path[i] \notin DOMAIN Cut

allowedPath(e) ==
    \/ e.path = Manifest.path /\ e.type = "0"
    \/ e.path \in {Root, Topics} /\ e.type = "5"
    \/ e.path = Root \o <<"MEMORY.md">> /\ e.type = "0"
    \/ Below(e, Topics) /\ (e.type = "5" \/ (e.type = "0" /\ e.path[Len(e.path)] \in Markdown))

validateEntries(entries) ==
    /\ Len(entries) \in 1..MaxEntries
    /\ entries[1].path = Manifest.path
    /\ \A i, j \in DOMAIN entries : Name(entries[i]) = Name(entries[j]) => i = j
    /\ \A i \in DOMAIN entries :
          /\ canonicalPath(entries[i]) /\ entries[i].type \in {"0", "5"}
          /\ allowedPath(entries[i]) /\ CanonicalMetadata(entries[i])
          /\ (entries[i].type = "0" => entries[i].size <= MaxFileBytes /\ entries[i].text)
    /\ Total([i \in DOMAIN entries |-> entries[i].size]) <= MaxExtractedBytes
    /\ {Name(Manifest), <<Root, TRUE>>, <<Root \o <<"MEMORY.md">>, FALSE>>, <<Topics, TRUE>>}
          \subseteq {Name(entries[i]) : i \in DOMAIN entries}
    /\ entries[1].body = Manifest.body
    /\ Ordered(Tail(entries))

validateArchive(blocks) ==
    LET entries == parseTar(blocks)
    IN entries # Refused /\ validateEntries(entries)
=============================================================================
