----------------------------- MODULE ReadModels -----------------------------
(***************************************************************************)
(* The list reads operators page through: Review Runs' run list            *)
(* (persistence/review-run-queries.ts and run-record-projection.ts) and    *)
(* the Memory Catalog's extraction, observation and revision lists         *)
(* (catalog-queries.ts), while rows are written beside them.               *)
(*                                                                         *)
(* A time is a number of microseconds, Millisecond of them to one          *)
(* millisecond: PostgreSQL stores microseconds, a JavaScript Date keeps    *)
(* milliseconds.  Ids are numbers, so that they are ordered as text.  A    *)
(* reader is owed the rows that are in its list from its first page to its *)
(* last; it may or may not meet those that come or go meanwhile.           *)
(***************************************************************************)
EXTENDS Naturals, Sequences, FiniteSets

CONSTANTS
    Nothing,
    Ids,                \* run and extraction ids
    Times,              \* created_at values, in microseconds
    Millisecond,        \* microseconds of a millisecond
    RunShapes,          \* axes of a stored run: [execution, preparation, publication]
    Workflows,
    Limit               \* page size

VARIABLES
    runs,               \* review_runs joined to its axes
    records,            \* extractions joined to observations
    revisionCount,      \* memory_tree_revisions
    reader              \* a client paging through one list

readVars == <<runs, records, revisionCount, reader>>

Lists == {"runs", "extractions", "observations", "revisions"}

Milliseconds(t) == (t \div Millisecond) * Millisecond

\* (created_at, id) < (cursor.created, cursor.id)
Before(row, cursor) ==
    \/ row.created < cursor.created
    \/ row.created = cursor.created /\ row.id < cursor.id

\* ORDER BY created_at DESC, id DESC LIMIT n
Newest(rowset, n) ==
    {r \in rowset : Cardinality({s \in rowset : Before(r, s)}) < n}

LastRow(rowset) == CHOOSE r \in rowset : \A s \in rowset : s = r \/ Before(r, s)

Page(rowset, cursor, encode(_)) ==
    LET after == {r \in rowset : cursor = Nothing \/ Before(r, cursor)}
        fetched == Newest(after, Limit + 1)
        page == Newest(fetched, Limit)
    IN [rows |-> page,
        next |-> IF Cardinality(fetched) > Limit /\ page # {} THEN encode(LastRow(page)) ELSE Nothing]

-----------------------------------------------------------------------------
(***************************************************************************)
(* Review Runs                                                             *)
(***************************************************************************)

\* A missing axis stays visible under a status filter; publications are an
\* inner join.
listRunRows(filter) ==
    {r \in runs :
        /\ (filter.execution # Nothing) => (r.execution = Nothing \/ r.execution = filter.execution)
        /\ (filter.preparation # Nothing) => (r.preparation = Nothing \/ r.preparation = filter.preparation)
        /\ (filter.publication # Nothing) => r.publication = filter.publication}

\* A run without its execution or preparation row is corrupt: it is logged
\* and not answered.
rowToRecord(row) == row.execution # Nothing /\ row.preparation # Nothing

projectRunRows(page) ==
    [records |-> {r \in page : rowToRecord(r)}, dropped |-> {r \in page : ~rowToRecord(r)}]

\* Mutant: the cursor carries the record's created_at, a millisecond Date.
encodeRunListCursor_Millisecond(row) == [created |-> Milliseconds(row.created), id |-> row.id]

\* created_at_cursor keeps the microseconds.
encodeRunListCursor(row) == [created |-> row.created, id |-> row.id]

listRunsPage(filter, cursor) ==
    LET page == Page(listRunRows(filter), cursor, encodeRunListCursor)
        projected == projectRunRows(page.rows)
    IN [seen |-> {r.id : r \in projected.records}, logged |-> {r.id : r \in projected.dropped},
        next |-> page.next]

-----------------------------------------------------------------------------
(***************************************************************************)
(* The Memory Catalog                                                      *)
(***************************************************************************)

\* toISOString of a Date.
encodeCursor(row) == [created |-> Milliseconds(row.created), id |-> row.id]

listExtractions(filter, cursor) ==
    LET page == Page({r \in records : filter.workflow \in {Nothing, r.workflow}}, cursor, encodeCursor)
    IN [seen |-> {r.id : r \in page.rows}, logged |-> {}, next |-> page.next]

\* observation: Nothing (none), 0 (pending) or the consuming revision.
listObservations(filter, cursor) ==
    LET matches(r) ==
            /\ r.observation # Nothing
            /\ (filter.status = "pending") => r.observation = 0
            /\ (filter.status = "consumed") => r.observation # 0
        page == Page({r \in records : matches(r)}, cursor, encodeCursor)
    IN [seen |-> {r.id : r \in page.rows}, logged |-> {}, next |-> page.next]

listMemoryTreeRevisions(before) ==
    LET after == {r \in 1..revisionCount : before = Nothing \/ r < before}
        page == {r \in after : Cardinality({s \in after : s > r}) < Limit}
    IN [seen |-> page, logged |-> {},
        next |-> IF Cardinality(after) > Limit
                 THEN CHOOSE r \in page : \A s \in page : r <= s ELSE Nothing]

-----------------------------------------------------------------------------
(***************************************************************************)
(* The writers and the reader                                              *)
(***************************************************************************)

Filters(list) ==
    CASE list = "runs" ->
            {[execution |-> e, preparation |-> Nothing, publication |-> Nothing] :
                e \in {Nothing} \cup {s.execution : s \in RunShapes}}
      [] list = "extractions" -> {[workflow |-> w] : w \in {Nothing} \cup Workflows}
      [] list = "observations" -> {[status |-> s] : s \in {Nothing, "pending"}}
      [] OTHER -> {Nothing}

PageOf(list, filter, cursor) ==
    CASE list = "runs" -> listRunsPage(filter, cursor)
      [] list = "extractions" -> listExtractions(filter, cursor)
      [] list = "observations" -> listObservations(filter, cursor)
      [] OTHER -> listMemoryTreeRevisions(cursor)

\* The ids a list holds under a filter, whatever the page size.
Matching(list, filter) ==
    CASE list = "runs" -> {r.id : r \in listRunRows(filter)}
      [] list = "extractions" -> {r.id : r \in {s \in records : filter.workflow \in {Nothing, s.workflow}}}
      [] list = "observations" ->
            {r.id : r \in {s \in records : s.observation # Nothing
                              /\ ((filter.status = "pending") => s.observation = 0)}}
      [] OTHER -> 1..revisionCount

Corrupt == {r.id : r \in {s \in runs : ~rowToRecord(s)}}

Unread == [at |-> "idle", list |-> Nothing, filter |-> Nothing, cursor |-> Nothing, seen |-> {},
           logged |-> {}, due |-> {}, repeated |-> FALSE]

\* A row that leaves the list is no longer due to its reader.
StillDue ==
    \E list \in {reader.list}, filter \in {reader.filter} :
        reader' = IF reader.at = "reading"
                  THEN [reader EXCEPT !.due = @ \cap Matching(list, filter)'] ELSE reader

\* Rows commit in any order of their timestamps, and appear with the axes
\* their history has led to.
InsertRun ==
    \E id \in Ids \ {r.id : r \in runs}, t \in Times, shape \in RunShapes :
        runs' = runs \cup {[id |-> id, created |-> t, execution |-> shape.execution,
                            preparation |-> shape.preparation, publication |-> shape.publication]}

\* A queued execution is observed running: the run leaves one filter and
\* enters another, and keeps its place in the order.
markRunning ==
    \E r \in runs :
        /\ r.execution = "queued"
        /\ runs' = (runs \ {r}) \cup {[r EXCEPT !.execution = "running"]}
        /\ StillDue

InsertExtraction ==
    \E id \in Ids \ {r.id : r \in records}, t \in Times, w \in Workflows, seen \in {Nothing, 0} :
        records' = records \cup {[id |-> id, created |-> t, workflow |-> w, unit |-> <<w, t>>,
                                  observation |-> seen]}

StartReading ==
    /\ reader.at = "idle"
    /\ \E list \in Lists : \E filter \in Filters(list) :
          reader' = [Unread EXCEPT !.at = "reading", !.list = list, !.filter = filter,
                                   !.due = Matching(list, filter)]

ReadPage ==
    /\ reader.at = "reading"
    /\ LET page == PageOf(reader.list, reader.filter, reader.cursor)
       IN reader' = [reader EXCEPT !.seen = @ \cup page.seen, !.logged = @ \cup page.logged,
                        !.cursor = page.next, !.repeated = @ \/ page.seen \cap reader.seen # {},
                        !.at = IF page.next = Nothing THEN "end" ELSE "reading"]

\* A maintenance consumes pending observations in one new revision.
ConsumeObservations ==
    \E batch \in SUBSET {r \in records : r.observation = 0} :
        /\ batch # {}
        /\ revisionCount' = revisionCount + 1
        /\ records' = (records \ batch) \cup
                      {[r EXCEPT !.observation = revisionCount + 1] : r \in batch}
        /\ StillDue

-----------------------------------------------------------------------------
Complete == reader.at = "end" => reader.due \subseteq reader.seen \cup reader.logged /\ ~reader.repeated

\* A client that follows the cursors of the run list or of the revision list
\* to the end has met, once, every row that was in it all the while, although
\* runs are added and change their status between the pages and a page may
\* hold fewer rows than were fetched for it.  A corrupt run, and no other, is
\* passed over, and is then in the log under every filter that is not about
\* its publication (review-run-queries.ts listRunRows and listRunsPage,
\* read-route-handlers.ts listRuns, catalog-queries.ts listMemoryTreeRevisions).
ReadsAreComplete ==
    reader.list \in {"runs", "revisions"} =>
        /\ Complete
        /\ reader.list = "runs" => reader.logged \subseteq Corrupt /\ reader.seen \cap Corrupt = {}
        /\ reader.list = "runs" /\ reader.at = "end" => reader.due \cap Corrupt \subseteq reader.logged

\* The catalog's README, line 30: the cursors of the extraction and the
\* observation list keep records stable across pages.
CatalogPagesAreComplete ==
    reader.list \in {"extractions", "observations"} => Complete
=============================================================================
