SPECIFICATION TrailSpec
CONSTANTS
    Null = Null
    Refused = Refused
    Nothing = Nothing
    x1 = x1
    x2 = x2
    m1 = m1
    m2 = m2
    e1 = e1
    c1 = c1
    c2 = c2
    r1 = r1
    Extractions = {x1, x2}
    Maintenances = {m1, m2}
    Edits = {e1}
    Controls = {c1, c2}
    Restores = {r1}
    Attempts = {1, 2}
    Batch = 2
    MaxLost = 1
    Markdown <- MCMarkdown
    Odd <- MCOdd
    Cut <- MCCut
    LongPaths <- MCLongPaths
    HugePaths <- MCHugePaths
    ByteOrder <- MCByteOrder
    MaxEntries = 8
    MaxFileBytes = 2
    MaxExtractedBytes = 5
    MaxPaxHeaderBytes = 1
    MaxBlocks = 6
    Ids = {1, 2, 3}
    Times = {0, 1, 2}
    Millisecond = 2
    RunShapes <- MCRunShapes
    Workflows = {"w1", "w2"}
    Limit = 1
    MaxRows = 3
    MaxRevisions = 2
    None = None
    Browsers = {b1, b2, b3}
    MaximumSessions = 2
    SessionTtl = 1
    MaxClock = 1
    Targets <- MCTargets
    Replies <- MCReplies
    Holdings <- MCHoldings
    MaximumSize <- MCMaximumSize
    Jsonl = {"u.jsonl", "gone.jsonl"}
    Requests <- MCRequests
    DeclaredQuery = {"status"}
    MaxBody = 1
    Bundles <- MCBundles
    MaxBundleEntries = 7
    MaxBundleBytes = 12
    MaxPreviewFile = 2
    MaxPreviewText = 4
    Absent = Absent
    Names = {"status", "workflow"}
    Values = {"v"}
    First = "first"
    Cursors = {"c1", "c2"}
    Follow <- MCFollow
    RunIds = {"r1", "r2"}
    Resources = {"tree", "overview"}
    Keys = {1, 2}
    DefaultKey = 1
    Texts = {"a", "b"}
    MaxAttempts = 2
    MaxGenerations = 2
    MaxRevision = 2
    MaxOperations = 2
INVARIANT TrailLeadsBack
CHECK_DEADLOCK FALSE
