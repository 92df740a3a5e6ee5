SPECIFICATION FollowUpsSpec
CONSTANTS
    Null = Null
    Notices = {n1, n2}
    Workers = {w1, w2}
    Inputs <- MCInputs
    MaxFaults = 1
    MaxOvertakes = 1
    MaxTokens = 4
    Absent = Absent
    Executions = {e1}
    Readers = {r1, r2}
    Exports <- MCExports
    ReviewAgents = {"analyzer", "verifier"}
    MaxFailures = 2
    MaxInstants = 2
    MaxLost = 1
    Replicas = {p1, p2}
    Releases <- MCReleases
    Services = {"review_runs", "memory_catalog"}
    Events = {v1, v2}
    MaxStartFaults = 1
INVARIANTS ToldOnce StatisticsAreSound ProcessesAreSound
PROPERTIES FollowUpsConclude
CHECK_DEADLOCK FALSE
