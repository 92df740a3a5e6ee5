SPECIFICATION IntakeSpec
CONSTANTS
    Null = Null
    Undefined = Undefined
    Unsent = Unsent
    AppSlug = "app"
    AppBotLogin = "app[bot]"
    Keys = {k1}
    Copies = {1, 2}
    Scenarios <- MCScenarios
    Days <- MCDays
    Today = 10
    Trunk <- MCTrunk
    Change <- MCChange
    Timeline <- MCTimeline
    Repository = "o/r"
    PullRequests = {4, 5}
    PageSize = 2
    MaxCommits = 3
    MaxPushes = 2
    MaxAttempts = 2
    MaxCrashes = 1
INVARIANTS
    WorkspaceIsTheReviewedHead
CHECK_DEADLOCK FALSE
