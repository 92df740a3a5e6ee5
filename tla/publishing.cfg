SPECIFICATION PublishingSpec
CONSTANTS
    Null = Null
    MaxPreview = 32
    Publishers = {p1, p2}
    Records <- MCRecords
    MaxDraftAttempts = 2
    MaxPeople = 2
    Patches <- MCPatches
    MaxReviewAttempts = 2
    MaxListed = 1
    NoCode = NoCode
    MaxBody = 1
    Contexts <- MCContexts
    splitRepoFullName <- MCSplit
    lowerCase <- MCLower
    Paths <- MCPaths
    NoPath = NoPath
    Reports <- MCReports
    Requests <- MCRequests
    Size <- MCSize
    PromptTokens = 1
    TargetTokens = 4
    HardLimitTokens = 5
    MaxConcurrency = 2
    MaxDeleted = 2
    MaxLost = 1
    MaxBatchSize = 1
    MaxPasses = 2
    CreatePayloads <- MCCreatePayloads
    UpdatePayloads <- MCUpdatePayloads
    Same = Same
    MaxBatch = 2
    MaxEdits = 2
INVARIANTS
    CallsAreUnderstood
    DraftCarriesResult
    SurfacesCarryTheRecord
    OneHonestReview
    SuggestionsAreThePatch
    NothingIsLost
CHECK_DEADLOCK FALSE
