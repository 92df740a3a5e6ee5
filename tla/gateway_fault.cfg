SPECIFICATION HandingSpec
CONSTANTS
    Tokens = {t1, t2, t3, t4}
    NoToken = NoToken
    Bundles = {b1, b2}
    NoBundle = NoBundle
    Steps = {}
    MaxPreparation = 2
    MaxRecovery = 1
    MaxStep = 1
    MaxStepRecovery = 1
    RecoveryCap = 1
    Connectors = {p1, p2}
    Handlers = {h1, h2}
    Coordinators = {r1}
    Invalid = {b2}
    Runs <- MCRuns
    Prepared <- MCPrepared
    Responses <- MCResponses
    None = None
    MaxRetries = 1
    StatusQueryLimit = 1
    MaxSubmissions = 2
    Preparers = {a1, a2}
    Contents = {1, 2, 3}
    NoFile = NoFile
    Oversized = {3}
SYMMETRY Symmetry
INVARIANT OnlyDefiniteFailuresFail
CHECK_DEADLOCK FALSE
