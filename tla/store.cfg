SPECIFICATION RowsSpec
CONSTANTS
    Tokens = {t1, t2, t3}
    NoToken = NoToken
    Bundles = {b1, b2}
    NoBundle = NoBundle
    Steps = {s1, s2}
    MaxPreparation = 2
    MaxRecovery = 1
    MaxStep = 2
    MaxStepRecovery = 1
    RecoveryCap = 2
    OtherTokens = {t4, t5}
    OtherBundles = {b3}
    OtherSteps = {}
SYMMETRY Symmetry
INVARIANTS
    AxesAgree
    ClaimsMatchStatus
    SelectedIsInput
    EndingsAreTold
    LogMatchesRows
    ParkedRunsAreHandedBack
PROPERTIES
    InputIsFrozen
    DecidedIsFinal
    LiveClaimIsExclusive
    FollowsLifecycle
CHECK_DEADLOCK FALSE
