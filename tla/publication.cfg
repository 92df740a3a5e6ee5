SPECIFICATION PublicationSpec
CONSTANTS
    Tokens = {t1, t2, t3}
    NoToken = NoToken
    Bundles = {b1}
    NoBundle = NoBundle
    Steps = {d1, c1}
    Deliveries = {d1}
    MaxPreparation = 1
    MaxRecovery = 1
    MaxStep = 2
    MaxStepRecovery = 1
    RecoveryCap = 1
    Publishers = {p1, p2}
SYMMETRY Symmetry
INVARIANTS
    PublishedIsDelivered
    OwnersActOnce
PROPERTIES
    OwnerPerformsItsOwnStep
    SummaryFollowsDeliveries
CHECK_DEADLOCK FALSE
