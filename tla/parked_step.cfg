SPECIFICATION PublicationSpec
CONSTANTS
    Tokens = {t1, t2, t3, t4}
    NoToken = NoToken
    Bundles = {b1}
    NoBundle = NoBundle
    Steps = {d1, c1}
    Deliveries = {d1}
    MaxPreparation = 1
    MaxRecovery = 1
    MaxStep = 2
    MaxStepRecovery = 2
    RecoveryCap = 1
    Publishers = {p1}
INVARIANTS
    ParkedStepParksPublication
CHECK_DEADLOCK FALSE
