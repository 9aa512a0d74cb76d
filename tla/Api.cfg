SPECIFICATION StartSpec
CONSTANTS
    Request = {r1, r2}
    Check = {k1, k2}
    MaxConnections = 1
    MaxUses = 2
    Top = 2
    Unset = Unset
    Invalid = Invalid
    ProcessEnvironment <- AllEnvironments
    File <- Files
    NoConfiguration = NoConfiguration
    Refused = Refused
    InUse = InUse
INVARIANTS
    ApiInv
    NoRequestCutOff
    EndsWithPoolClosed
PROPERTIES
    StartsAsConfigured
    ShutdownEndsFairly
    ReadinessAnswers
CHECK_DEADLOCK FALSE
