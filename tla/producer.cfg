SPECIFICATION Spec
CONSTANTS
    Statements <- SomeStatements
    Orders <- SomeOrders
    Registries <- RotatingRegistries
    TestKey <- FirstKey
    Altered <- OtherBundles
    Forwarded <- OtherReceipts
    Start = 4
    End = 5
    MaxIssued = 3
    MaxReceiptBytes = 4
    MaxChanges = 1
    ComponentOrder <- TwoComponents
    Orchestrator = "shield_orchestrator"
    Roles <- TwoRoles
    Algorithms <- PolicyAlgorithms
    RequiredAlgorithms <- PolicyRequired
    PqcAlgorithms <- PostQuantum
    MaxRegistryEntries = 64
    MaxVerificationCalls = 18
    MaxPqcVerificationCalls = 12
CHECK_DEADLOCK FALSE
INVARIANTS
    TypeOK
    AllowedByAll
    RevokedKeysReleaseNothing
    AcceptedIsGenuine
    ReleasedIsAccepted
