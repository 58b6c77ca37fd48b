SPECIFICATION Spec
CONSTANTS
    Calls = {c1}
    Receipts <- FewReceipts
    Arguments <- OneTrust
    NoReceipt = NoReceipt
    ComponentOrder <- OneComponent
    Orchestrator = "shield_orchestrator"
    Roles <- TwoRoles
    Algorithms <- PolicyAlgorithms
    RequiredAlgorithms <- PolicyRequired
    PqcAlgorithms <- PostQuantum
    MaxRegistryEntries = 64
    MaxVerificationCalls = 18
    MaxPqcVerificationCalls = 12
    MaxAuditRecords = 24
    MaxMutations = 0
    Interruptions <- WholeCopies
CHECK_DEADLOCK FALSE
INVARIANTS
    FailuresReachTheSink
