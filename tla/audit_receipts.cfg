SPECIFICATION Spec
CONSTANTS
    Calls = {c1}
    Receipts <- AllReceipts
    Arguments <- AllArguments
    NoReceipt = NoReceipt
    ComponentOrder <- AllComponents
    Orchestrator = "shield_orchestrator"
    Roles <- AllRoles
    Algorithms <- PolicyAlgorithms
    RequiredAlgorithms <- PolicyRequired
    PqcAlgorithms <- PostQuantum
    MaxRegistryEntries = 64
    MaxVerificationCalls = 18
    MaxPqcVerificationCalls = 12
    MaxAuditRecords = 24
    MaxMutations = 0
    Interruptions <- WholeCopies
CHECK_DEADLOCK FALSE
INVARIANTS
    TypeOK
    BackendsSeeOnlySoundReceipts
    AcceptedMeansVerified
    CheapestFirst
    BatchTellsTheCall
    OnlyBackendsRejectLate
    DecidesAsOne
