SPECIFICATION Spec
CONSTANTS
    Calls = {c1}
    Receipts <- BudgetedReceipts
    Arguments <- TwoKeysTrust
    NoReceipt = NoReceipt
    ComponentOrder <- TwoComponents
    Orchestrator = "shield_orchestrator"
    Roles <- ThreeRoles
    Algorithms <- PolicyAlgorithms
    RequiredAlgorithms <- PolicyRequired
    PqcAlgorithms <- PostQuantum
    MaxRegistryEntries = 64
    MaxVerificationCalls = 9
    MaxPqcVerificationCalls = 4
    MaxAuditRecords = 24
    MaxMutations = 2
    Interruptions <- Cuts
CHECK_DEADLOCK FALSE
INVARIANTS
    NeverAMixture
    PlannedWorkFits
