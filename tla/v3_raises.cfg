SPECIFICATION Spec
CONSTANTS
    ComponentOrder <- ThreeSorted
    BridgeOrder <- ThreeBridges
    Requests <- SomeRequests
    Payloads <- SomePayloads
    Answers <- AnswersAndFailures
    NoReceipt = NoReceipt
    NoResponse = NoResponse
    MaxChanges = 0
CHECK_DEADLOCK FALSE
INVARIANTS
    NeverRaises
