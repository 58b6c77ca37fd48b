SPECIFICATION Spec
CONSTANTS
    ComponentOrder <- ThreeSorted
    BridgeOrder <- ThreeBridges
    Requests <- PaddedRequest
    Payloads <- SomePayloads
    Answers <- AnswersAndFailures
    NoReceipt = NoReceipt
    NoResponse = NoResponse
    MaxChanges = 0
CHECK_DEADLOCK FALSE
INVARIANTS
    OneRequest
