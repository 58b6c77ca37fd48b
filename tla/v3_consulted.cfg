SPECIFICATION Spec
CONSTANTS
    ComponentOrder <- ThreeSorted
    BridgeOrder <- ThreeBridges
    Requests <- OneRequestOnly
    Payloads <- OnePayload
    Answers <- MalformedAnswers
    NoReceipt = NoReceipt
    NoResponse = NoResponse
    MaxChanges = 0
CHECK_DEADLOCK FALSE
INVARIANTS
    TraceTellsConsulted
