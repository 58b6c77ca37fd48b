SPECIFICATION Spec
CONSTANTS
    ComponentOrder <- FiveSorted
    BridgeOrder <- FiveBridges
    Requests <- SomeRequests
    Payloads <- SomePayloads
    Answers <- SomeAnswers
    NoReceipt = NoReceipt
    NoResponse = NoResponse
    MaxChanges = 0
CHECK_DEADLOCK FALSE
INVARIANTS
    TypeOK
    AllowIsUnanimous
    TraceTellsReceipt
    ReceiptsValidate
