SPECIFICATION FairSpec
CONSTANTS
    ComponentOrder <- ThreeSorted
    BridgeOrder <- ThreeBridges
    Requests <- ThreeRequests
    Payloads <- ChangingPayloads
    Answers <- AnswersAndFailures
    NoReceipt = NoReceipt
    NoResponse = NoResponse
    MaxChanges = 2
CHECK_DEADLOCK FALSE
INVARIANTS
    OneContext
    SinkHasNoSay
PROPERTIES
    KeepsFailClosed
    EveryRequestEnds
