SPECIFICATION Spec
CONSTANTS
    Omitted = Omitted
    Batch <- MCBatch
    Query <- MCQuery
    Exchanges <- MCExchanges
    Window = 5
INVARIANT PerformanceIsNoted
CHECK_DEADLOCK FALSE
