SPECIFICATION Spec
CONSTANTS
    Omitted = Omitted
    Batch <- MCBatch
    Query <- MCQuery
    Exchanges <- MCExchanges
    Window = 5
INVARIANTS
    PaidIsNotRefused
    LatestIsCoherent
    HistoryIsWhole
    DerivedIsExact
    JudgementsAreOfTheirWeeks
    PortfoliosAreFair
    OnlyThePastIsTold
CHECK_DEADLOCK FALSE
