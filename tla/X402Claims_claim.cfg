SPECIFICATION Spec
CONSTANTS
    Request = {r1, r2, r3}
    RequestId = {i1, i2}
    Auth = {a1}
    Encoding = {e1, e2}
    Worker = {w1}
    Nobody = Nobody
    InitFleets <- ClaimingFleet
    Rollout = FALSE
    Faults = {"db", "crash"}
SYMMETRY Symmetry
INVARIANTS
    TypeOK
    SettlesOnlyOwnClaim
    ExecutedIsPaid
    RecordsMatchFunds
PROPERTY ImplementsLedger
