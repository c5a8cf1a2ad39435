SPECIFICATION FairSpec
CONSTANTS
    Request = {r1, r2}
    RequestId = {i1}
    Auth = {a1}
    Encoding = {e1}
    Worker = {w1, w2}
    Nobody = Nobody
    InitFleets <- LegacyFleet
    Rollout = TRUE
    Faults = {}
INVARIANT ModesNeverRace
PROPERTIES
    RequestsEnd
    ClaimResolves
