SPECIFICATION Spec
CONSTANTS
    Request = {r1, r2}
    RequestId = {i1}
    Auth = {a1}
    Encoding = {e1}
    Worker = {w1}
    Nobody = Nobody
    InitFleets <- ClaimingFleet
    Rollout = FALSE
    Faults = {}
PROPERTY UncertainStaysPending
