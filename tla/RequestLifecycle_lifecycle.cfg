SPECIFICATION FairSpec
CONSTANTS
    Request = {r1}
    Ref = {p1}
    NoRef = NoRef
    Profiles <- Everything
    Envs <- AllEnvs
    Faults = {"db", "crash", "raise", "cancel", "rail"}
INVARIANTS
    NoUnpaidDelivery
    ChargesAreEarned
    BooksAgree
PROPERTIES
    ImplementsDelivery
    AuthorizationResolved
