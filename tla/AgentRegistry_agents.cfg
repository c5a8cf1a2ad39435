SPECIFICATION Spec
CONSTANTS
    Ann = Ann
    Bob = Bob
    bot = bot
    acme = acme
    old = old
    None = None
    External = External
    Call = {c1, c2, c3}
    Customer = {Ann, Bob}
    Header = {bot, acme}
    Earlier = {old}
    Requests <- MCRequests
    Registered <- MCRegistered
    Limit = 1
    MaxFailures = 1
INVARIANTS
    DisabledIsRefused
    AttributedToItsAgent
    AnsweredSinceItsUpdate
PROPERTIES
    StatusByItsCustomer
SYMMETRY Calls
CHECK_DEADLOCK FALSE
