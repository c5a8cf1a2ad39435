SPECIFICATION AdmissionSpec
CONSTANTS
    Path = {"/screener", "/stim", "/plain", "/context", "/catalog", "/docs/x", "/other"}
    V1Path = {"/screener", "/stim", "/plain", "/context", "/catalog", "/docs/x"}
    OpenPath = {"/context", "/catalog", "/docs/x"}
    NonMeteredPath = {"/catalog"}
    PublicPath = {}
    Endpoint = {"/screener", "/plain"}
    Rule = {"screener"}
    Uuid = Uuid
    NoRule = NoRule
    NoPolicy = NoPolicy
    Absent = Absent
    Matches <- MCMatches
    Defaults <- MCDefaults
    Thread = {loop, pool}
    Loop = loop
    Request = {r}
    Callers <- MCCallers
    Nobody = Nobody
    NoConfig = NoConfig
    Payloads <- MCPayloads
    Timeout = 1
    MaxClock = 1
    Faults = {"fetch", "raise", "crash"}
INVARIANTS OneSnapshot EntitledByKey SubscribersUnaffected
