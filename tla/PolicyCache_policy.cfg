SPECIFICATION FairSpec
CONSTANTS
    Path = {"/screener", "/regime", "/stim", "/new"}
    Endpoint = {"/screener", "/regime", "/new"}
    PublicPath = {}
    Rule = {"screener", "regime", "cheap"}
    Uuid = Uuid
    NoRule = NoRule
    NoPolicy = NoPolicy
    Absent = Absent
    Matches <- MCMatches
    Defaults <- MCDefaults
    Thread = {loop, pool}
    Nobody = Nobody
    NoConfig = NoConfig
    Payloads <- MCPayloads
    Timeout = 1
    MaxClock = 5
    Faults = {"fetch", "raise", "crash"}
INVARIANT ReturnsPriced
PROPERTIES LockReleased LatestAnswerServed RefreshesInTime
