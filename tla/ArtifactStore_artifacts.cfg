SPECIFICATION FairSpec
CONSTANTS
    Request = {r1, r2}
    Nobody = Nobody
    Name = {"a", "b"}
    Content <- MCContent
    Manifests <- MCManifests
    Exports <- MCExports
    Targets <- MCTargets
    Torn = Torn
    Missing = Missing
    Unsafe = Unsafe
    Latest = Latest
    NoAnswer = NoAnswer
    Unavailable = Unavailable
    Absent = Absent
    NoSnapshot = NoSnapshot
    Orderly = TRUE
    MaxEdits = 1
    MaxClock = 1
INVARIANT ReturnedWasPublished
PROPERTIES QuietStoreIsRead NeverExpired PaidIsServed LockComesFree
CHECK_DEADLOCK FALSE
