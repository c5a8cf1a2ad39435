SPECIFICATION FairSpec
CONSTANTS
    None = None
    All = All
    Run = {r1, r2}
    Window = 1
    Loads <- MCLoads
    Arguments <- MCArguments
    Requests <- MCRequests
INVARIANTS
    RowsAreOfOneView
    RefreshedIsServed
    AnswersAgree
PROPERTIES
    RunEnds
CHECK_DEADLOCK FALSE
