SPECIFICATION FairSpec
CONSTANTS
    s1 = s1  a1 = a1  a2 = a2
    Sources = {s1}
    Apps = {a1, a2}
    SourceOf <- MCSourceOf
    UserOwned = {}
    Absent = {a2}
    Incomplete = {}
    Requestable = {s1, a1}
    Workers = {w1, w2}
    MaxRequests = 2
    ListLimit = 2
    Prompt = TRUE
    MayFail = TRUE
INVARIANTS
    SuperkeyInv
    NothingLeaks
PROPERTIES
    AcceptedCompletes
    AcceptedTearsDown
