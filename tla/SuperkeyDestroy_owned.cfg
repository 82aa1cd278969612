SPECIFICATION FairSpec
CONSTANTS
    s1 = s1  a1 = a1  a2 = a2
    Sources = {s1}
    Apps = {a1, a2}
    SourceOf <- MCSourceOf
    UserOwned = {a1}
    Absent = {}
    Incomplete = {}
    Requestable = {a1}
    Workers = {w1, w2}
    MaxRequests = 1
    ListLimit = 2
    Prompt = TRUE
    MayFail = FALSE
PROPERTY AcceptedCompletes
