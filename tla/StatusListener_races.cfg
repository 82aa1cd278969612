SPECIFICATION FairSpec
CONSTANTS
    s1 = s1  s2 = s2  a1 = a1  a2 = a2  t1 = t1
    Sources = {s1, s2}
    Apps = {a1, a2}
    Endpoints = {}
    Auths = {t1}
    SourceOf <- MCSourceOf
    UserOwned = {s2}
    Statuses = {"in_progress", "available", "unavailable"}
    Initial = "in_progress"
    Messages = {m1, m2}
    Reports <- MCReports
    Nil = Nil
    MayFail = TRUE
INVARIANT ListenerInv
PROPERTY
    StatusAnnounced
CHECK_DEADLOCK FALSE
