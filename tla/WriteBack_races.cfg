SPECIFICATION MCSpec
CONSTANTS
    s1 = s1  s2 = s2  a1 = a1  a11 = a11  n1 = n1  n2 = n2  t1 = t1
    u1 = u1  u2 = u2  u3 = u3
    Nil = Nil
    Sources = {s1, s2}
    Apps = {a1, a11}
    SourceOf <- MCSourceOf
    Absent = {s2, a11}
    Values <- MCValues
    Pings <- MCPings
    InitialRow <- MCRows
    Operations <- MCAllOps
    Clients = {r1, r2, r3}
    Longer <- MCLonger
    Uids = {u1, u2, u3}
    Names = {n1, n2}
    Statuses = {"v1"}
    Errors = {"e1"}
    First <- MCFirst
    Workloads <- MCWorkloads
    Requests = {q1, q2}
    MayFail = TRUE
INVARIANTS
    EditInv
    VaultInv
PROPERTIES
    PauseSticks
    OnlyItsOwn
