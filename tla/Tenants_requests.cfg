SPECIFICATION FairSpec
CONSTANTS
    a1 = a1  a2 = a2  o1 = o1  o2 = o2  u1 = u1  u2 = u2  u3 = u3
    Accounts = {a1, a2}
    Orgs = {o1, o2}
    Users = {u1, u2, u3}
    MaxTenants = 6
    Nil = Nil
    Empty = Empty
    InitialTables <- MCTables
    Clients = {q1, q2}
    Identities <- MCIdentities
    Senders <- MCSenders
    OrgOf <- MCOrgOf
    Refresh = {TRUE, FALSE}
    BatchSize = 1
    MaxFaults = 1
INVARIANTS
    TenantsInv
    CustomersKeptApart
PROPERTIES
    UserOfItsTenant
    RetriedIsServed
CHECK_DEADLOCK FALSE
