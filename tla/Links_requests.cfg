SPECIFICATION Spec
CONSTANTS
    s1 = s1  s2 = s2  e1 = e1  e2 = e2  k1 = k1  k2 = k2  t1 = t1  t2 = t2
    v1 = v1
    SourceIds = {s1, s2}
    EndpointIds = {e1, e2}
    ConnIds = {k1, k2}
    Tenants = {t1, t2}
    Users = {v1}
    Names = {"n1", "n2"}
    Roles = {"r1", "r2"}
    RhcIds = {"x1"}
    Workloads <- MCWorkloads
    Requests = {q1, q2}
    Nil = Nil
SYMMETRY Symmetry
INVARIANTS
    LinksInv
    UniqueUnlessRaced
    NoConnectionAdrift
PROPERTY
    OnlyPartnersUnlink
