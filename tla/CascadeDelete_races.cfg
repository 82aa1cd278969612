SPECIFICATION FairSpec
CONSTANTS
    s1 = s1  s2 = s2  a1 = a1  a2 = a2  aa1 = aa1  e1 = e1  k1 = k1
    ta = ta  te = te  ts = ts
    Sources = {s1, s2}
    Apps = {a1, a2}
    AppAuths = {aa1}
    Endpoints = {e1}
    Conns = {k1}
    Auths = {ta, te, ts}
    SourceOf <- MCSourceOf
    AppOf <- MCAppOf
    AuthOf <- MCAuthOf
    Linked <- MCLinked
    Owner <- MCOwner
    Late = {a2, ts}
    Cascades = {c1, c2}
    MayFail = FALSE
    None = None
INVARIANTS
    AnnouncedAreGone
    CredentialsOutliveNoOne
    NoOrphanRow
    ChildrenAnnouncedFirst
PROPERTIES
    EveryCascadeEnds
    CredentialsEventuallyGone
