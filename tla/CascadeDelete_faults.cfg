SPECIFICATION Spec
CONSTANTS
    s1 = s1  s2 = s2  a1 = a1  a2 = a2  aa1 = aa1  e1 = e1  k1 = k1
    ta = ta  te = te  ts = ts
    Sources = {s1}
    Apps = {a1, a2}
    AppAuths = {aa1}
    Endpoints = {}
    Conns = {}
    Auths = {ta}
    SourceOf <- MCSourceOf
    AppOf <- MCAppOf
    AuthOf <- MCAuthOf
    Linked <- MCLinked
    Owner <- MCOwner
    Late = {a2}
    Cascades = {c1, c2}
    MayFail = TRUE
    None = None
INVARIANTS
    CascadeInv
    NoSilentRemoval
PROPERTY ImplementsContract
