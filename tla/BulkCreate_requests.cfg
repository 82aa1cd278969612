SPECIFICATION MCSpec
CONSTANTS
    b1 = b1  c1 = c1  c2 = c2  p1 = p1
    own = own  free = free  amazon = amazon  google = google  azure = azure
    Auths = {a1, t1, c1, c2}
    Secrets = {t1}
    Stored = {a1}
    Passwords = {p1, p2}
    Given <- MCGiven
    Clients = {b1, r1, r2}
    Bulks = {b1}
    AuthsOf <- MCAuthsOf
    Single = {a1, t1, c1}
    Conns = 2
    Nil = Nil
    MayFail = TRUE
    Bodies <- MCBodies
    Existing <- MCExisting
    Taken = {"N"}
    OwnedTypes = {own}
    Compatible <- MCCompatible
    Override <- MCOverride
    Within <- MCWithin
INVARIANTS
    SecretsInv AssemblyInv
PROPERTY
    EveryRequestAnswered
