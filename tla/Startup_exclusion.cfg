SPECIFICATION SpecStartup
CONSTANTS
    Instances = {i1, i2}
    Servers = {i1}
    Uuids = {u1, u2, u3}
    N = 2
    Repeatable = {2}
    Types = {t0, t1}
    Seeds = {t1}
    NoUuid = NoUuid
    MayFail = FALSE
INVARIANT OneMigrator
CHECK_DEADLOCK FALSE
