CONSTANTS
    r1 = r1 r2 = r2 r3 = r3 e1 = e1 e2 = e2 t1 = t1 t2 = t2
    none = none torn = torn unposted = unposted
    Ranks = {r1, r2, r3}
    Environments = {e1, e2}
    Tables = {t1, t2}
    MaxBoots = 3
    FleetEnvs <- UniformFleet
SPECIFICATION FairSpec
INVARIANTS TypeOK SameCacheOrNone NoTornLoad
PROPERTIES BootEnds CachesLast
CHECK_DEADLOCK FALSE
