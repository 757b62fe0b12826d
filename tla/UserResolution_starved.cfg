SPECIFICATION BusyResolutionSpec
CONSTANTS
    Threads = {t1, t2}
    Users <- ThreadLevels
    Conns = {c1, c2, c3}
    NoConn = NoConn  Nobody = Nobody
    PoolSize = 2
    Kinds = {"inside"}
    Lookups = {TRUE}
    DbUp = TRUE
PROPERTY EventuallyResolved
