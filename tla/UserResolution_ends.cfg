SPECIFICATION FairResolutionSpec
CONSTANTS
    Threads = {t1, t2}
    Users <- ThreadLevels
    Conns = {c1, c2, c3}
    NoConn = NoConn  Nobody = Nobody
    PoolSize = 2
    Kinds = {"outside", "inside", "ping"}
    Lookups = {TRUE, FALSE}
    DbUp = FALSE
INVARIANTS ResolutionTypeOK SlotAccounting NeverOvershoots ReturnFindsRoom ExclusiveUse ResolvesOnce NothingLeftBehind
PROPERTIES EveryAcquireEnds EveryRequestEnds
CHECK_DEADLOCK FALSE
