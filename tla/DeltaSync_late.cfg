SPECIFICATION SyncSpec
CONSTANTS
    d1 = d1  d2 = d2  w1 = w1
    Ids <- IdsTwo
    Data = {d1}
    Writers = {w1}
    Absent = Absent  NoStamp = NoStamp  NoLimit = NoLimit
    NoCursor = NoCursor  NotSent = NotSent
    MaxClock = 3
    DeviceStamps <- NoStamps
    InitialTables <- FullTable
    DefaultLimit = 3  MaxLimit = 3
    LimitParams = {NoLimit}
    CursorMaxAge = 0
    Scope = {d1}
    Hidden = {}
INVARIANT NoLateChange
