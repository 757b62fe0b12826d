SPECIFICATION FairSyncSpec
CONSTANTS
    d1 = d1  d2 = d2  w1 = w1
    Ids <- IdsTwo
    Data = {d1}
    Writers = {w1}
    Absent = Absent  NoStamp = NoStamp  NoLimit = NoLimit
    NoCursor = NoCursor  NotSent = NotSent
    MaxClock = 2
    DeviceStamps <- NoStamps
    InitialTables <- FullTable
    DefaultLimit = 1  MaxLimit = 1
    LimitParams = {NoLimit}
    CursorMaxAge = 1
    Scope = {d1}
    Hidden = {}
PROPERTY ReplicaConverges
