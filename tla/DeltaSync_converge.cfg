SPECIFICATION FairSyncSpec
CONSTANTS
    d1 = d1  d2 = d2  w1 = w1
    Ids <- IdsTwo
    Data = {d1, d2}
    Writers = {w1}
    Absent = Absent  NoStamp = NoStamp  NoLimit = NoLimit
    NoCursor = NoCursor  NotSent = NotSent
    MaxClock = 1
    DeviceStamps <- SkewedStamps
    InitialTables <- FullTable
    DefaultLimit = 1  MaxLimit = 2
    LimitParams = {2, NoLimit}
    CursorMaxAge = 0
    Scope = {d1, d2}
    Hidden = {d2}
INVARIANTS NoSilentLoss ReplyAccountsForAll
PROPERTY ReplicaConverges
