SPECIFICATION ListSyncSpec
CONSTANTS
    d1 = d1  d2 = d2  w1 = w1
    Ids <- IdsThree
    Data = {d1}
    Rank <- TitleRank
    Writers = {w1}
    Absent = Absent  NoStamp = NoStamp  NoLimit = NoLimit
    NoCursor = NoCursor  NotSent = NotSent
    MaxClock = 2
    DeviceStamps <- NoStamps
    InitialTables <- SomeLists
    DefaultLimit = 2  MaxLimit = 2
    LimitParams = {1, NoLimit}
    CursorMaxAge = 1
    Scope = {d1}
    Hidden = {}
INVARIANTS SyncTypeOK ReplyAccountsForAll NoSilentLoss PagingNeverStalls
