SPECIFICATION ListSyncSpec
CONSTANTS
    d1 = d1  d2 = d2  w1 = w1
    Ids <- IdsTwo
    Data = {d1, d2}
    Rank <- TitleRank
    Writers = {}
    Absent = Absent  NoStamp = NoStamp  NoLimit = NoLimit
    NoCursor = NoCursor  NotSent = NotSent
    MaxClock = 2
    DeviceStamps <- NoStamps
    InitialTables <- LastTitleFirst
    DefaultLimit = 1  MaxLimit = 2
    LimitParams = {NoLimit}
    CursorMaxAge = 0
    Scope = {d1, d2}
    Hidden = {}
INVARIANT FullReadStartsSync
