SPECIFICATION ListSpec
CONSTANTS
    x = x  y = y
    Ids <- TwoLists
    Data = {x, y}
    Writers = {w1, w2}
    Requests <- TwinRequests
    Absent = Absent  NoStamp = NoStamp  NoVersion = NoVersion  NoRequest = NoRequest
    MaxClock = 1
    DeviceStamps <- NoStamps
    InitialTables <- EmptyTable
PROPERTY NoTwins
