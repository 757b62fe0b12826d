SPECIFICATION ListSpec
CONSTANTS
    x = x  y = y
    Ids <- TwoLists
    Data = {x, y}
    Writers = {w1, w2}
    Requests <- ListRequests
    Absent = Absent  NoStamp = NoStamp  NoVersion = NoVersion  NoRequest = NoRequest
    MaxClock = 1
    DeviceStamps <- LaggingStamps
    InitialTables <- EmptyOrOne
INVARIANTS ListTypeOK ListAnswersAreReal
PROPERTIES ListNoLostUpdate ListsAreStamped
SYMMETRY WorkerSymmetry
