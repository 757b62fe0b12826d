SPECIFICATION StoreSpec
CONSTANTS
    x = x  l1 = l1
    Tasks <- OneTask
    Workers = {w1, w2}
    Lists = {l1}
    Texts = {x}
    Requests <- StoreRequests
    Inbox = Inbox  Null = Null
    Absent = Absent  NoStamp = NoStamp  NoVersion = NoVersion  NoRequest = NoRequest
    MaxClock = 2
    MaxSort = 0
    DeviceStamps <- SkewedStamps
    DeviceData <- DeviceTask
    InitialTables <- EmptyTable
INVARIANTS StoreTypeOK ConflictIsReal NotFoundIsReal
PROPERTIES NoLostUpdate ImplementsStampedTable
SYMMETRY WorkerSymmetry
