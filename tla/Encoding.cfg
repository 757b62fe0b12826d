SPECIFICATION EncodingSpec
CONSTANTS
    Texts <- SmallTexts
    DeviceTexts <- DeviceRows
    TitleMax = 16  TitleColumn = 16  DetailMax = 19
    NoText = NoText
INVARIANTS TextTypeOK ReadsAsSent ReadBackSettles ReadTitleIsFound RefusedOnlyForEmoji
CHECK_DEADLOCK FALSE
