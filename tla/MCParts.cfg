CONSTANTS
    MaxData = 2
    MaxShared = 2
    QueryText <- MCQueryText
    Columns <- MCColumns
    MaxTable = 2
    Texts <- MCTexts
    Contents <- MCContents
    MaxFields = 2
    MaxPost = 25
    Word = {0, 65535}
    LowWord = {0, 1, 32512, 65380}
    Ids <- MCIds
    KeepAlive = 1
    CleanupFrequency = 2
    MaxTime = 6
    Piece <- MCPiece
    MaxLength = 5
    ArgumentList <- MCArgumentList
    UriPiece <- MCUriPiece
    MaxPieces = 5
    Color <- MCColor
    Config <- MCConfig
    Row <- MCRow
    MaxEntries = 2
SPECIFICATION PartsSpec
INVARIANTS DataOwned StoppedOnlyByCaller RowsComeBack FieldsComeBack AddressesComeBack SessionsKept YieldsAsWritten AnswersWhole
\* every part comes to an end within its bounds
CHECK_DEADLOCK FALSE
