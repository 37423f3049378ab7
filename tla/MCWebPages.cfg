SPECIFICATION PanelsSpec
CONSTANTS
    severity = severity odd = odd NoFilter = NoFilter NoColumn = NoColumn
    MaxItems = 5 Buffer = 4 Count = 2 Step = 1
    Columns = {severity}
    Cell <- MCCell
    Name <- MCOneName
    Matches <- MCMatches
    Hidden = {2}
    MaxStored = 3 DataTimeout = 2 BehindTime = 2 ErrorLimit = 2
    MaxStoreTime <- MCStoreTime
    Dictionaries <- AllDictionaries
    MaxRequests = 2 MaxEdits = 3
    UploadPages = {p1, p2} Files = {f1, f2} Folders = {d1, d2} NoFile = NoFile
    Texts = {"good", "bad"}
    ErrorLine <- MCErrorLine
    LineCount <- MCLineCount
    SeqNames = {"a.seq", "b.seq", "c"} GoodNames = {"a.seq", "b.seq"} SeqFolders = {"/seq"}
    MaxVersions = 2
    Logs = {"a", "b"} MaxLogLength = 2 MaxAsked = 2
    RunLength = 2 MaxSafe = 90 MaxText = 4
    Words = {"a", "b", "c"} MaxWords = 5 MaxChars = 7
    RowChannels = {1, 2} RowValues = {1, 2, 3} RowBounds = {NoBound, 2} NoBound = NoBound
    NoValue = NoValue WindowSize = 2 MaxDelay = 2 MaxReadings = 4
    Commands <- MCCommands
    CommandWords = {"SET", "NO_OP", "HUH"} MaxTokens = 5
    ChartChannels = {"p", "q"} NoChannel = NoChannel
    Windows = {"w0", "w1"} DefaultWindow = "w0" Older <- MCOlder
    MaxWrappers = 2 MaxBuilt = 2 MaxSamples = 2 MaxFailures = 1
    MaxNow = 3 MaxPoints = 2 MaxZooms = 2 Ttl = 1 MaxSpan = 8 InitialDuration = 4 RefreshEvery = 2
    TickSizes <- MCSizes
    TickSteps <- MCSteps
    TickCommon <- MCCommon
    TickRanges <- MCRanges
    TickCapacities = {1, 2, 5, 9}
    PanSteps <- MCPanSteps
    AlignWindows <- MCAlignWindows
    Lateness = 1
    Wide = 1000 Narrow = 12 MinRange = 4
    DataStarts = {0, 2} DataSpan = 8
    MaxGestures = 4 Far = 99
INVARIANTS
    SequenceAsShown
    NumbersKept
    RowsShown
    ChartsShown
PROPERTIES
    TableShown
    TypedAsMeant
    StoresCurrent
    UploadedAsChosen
    OwnLogShown
    AxisFollows
    GesturesSafe
CHECK_DEADLOCK FALSE
