SPECIFICATION LibrarySpec
CONSTANTS
    a = a
    b = b
    c = c
    d = d
    e = e
    NoTask = NoTask
    Tasks <- MCTasks
    Loaded <- MCLoaded
    Owned <- MCTasks
    Returns <- MCReturns
    TimerIds <- MCTimerIds
    NoId = NoId
    MaxListed = 3
    CountLimit = 6
    Words <- MCWords
    Verbs = {"GET", "BREW"}
    Paths <- MCPaths
    Params <- MCParams
    Headers <- MCHeaders
    MaxParams = 3
    MaxHeaders = 1
    Noise <- MCJunk
    Literals = {"1", "k"}
    Strings = {"k", "l"}
    Number = "1"
    MaxTokens = 10
    MaxParses = 2
    Finals <- MCFinals
    CSIParams <- MCCSIParams
    Packets <- AllKeys
    MaxLine = 3
INVARIANTS
    ListIsSlots
    ShellsNeverAssert
    OpenConnectionHasShell
    RequestIsServed
    ReadsWhatIsWritten
    EchoShowsLine
    LineIsSentOnce
PROPERTIES
    EditsKeptKeys
CHECK_DEADLOCK FALSE
