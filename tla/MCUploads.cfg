SPECIFICATION UploadsSpec
CONSTANTS
    a = a
    b = b
    x = x
    page = page
    free = free
    Names <- MCNames
    Paths <- MCPaths
    Handles <- MCHandles
    Modes <- MCModes
    Data <- MCData
    Zero = Zero
    Offsets <- MCOffsets
    Whences <- MCWhences
    MaxSize = 2
    MaxEntries = 2
    Destination <- MCDestination
    Sources <- MCSources
    Uploader = page
INVARIANTS
    OpenFilesHaveEntries
PROPERTIES
    KeepsTable
    UploadedIsStored
