SPECIFICATION SessionsSpec
CONSTANTS
    Sessions = {s1, s2}
    Windows = {w1, w2}
    Keys = {k1}
    None = None
    Jobs = {1, 2}
    Stride = 1
    NotThere = NotThere
    Nothing = Nothing
    MaxEntries = 2
    MaxQueue = 2
    FetchTrees <- SmallFetches
    SendTrees <- SmallUploads
    CopiedLists <- SmallCopies
    MaxSize = 2
    MaxCopies = 2
    Limits <- SmallLimits
    MaxLen = 2
    Sizes = {1, 2, 3}
    MaxFrames = 2
INVARIANTS
    TypesOK CoverCanBeLifted CaptureFitsCover ViewerNotMisled
    NoKeyStuck DragKeepsItsOwner EndedLetsGo
    DownloadFaithful OverwriteOnlyWithConsent UploadFaithful
    PasteFaithful StreamKeepsItsPlace
PROPERTIES CoverIsLifted DownloadEnds UploadEnds PasteEnds
CHECK_DEADLOCK FALSE
