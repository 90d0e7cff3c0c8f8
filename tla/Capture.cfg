SPECIFICATION FairSpec
CONSTANTS
    BufferLength = 2
    TraceLength = 2
    Batch = 1
    Modes = {"stop", "wrap", "file"}
    Offered = {"mstream", "mdisplay", "format", "view", "unview", "save", "load", "buffer", "restart", "close"}
    MaxWords = 3
INVARIANTS InOrder ViewIsRecent FilesHoldStream
PROPERTIES SavedComplete FreedUnused CommandReturns
CHECK_DEADLOCK FALSE
