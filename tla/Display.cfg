CONSTANTS
    ShownSets <- MCShownSets
    Layouts <- MCLayouts
    Profiles <- MCProfiles
    Frames <- MCFrames
    Streams <- MCStreams
    CaptureLength = 5
    Finds <- MCFinds
    Files <- MCFiles
    MaxCommands = 2
SPECIFICATION Spec
INVARIANT DrawnInOrder
INVARIANT ClickTells
INVARIANT FoundMatches
INVARIANT LinesAgree
PROPERTY NoGap
CHECK_DEADLOCK FALSE
