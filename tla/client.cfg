SPECIFICATION FairSpec
CONSTANTS
    LineCap = 3
    UpCap = 2
    DownCap = 2
    Typed <- AnyLines
    MaxTyped = 2
    MaxPushed = 1
CHECK_DEADLOCK FALSE
INVARIANTS TypeOK TeardownSafe LinesKept
PROPERTIES QuietAfterStop QuitEndsClient
