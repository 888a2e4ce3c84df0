SPECIFICATION FairSpec
CONSTANTS
    LineCap = 3
    UpCap = 2
    DownCap = 3
    Typed <- FewLines
    MaxTyped = 1
    MaxPushed = 0
CHECK_DEADLOCK FALSE
PROPERTIES IOFailureEndsClient
