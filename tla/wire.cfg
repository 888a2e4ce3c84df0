SPECIFICATION Spec
CONSTANTS
    Char <- Chars
    NameCap = 2
    PassCap = 2
    RoomCap = 3
    TimeCap = 4
    MsgCap = 3
    LineCap = 18
    Inputs <- SomeInputs
    Responses <- SomeResponses
CHECK_DEADLOCK FALSE
INVARIANTS CommandsKept ResponsesKept
