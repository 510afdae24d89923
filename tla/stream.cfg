CONSTANTS
    ToolUse <- MCToolUse
    NameOf <- MCNameOf
    Outside <- MCOutside
    RawUsage <- MCRawUsage
    StartTokens <- MCStartTokens
    Window = 20
    MaxMessages = 2
SPECIFICATION Spec
INVARIANT FramesInOrder
INVARIANT ToolsNamed
INVARIANT TurnAnswered
INVARIANT KeptAsShown
INVARIANT StatusHonest
 
CHECK_DEADLOCK FALSE
