CONSTANTS
    t1 = t1
    t2 = t2
    chat = chat
    None = None
    Call <- TwoTurns
    Resource <- OneChat
    ResourceOf <- TwoOnChat
    LockTTL = 4
    ExtendTTL = 2
    MaxTries = 1
    ExecTimeout = 2
    EventTimeout = 3
    ContextLimit = 2
SPECIFICATION FairSpec
INVARIANT OneTurnWorks
INVARIANT SerialHistory
PROPERTY OnlyHolderGainsTime
PROPERTY ImplementsLease
PROPERTY LapseNeedsSilence
PROPERTY StuckTurnEnds
CHECK_DEADLOCK FALSE
