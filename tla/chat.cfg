CONSTANTS
    r1 = r1
    r2 = r2
    r3 = r3
    w1 = w1
    w2 = w2
    chat1 = chat1
    None = None
    Request <- ThreeCalls
    Worker <- TwoWorkers
    WorkerOf <- Placed
    Chat <- OneChat
    MaxAttempts = 2
SPECIFICATION Spec
INVARIANT Dialogue
INVARIANT ModelSeesHistory
 
PROPERTY TitleKept
PROPERTY LoopFreed
CHECK_DEADLOCK FALSE
