CONSTANTS
    t1 = t1
    t2 = t2
    upload = upload
    result = result
    n1 = n1
    n2 = n2
    None = None
    Mixed = Mixed
    Turn <- TwoTurns
    Path <- TwoPaths
    NameOf <- OwnNames
    Uploads <- FirstUploads
    Chunks = 2
    Parallel = 2
    Syncing <- TwoTurns
    MaxSync = 1
    MaxRev = 2
SPECIFICATION Spec
 
INVARIANT ListedFileExists
 
PROPERTY AgentSeesFiles
CHECK_DEADLOCK FALSE
