CONSTANTS
    Files <- AllFiles
    PageSize = 2
    MaxHits = 2
    MaxImages = 2
    MaxItem = 4
    Pdfs <- ThreePdfs
    NoHint = NoHint
SPECIFICATION ToolSpec
 
 
INVARIANT OutlineExact
 
CHECK_DEADLOCK FALSE
