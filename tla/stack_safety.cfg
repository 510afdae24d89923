CONSTANTS
    i1 = i1
    i2 = i2
    c1 = c1
    c2 = c2
    w1 = w1
    w2 = w2
    m1 = m1
    m2 = m2
    None = None
    Inst <- OneInst
    Conv <- TwoConv
    Id <- TwoId
    Maker <- OneMaker
    Collecting <- OneInst
    MinSize = 1
    MaxSize = 1
    MaxAttempts = 1
    MaxRefill = 1
    MaxSick = 0
    Faults <- Expiry
SPECIFICATION Spec
SYMMETRY Symmetry
INVARIANT NoSharedContainer
PROPERTY ImplementsAssignment
