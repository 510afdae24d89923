CONSTANTS
    w1 = w1
    w2 = w2
    s1 = s1
    f1 = f1
    f2 = f2
    c1 = c1
    c2 = c2
    Worker <- MCWorker
    Server <- MCServer
    File <- MCFile
    Conn <- MCConn
    TTL = 2
    Lag = 1
    ErrorText = 1
    MaxBody = 1
    MaxTurns = 2
SPECIFICATION Spec
SYMMETRY Symmetry
INVARIANT RulesOfTheTurn
INVARIANT LoadedSkillsWhole
 
INVARIANT AddressFresh
