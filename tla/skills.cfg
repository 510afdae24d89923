CONSTANTS
    r1 = r1
    r2 = r2
    r3 = r3
    w1 = w1
    w2 = w2
    s1 = s1
    s2 = s2
    md = md
    extra = extra
    None = None
    Torn = Torn
    Request <- ThreeCalls
    Worker <- TwoWorkers
    Skill <- OneSkill
    File <- TwoFiles
    SkillMd = md
    First = r1
    FileList <- Lists
    MaxRestart = 3
    MaxLoss = 1
SPECIFICATION Spec
INVARIANT RowsMatchDisk
INVARIANT BackupMatchesDisk
SYMMETRY Alike
CHECK_DEADLOCK FALSE
