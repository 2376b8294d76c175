\* Up to four moves among four registers, a constant and a variable without
\* register; functions of up to four blocks for three targets; windows of up to
\* four instructions in straight code, and of one before a branch and in a loop.
CONSTANTS
    r1 = r1
    r2 = r2
    r3 = r3
    r4 = r4
    k1 = k1
    m1 = m1
    Register = {r1, r2, r3, r4}
    Memory = {m1}
    Constant = {k1}
    NoReg = NoReg
    Groups <- AllGroups
    Longest = 4
    PassesRun = {"phi", "back end", "peephole"}
    BackEndParts = {1, 2, 3, 4, 5, 6, 7, 10}
    PeepholeParts = {1, 2, 3}
    MaxRounds = 4
SPECIFICATION AllSpec
INVARIANTS
    TypeOK
    ReadsComeFirst
    MovesHappenAtOnce
    OrderedIsLeftAlone
    KeepsMeaning
    KeepsResults
    Settles
CHECK_DEADLOCK FALSE
