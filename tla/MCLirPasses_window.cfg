\* Four instructions, x = y; x = x - y; x = x; y = x, and one behind them.
CONSTANTS
    r1 = r1
    r2 = r2
    r3 = r3
    r4 = r4
    k1 = k1
    m1 = m1
    Register = {r1, r2, r3, r4}
    Memory = {m1}
    Constant = {k1}
    NoReg = NoReg
    Groups <- AllGroups
    Longest = 0
    PassesRun = {"peephole"}
    BackEndParts = {}
    PeepholeParts = {5}
    MaxRounds = 4
SPECIFICATION AllSpec
INVARIANTS
    KeepsResults
CHECK_DEADLOCK FALSE
