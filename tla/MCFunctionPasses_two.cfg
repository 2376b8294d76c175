\* Two functions, two parameters, one call.
CONSTANTS
    Passes = {"fold"}
    N = 1
    Graphs = {}
    FlowGraphs = {}
    TailFunctions = {}
    Entries = 1
    Programs <- DirectPrograms
    NF = 2
    Value = {1, 2}
    FoldParams = 2
    MaxSites = 1
SPECIFICATION AllSpec
INVARIANTS
    FoldedIsWhatEveryCallPasses
CHECK_DEADLOCK FALSE
