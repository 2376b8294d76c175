\* A tail call with its two parameters exchanged.
CONSTANTS
    Passes = {"tre"}
    N = 1
    Graphs = {}
    FlowGraphs = {}
    TailFunctions <- SwapFunctions
    Entries = 4
    Programs = {}
    NF = 1
    Value = {}
    FoldParams = 0
    MaxSites = 1
SPECIFICATION AllSpec
INVARIANTS
    SameBehaviour
CHECK_DEADLOCK FALSE
