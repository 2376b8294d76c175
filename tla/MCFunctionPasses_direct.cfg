\* Tail calls of which no argument disturbs a later one; two functions of one
\* parameter besides the entry with up to two calls, all by name, and with
\* three that reach both; every reachable graph of five blocks, and of four
\* with a dead loop; the dominance data of every graph of four blocks after
\* finalize_before_dom, the entry alone with three successors.
CONSTANTS
    Passes = {"tre", "dominance", "loops", "fold"}
    N = 5
    Graphs <- TreeGraphs
    FlowGraphs <- DomGraphs
    TailFunctions <- SafeFunctions
    Entries = 4
    Programs <- DirectPrograms
    NF = 3
    Value = {1, 2}
    FoldParams = 1
    MaxSites = 3
SPECIFICATION AllFairSpec
INVARIANTS
    SameBehaviour
    StackStaysFlat
    LoopsSound
    FoldedIsWhatEveryCallPasses
    DomTypeOK
    DomKeepsDominators
    DomHoldsOnlyDominators
    SdomIsImmediate
    FrontierExact
PROPERTIES
    Terminates
    DomOnlyShrinks
    DomTerminates
CHECK_DEADLOCK FALSE
