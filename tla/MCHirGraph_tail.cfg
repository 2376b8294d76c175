\* A function after tail recursion elimination.
CONSTANTS
    Passes = {"ssa"}
    N = 4
    Programs = {}
    SsaPrograms <- TailRecursive
    LoopFunctions = {}
    Half = 4
    MaxInstructions = 256
    Fuel = 90
    Families = {}
SPECIFICATION Spec
INVARIANTS
    UsesSeeLastDefinition
CHECK_DEADLOCK FALSE
