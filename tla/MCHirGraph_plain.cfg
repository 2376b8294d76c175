\* Every function of four blocks for the construction of the graph, the plain
\* ones for SSA; loops over integers of three bits to rewrite;
\* whole programs of seven families.
CONSTANTS
    Passes = {"whole", "build", "ssa", "rewrite"}
    N = 4
    Programs <- BuildPrograms
    SsaPrograms <- PlainPrograms
    LoopFunctions <- CountingLoops
    Half = 4
    MaxInstructions = 256
    Fuel = 90
    Families = {"control", "logic", "switch", "defer", "inline", "reach", "cold"}
SPECIFICATION Spec
INVARIANTS
    RunsLikeTheSource
    FlowPreserved
    PhisExact
    UsesSeeLastDefinition
    LoopsKeepBehaviour
    InfiniteNeverLeaves
CHECK_DEADLOCK FALSE
