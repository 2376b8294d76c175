\* Loops whose body has an effect or may trap.
CONSTANTS
    Passes = {"rewrite"}
    N = 2
    Programs = {}
    SsaPrograms = {}
    LoopFunctions <- EffectLoops
    Half = 4
    MaxInstructions = 256
    Fuel = 90
    Families = {}
SPECIFICATION Spec
INVARIANTS
    LoopsKeepBehaviour
CHECK_DEADLOCK FALSE
