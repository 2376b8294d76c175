-------------------------- MODULE RegisterAllocation --------------------------
(***************************************************************************)
(* Register allocation of one function: the interference graph             *)
(* (src/lir/regalloc/gc/ig.c), its colouring (gc.c), and where memory      *)
(* selection puts a variable of a colour (src/lir/selector/*/mem.c).  The  *)
(* liveness sets are any solution of the equations, which is what          *)
(* LIR_DFG_compute_inout leaves (Liveness).                                *)
(*                                                                         *)
(* When all variables have a place the function is run on an abstract      *)
(* machine: a write puts the value of one variable in its place and        *)
(* destroys what any other variable had there.                             *)
(***************************************************************************)
EXTENDS LirBlocks

CONSTANTS
    K,          \* number of _regular_registers; register K is another, RAX
    Layouts     \* what the symbol table says of the variables

None == -1
Register == 0..K

(* no_node: global, read-only, array, aliased or over-aligned.  reg: the   *)
(* register instruction selection has bound the variable to.               *)
IsLayout(l) ==
    /\ l.no_node \subseteq Var
    /\ l.reg \in [Var -> Register \union {None}]
    /\ \A v \in l.no_node : l.reg[v] = None

ASSUME RegistersAssumption == K \in Nat \ {0}
ASSUME LayoutsAssumption   == \A l \in Layouts : IsLayout(l)

VARIABLES
    prog, out,      \* the function, and curr_out of its blocks
    layout,
    phase,          \* "graph", "push", "pop", "run"
    bb, inst,       \* the block, and how many of its instructions are left
    live,           \* `live` of the backward walk
    graph,          \* the neighbours of each node
    degree, processed, stack,
    color,
    at, pc,         \* the run: block, and instructions of it executed
    written,        \* variables that have been written
    intact          \* variables whose place still holds what they were given

input  == <<prog, out, layout>>
walk   == <<bb, inst, live, graph>>
order  == <<degree, processed, stack>>
run    == <<at, pc, written, intact>>
vars   == <<input, phase, walk, order, color, run>>

Nodes == Var \ layout.no_node

(* precolor(): a regular register has the number of its colour, any other  *)
(* its own, and RAX is the first of the enumeration.                       *)
Precolor(r) == IF r = K THEN 0 ELSE r

(* Instruction selection binds two variables to one register only for      *)
(* times that do not meet.                                                 *)
BoundApart ==
    \A a, b \in Var :
        a # b /\ layout.reg[a] # None /\ Clash(prog, out, a, b) => layout.reg[a] # layout.reg[b]

Init ==
    /\ prog \in Programs
    /\ out \in [Block -> SUBSET Var] /\ IsLiveOut(prog, out)
    /\ layout \in Layouts /\ BoundApart
    /\ phase = "graph"
    /\ bb = 1 /\ inst = Len(prog.code[1]) /\ live = out[1]
    /\ graph = [v \in Nodes |-> {}]
    /\ degree = [v \in Nodes |-> 0] /\ processed = {} /\ stack = <<>>
    /\ color = [v \in Var |-> IF layout.reg[v] = None THEN None ELSE Precolor(layout.reg[v])]
    /\ at = 1 /\ pc = 0 /\ written = {} /\ intact = {}
-----------------------------------------------------------------------------
WithEdgesToAll(ds, ls) ==
    [v \in Nodes |-> graph[v] \union
        {w \in Var \ {v} : (v \in ds /\ w \in ls) \/ (w \in ds /\ v \in ls)}]
WithEdgesOneWay(ds, ls) ==
    [v \in Nodes |-> graph[v] \union {w \in Nodes \ {v} : v \in ds /\ w \in ls}]
(* _igraph_add_edge for every written and every live variable.             *)
WithEdges(ds, ls) ==
    [v \in Nodes |-> graph[v] \union
        {w \in Nodes \ {v} : (v \in ds /\ w \in ls) \/ (w \in ds /\ v \in ls)}]

WalkOfLiveWrites ==
    /\ phase = "graph" /\ bb <= NB /\ inst > 0
    /\ LET i == prog.code[bb][inst]
       IN  /\ graph' = WithEdges(InstDef(i) \cap live, live)
           /\ live'  = (live \ InstDef(i)) \union InstUse(i)
    /\ inst' = inst - 1
    /\ UNCHANGED <<input, phase, bb, order, color, run>>
(* _build_igraph_block, from the last instruction of the block to the      *)
(* first.                                                                  *)
Walk ==
    /\ phase = "graph" /\ bb <= NB /\ inst > 0
    /\ LET i == prog.code[bb][inst]
       IN  /\ graph' = WithEdges(InstDef(i), live)
           /\ live'  = (live \ InstDef(i)) \union InstUse(i)
    /\ inst' = inst - 1
    /\ UNCHANGED <<input, phase, bb, order, color, run>>

NextBlock ==
    /\ phase = "graph" /\ bb < NB /\ inst = 0
    /\ bb' = bb + 1 /\ inst' = Len(prog.code[bb + 1]) /\ live' = out[bb + 1]
    /\ UNCHANGED <<input, phase, graph, order, color, run>>

(* The head of LIR_RA_color_igraph: bound variables are not pushed.        *)
GraphDone ==
    /\ phase = "graph" /\ bb = NB /\ inst = 0
    /\ phase' = "push"
    /\ degree' = [v \in Nodes |-> Cardinality(graph[v])]
    /\ processed' = {v \in Nodes : color[v] >= 0}
    /\ UNCHANGED <<input, walk, stack, color, run>>

MaxDegreeAboveZero ==
    {v \in Nodes \ processed :
        degree[v] > 0 /\ \A w \in Nodes \ processed : degree[w] <= degree[v]}
MaxDegree == {v \in Nodes \ processed : \A w \in Nodes \ processed : degree[w] <= degree[v]}

(* Which of several nodes of the greatest degree comes first is up to the  *)
(* order of the map.                                                       *)
Push ==
    /\ phase = "push"
    /\ \E v \in MaxDegree :
        /\ stack' = Append(stack, v)
        /\ processed' = processed \union {v}
        /\ degree' = [w \in Nodes |->
                        IF w \in graph[v] \ processed' THEN degree[w] - 1 ELSE degree[w]]
    /\ UNCHANGED <<input, phase, walk, color, run>>

PushDone ==
    /\ phase = "push" /\ MaxDegree = {}
    /\ phase' = "pop"
    /\ UNCHANGED <<input, walk, order, color, run>>

(* The lowest colour no neighbour has; it is at most the number of them.   *)
UsedColors(v) == {color[w] : w \in graph[v]}
FreeFromOne(v, c) == c > 0 /\ c \notin UsedColors(v) /\ \A d \in 1..(c - 1) : d \in UsedColors(v)
Free(v, c) == c \notin UsedColors(v) /\ \A d \in 0..(c - 1) : d \in UsedColors(v)

Pop ==
    /\ phase = "pop" /\ stack # <<>>
    /\ LET v == stack[Len(stack)]
       IN  IF color[v] >= 0 THEN UNCHANGED color
           ELSE \E c \in 0..(Cardinality(graph[v]) + 1) :
                Free(v, c) /\ color' = [color EXCEPT ![v] = c]
    /\ stack' = SubSeq(stack, 1, Len(stack) - 1)
    /\ UNCHANGED <<input, phase, walk, degree, processed, run>>

PopDone ==
    /\ phase = "pop" /\ stack = <<>>
    /\ phase' = "run"
    /\ UNCHANGED <<input, walk, order, color, run>>
-----------------------------------------------------------------------------
(* _update_subject_memory: a bound variable is in its register, a colour   *)
(* with a regular register means that register, all others have a place of *)
(* their own in memory.                                                    *)
Place(v) ==
    CASE layout.reg[v] # None                            -> <<"register", layout.reg[v]>>
      [] layout.reg[v] = None /\ color[v] \in 0..(K - 1) -> <<"register", color[v]>>
      [] OTHER                                           -> <<"memory", v>>

Execute ==
    /\ phase = "run" /\ pc < Len(prog.code[at])
    /\ pc' = pc + 1
    /\ LET ds == InstDef(prog.code[at][pc'])
       IN  /\ written' = written \union ds
           /\ intact'  = {v \in intact : \A d \in ds : Place(v) # Place(d)} \union ds
    /\ UNCHANGED <<input, phase, walk, order, color, at>>

Jump ==
    /\ phase = "run" /\ pc = Len(prog.code[at])
    /\ at' \in prog.succ[at] /\ pc' = 0
    /\ UNCHANGED <<input, phase, walk, order, color, written, intact>>

Allocate == Walk \/ NextBlock \/ GraphDone \/ Push \/ PushDone \/ Pop \/ PopDone
Next == Allocate \/ Execute \/ Jump

Spec     == Init /\ [][Next]_vars
FairSpec == Spec /\ WF_vars(Allocate)
-----------------------------------------------------------------------------
TypeOK ==
    /\ phase \in {"graph", "push", "pop", "run"}
    /\ bb \in Block /\ inst \in Nat /\ live \subseteq Var
    /\ graph \in [Nodes -> SUBSET Nodes]
    /\ degree \in [Nodes -> Int] /\ processed \subseteq Nodes /\ stack \in Seq(Nodes)
    /\ color \in [Var -> Int]
    /\ at \in Block /\ pc \in Nat /\ written \subseteq Var /\ intact \subseteq Var

(* Whatever way the function runs, an instruction that reads a variable    *)
(* finds there what was last written to it.                                *)
ReadsFindTheirValue ==
    phase = "run" /\ pc < Len(prog.code[at]) =>
        \A v \in InstUse(prog.code[at][pc + 1]) : v \in written => v \in intact

(* The graph has an edge for exactly the nodes that clash: one missing and *)
(* a value is lost, one too many and a register is.                        *)
EdgesAreClashes ==
    phase # "graph" =>
        \A v, w \in Nodes : v # w => (w \in graph[v] <=> Clash(prog, out, v, w))

(* A node ends in memory only if it has K neighbours or more.              *)
MemoryOnlyWhenCrowded ==
    phase = "run" =>
        \A v \in Nodes : Place(v)[1] = "memory" => Cardinality(graph[v]) >= K

(* The allocation ends with every node coloured.                           *)
AllColored == <>(phase = "run" /\ \A v \in Nodes : color[v] >= 0)
=============================================================================
