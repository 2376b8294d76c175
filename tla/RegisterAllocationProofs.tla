----------------------- MODULE RegisterAllocationProofs -----------------------
(***************************************************************************)
(* A function whose registers are allocated reads what it wrote, for any   *)
(* number of blocks, variables and registers, any code and any path.       *)
(*                                                                         *)
(* The argument: while a block is walked backwards `live` is what is live  *)
(* after the instruction the walk stands at, so that the graph ends with   *)
(* an edge for every clash; neighbours never get the same colour; so two   *)
(* variables that clash have different places; and in a run nothing live   *)
(* can lose its place.                                                     *)
(***************************************************************************)
EXTENDS RegisterAllocation, FiniteSetTheorems, NaturalsInduction, WellFoundedInduction, TLAPS

(* What the allocation is given does not change.                           *)
Given ==
    /\ IsProgram(prog) /\ IsLayout(layout)
    /\ out \in [Block -> SUBSET Var] /\ IsLiveOut(prog, out)
    /\ BoundApart

Walking ==
    /\ bb \in Block /\ inst \in Nat /\ live \subseteq Var
    /\ graph \in [Nodes -> SUBSET Nodes]
    /\ phase = "graph" =>
        /\ inst <= Len(prog.code[bb]) /\ live = LiveAfter(prog, out, bb, inst)
        /\ \A v, w \in Nodes : v # w =>
            (w \in graph[v] <=>
                \E b \in Block : \E i \in 1..Len(prog.code[b]) :
                    /\ b < bb \/ (b = bb /\ i > inst)
                    /\ ClashAt(prog, out, b, i, v, w))

Ordering ==
    /\ degree \in [Nodes -> Int] /\ processed \subseteq Nodes /\ stack \in Seq(Nodes)
    /\ phase \in {"graph", "push", "pop", "run"}

(* A bound variable keeps the colour of its register, what is no node has  *)
(* none, and neighbours that are not both bound differ.                    *)
Coloring ==
    /\ color \in [Var -> Int]
    /\ \A v \in Var : layout.reg[v] # None => color[v] = Precolor(layout.reg[v])
    /\ \A v \in layout.no_node : color[v] = None
    /\ phase \in {"graph", "push"} => \A v \in Var : layout.reg[v] = None => color[v] = None
    /\ phase # "graph" =>
        \A v, w \in Nodes :
            v # w /\ w \in graph[v] /\ color[v] >= 0 /\ color[v] = color[w] =>
                layout.reg[v] # None /\ layout.reg[w] # None

(* In a run all that is live and has been written is still there.          *)
Running ==
    /\ at \in Block /\ pc \in Nat /\ written \subseteq Var /\ intact \subseteq Var
    /\ pc <= Len(prog.code[at])
    /\ phase # "run" => written = {}
    /\ \A v \in LiveAfter(prog, out, at, pc) : v \in written => v \in intact

IInv == Given /\ Walking /\ Ordering /\ EdgesAreClashes /\ Coloring /\ Running
-----------------------------------------------------------------------------
(* What is live before an instruction, from what is live after it.         *)
LEMMA LiveBefore ==
    ASSUME Given, NEW b \in Block, NEW n \in Nat, n < Len(prog.code[b])
    PROVE  LiveAfter(prog, out, b, n) =
             (LiveAfter(prog, out, b, n + 1) \ InstDef(prog.code[b][n + 1])) \union InstUse(prog.code[b][n + 1])
<1> DEFINE is == prog.code[b]
<1>1. is \in Seq(Instruction)
    BY DEF Given, IsProgram
<1>2. is[n + 1] \in Instruction
    BY <1>1
<1>3. InstUse(is[n + 1]) \subseteq Var
    BY <1>2 DEF InstUse, Instruction, Op
<1>4. ASSUME NEW v \in InstUse(is[n + 1])
      PROVE  v \in LiveAfter(prog, out, b, n)
    BY <1>1, <1>3 DEF LiveAfter
<1>5. ASSUME NEW v \in LiveAfter(prog, out, b, n + 1), v \notin InstDef(is[n + 1])
      PROVE  v \in LiveAfter(prog, out, b, n)
    <2>1. \A k \in (n + 1)..Len(is) : k = n + 1 \/ k \in ((n + 1) + 1)..Len(is)
        BY <1>1
    <2>2. CASE \E j \in ((n + 1) + 1)..Len(is) :
                /\ v \in InstUse(is[j])
                /\ \A k \in ((n + 1) + 1)..(j - 1) : v \notin InstDef(is[k])
        <3>1. PICK j \in ((n + 1) + 1)..Len(is) :
                /\ v \in InstUse(is[j])
                /\ \A k \in ((n + 1) + 1)..(j - 1) : v \notin InstDef(is[k])
            BY <2>2
        <3>2. j \in (n + 1)..Len(is) /\ \A k \in (n + 1)..(j - 1) : v \notin InstDef(is[k])
            BY <1>1, <1>5, <3>1
        <3>3. v \in Var
            BY <1>5 DEF LiveAfter
        <3>4. QED
            BY <3>1, <3>2, <3>3 DEF LiveAfter
    <2>3. CASE v \in out[b] /\ \A k \in ((n + 1) + 1)..Len(is) : v \notin InstDef(is[k])
        <3>1. \A k \in (n + 1)..Len(is) : v \notin InstDef(is[k])
            BY <2>1, <2>3, <1>5
        <3>2. v \in Var
            BY <1>5 DEF LiveAfter
        <3>3. QED
            BY <2>3, <3>1, <3>2 DEF LiveAfter
    <2>4. QED
        BY <1>5, <2>2, <2>3 DEF LiveAfter
<1>6. ASSUME NEW v \in LiveAfter(prog, out, b, n), v \notin InstUse(is[n + 1])
      PROVE  v \in LiveAfter(prog, out, b, n + 1) /\ v \notin InstDef(is[n + 1])
    <2>1. v \in Var
        BY <1>6 DEF LiveAfter
    <2>2. CASE \E j \in (n + 1)..Len(is) :
                /\ v \in InstUse(is[j])
                /\ \A k \in (n + 1)..(j - 1) : v \notin InstDef(is[k])
        <3>1. PICK j \in (n + 1)..Len(is) :
                /\ v \in InstUse(is[j])
                /\ \A k \in (n + 1)..(j - 1) : v \notin InstDef(is[k])
            BY <2>2
        <3>2. j \in ((n + 1) + 1)..Len(is) /\ (n + 1) \in (n + 1)..(j - 1)
            BY <1>1, <1>6, <3>1
        <3>3. \A k \in ((n + 1) + 1)..(j - 1) : v \notin InstDef(is[k])
            BY <3>1
        <3>4. QED
            BY <2>1, <3>1, <3>2, <3>3 DEF LiveAfter
    <2>3. CASE v \in out[b] /\ \A k \in (n + 1)..Len(is) : v \notin InstDef(is[k])
        BY <1>1, <2>1, <2>3 DEF LiveAfter
    <2>4. QED
        BY <1>6, <2>2, <2>3 DEF LiveAfter
<1>7. QED
    BY <1>4, <1>5, <1>6

(* After the last instruction what is live is what is live at the end.     *)
LEMMA LiveAtLast ==
    ASSUME Given, NEW b \in Block
    PROVE  LiveAfter(prog, out, b, Len(prog.code[b])) = out[b]
<1>1. Len(prog.code[b]) \in Nat /\ out[b] \subseteq Var
    BY DEF Given, IsProgram
<1>2. QED
    BY <1>1 DEF LiveAfter

(* Whatever is live where a block starts is live where the one before it   *)
(* ends.                                                                   *)
LEMMA LiveAcrossEdge ==
    ASSUME Given, NEW b \in Block, NEW s \in prog.succ[b]
    PROVE  s \in Block /\ LiveAfter(prog, out, s, 0) \subseteq out[b]
<1>1. s \in Block /\ Len(prog.code[s]) \in Nat
    BY DEF Given, IsProgram
<1>2. LiveAfter(prog, out, s, 0) \subseteq BlockUse(prog, s) \union (out[s] \ BlockDef(prog, s))
    BY <1>1 DEF LiveAfter, BlockUse, BlockDef, Exposed, Written
<1>3. out[b] = UNION {BlockUse(prog, x) \union (out[x] \ BlockDef(prog, x)) : x \in prog.succ[b]}
    BY DEF Given, IsLiveOut
<1>4. QED
    BY <1>1, <1>2, <1>3

(* Variables that clash have different places once neighbours that are     *)
(* not both bound differ in colour.                                        *)
LEMMA PlacesDiffer ==
    ASSUME IInv, phase = "run", NEW a \in Var, NEW b \in Var, a # b, Clash(prog, out, a, b)
    PROVE  Place(a) # Place(b)
<1> USE RegistersAssumption
<1>1. color[a] \in Int /\ color[b] \in Int
    BY DEF IInv, Coloring
<1>2. CASE layout.reg[a] # None /\ layout.reg[b] # None
    <2>1. layout.reg[a] # layout.reg[b]
        BY <1>2 DEF IInv, Given, BoundApart
    <2>2. QED
        BY <1>2, <2>1 DEF Place
<1>3. CASE layout.reg[a] = None /\ color[a] \notin 0..(K - 1)
    <2>1. Place(a) = <<"memory", a>>
        BY <1>3 DEF Place
    <2>2. Place(b)[1] = "register" \/ Place(b) = <<"memory", b>>
        BY DEF Place
    <2>3. QED
        BY <2>1, <2>2
<1>4. CASE layout.reg[b] = None /\ color[b] \notin 0..(K - 1)
    <2>1. Place(b) = <<"memory", b>>
        BY <1>4 DEF Place
    <2>2. Place(a)[1] = "register" \/ Place(a) = <<"memory", a>>
        BY DEF Place
    <2>3. QED
        BY <2>1, <2>2
<1>5. ASSUME NEW v \in Var, NEW w \in Var, v # w, Clash(prog, out, v, w),
             layout.reg[v] = None, color[v] \in 0..(K - 1),
             layout.reg[w] # None \/ color[w] \in 0..(K - 1)
      PROVE  Place(v) # Place(w)
    <2>1. Precolor(layout.reg[w]) >= 0 \/ layout.reg[w] = None
        BY DEF IInv, Given, IsLayout, Precolor, Register, None
    <2>2. v \in Nodes /\ w \in Nodes
        BY <1>5, <2>1 DEF IInv, Given, IsLayout, Coloring, Nodes, None
    <2>3. w \in graph[v]
        BY <1>5, <2>2 DEF IInv, EdgesAreClashes
    <2>4. color[v] # color[w]
        BY <1>5, <2>2, <2>3 DEF IInv, Coloring
    <2>5. Place(v) = <<"register", color[v]>>
        BY <1>5 DEF Place
    <2>6. CASE layout.reg[w] = None
        <3>1. Place(w) = <<"register", color[w]>>
            BY <1>5, <2>6 DEF Place
        <3>2. QED
            BY <2>4, <2>5, <3>1
    <2>7. CASE layout.reg[w] # None
        <3>1. Place(w) = <<"register", layout.reg[w]>> /\ color[w] = Precolor(layout.reg[w])
            BY <2>7 DEF Place, IInv, Coloring
        <3>2. color[v] # layout.reg[w]
            BY <2>4, <3>1, <1>5 DEF Precolor
        <3>3. QED
            BY <2>5, <3>1, <3>2
    <2>8. QED
        BY <2>6, <2>7
<1>6. Clash(prog, out, b, a)
    BY DEF Clash, ClashAt
<1>7. QED
    BY <1>2, <1>3, <1>4, <1>5, <1>6
-----------------------------------------------------------------------------
(* The invariant holds at the start ...                                    *)
LEMMA InitInv == Init => IInv
<1> SUFFICES ASSUME Init PROVE IInv
    OBVIOUS
<1> USE BlocksAssumption
<1>1. Given
    BY ProgramsAssumption, LayoutsAssumption DEF Init, Given
<1>2. 1 \in Block /\ Len(prog.code[1]) \in Nat /\ out[1] \subseteq Var
    BY <1>1 DEF Given, IsProgram, Block
<1>3. Walking
    <2>1. live = LiveAfter(prog, out, bb, inst)
        BY <1>1, <1>2, LiveAtLast DEF Init
    <2>2. \A b \in Block : \A i \in 1..Len(prog.code[b]) : ~(b < bb \/ (b = bb /\ i > inst))
        BY <1>1, <1>2 DEF Init, Block, Given, IsProgram
    <2>3. graph = [v \in Nodes |-> {}]
        BY DEF Init
    <2>4. QED
        BY <1>2, <2>1, <2>2, <2>3 DEF Init, Walking
<1>4. Ordering /\ EdgesAreClashes
    BY DEF Init, Ordering, EdgesAreClashes
<1>5. Coloring
    <2>1. \A r \in Register : Precolor(r) \in Int
        BY RegistersAssumption DEF Register, Precolor
    <2>2. color = [v \in Var |-> IF layout.reg[v] = None THEN None ELSE Precolor(layout.reg[v])]
        BY DEF Init
    <2>3. \A v \in Var : layout.reg[v] # None => layout.reg[v] \in Register
        BY <1>1 DEF Given, IsLayout
    <2>4. color \in [Var -> Int]
        BY <2>1, <2>2, <2>3 DEF None
    <2>5. layout.no_node \subseteq Var /\ \A v \in layout.no_node : layout.reg[v] = None
        BY <1>1 DEF Given, IsLayout
    <2>6. phase = "graph"
        BY DEF Init
    <2>7. QED
        BY <2>2, <2>4, <2>5, <2>6 DEF Coloring
<1>6. Running
    BY <1>2 DEF Init, Running
<1>7. QED
    BY <1>1, <1>3, <1>4, <1>5, <1>6 DEF IInv

(* ... and is kept by one instruction of the walk,                         *)
LEMMA WalkInv == IInv /\ Walk => IInv'
<1> SUFFICES ASSUME IInv, Walk PROVE IInv'
    OBVIOUS
<1> USE BlocksAssumption
<1> DEFINE ds == InstDef(prog.code[bb][inst])
           us == InstUse(prog.code[bb][inst])
<1>1. /\ phase = "graph" /\ inst > 0 /\ inst' = inst - 1
      /\ graph' = WithEdges(ds, live) /\ live' = (live \ ds) \union us
      /\ UNCHANGED <<input, phase, bb, order, color, run>>
    BY DEF Walk
<1>2. UNCHANGED <<prog, out, layout>> /\ Nodes' = Nodes
    BY <1>1 DEF input, Nodes
<1>3. /\ bb \in Block /\ inst \in 1..Len(prog.code[bb]) /\ Len(prog.code[bb]) \in Nat
      /\ live = LiveAfter(prog, out, bb, inst)
    BY <1>1 DEF IInv, Walking, Given, IsProgram
<1>4. Given'
    BY <1>2 DEF IInv, Given, BoundApart
<1>5. live' = LiveAfter(prog, out, bb, inst - 1)
    <2>1. LiveAfter(prog, out, bb, inst - 1) =
            (LiveAfter(prog, out, bb, (inst - 1) + 1) \ InstDef(prog.code[bb][(inst - 1) + 1]))
                \union InstUse(prog.code[bb][(inst - 1) + 1])
        BY <1>3, LiveBefore DEF IInv
    <2>2. (inst - 1) + 1 = inst
        BY <1>3
    <2>3. QED
        BY <1>1, <1>3, <2>1, <2>2
<1>6. \A v, w \in Nodes : v # w =>
        (w \in graph'[v] <=> w \in graph[v] \/ ClashAt(prog, out, bb, inst, v, w))
    BY <1>1, <1>3 DEF WithEdges, ClashAt
<1>7. graph' \in [Nodes -> SUBSET Nodes]
    BY <1>1 DEF IInv, Walking, WithEdges
<1>8. Walking'
    <2>1. ASSUME NEW v \in Nodes, NEW w \in Nodes, v # w
          PROVE  w \in graph'[v] <=>
                    \E b \in Block : \E i \in 1..Len(prog.code[b]) :
                        /\ b < bb \/ (b = bb /\ i > inst - 1)
                        /\ ClashAt(prog, out, b, i, v, w)
        <3>1. w \in graph[v] <=>
                    \E b \in Block : \E i \in 1..Len(prog.code[b]) :
                        /\ b < bb \/ (b = bb /\ i > inst)
                        /\ ClashAt(prog, out, b, i, v, w)
            BY <1>1, <2>1 DEF IInv, Walking
        <3>2. \A b \in Block : \A i \in 1..Len(prog.code[b]) :
                (b < bb \/ (b = bb /\ i > inst - 1))
                    <=> ((b < bb \/ (b = bb /\ i > inst)) \/ (b = bb /\ i = inst))
            BY <1>3 DEF IInv, Given, IsProgram, Block
        <3>3. QED
            BY <3>1, <3>2, <1>3, <1>6, <2>1
    <2>2. live' \subseteq Var
        BY <1>5 DEF LiveAfter
    <2>3. inst - 1 \in Nat /\ inst - 1 <= Len(prog.code[bb])
        BY <1>3
    <2>4. QED
        BY <1>1, <1>2, <1>3, <1>5, <1>7, <2>1, <2>2, <2>3 DEF Walking
<1>9. Ordering'
    BY <1>1, <1>2 DEF IInv, Ordering, order
<1>10. EdgesAreClashes' 
    BY <1>1 DEF EdgesAreClashes
<1>11. Coloring'
    BY <1>1, <1>2 DEF IInv, Coloring
<1>12. Running'
    BY <1>1, <1>2 DEF IInv, Running, run
<1>13. QED
    BY <1>4, <1>8, <1>9, <1>10, <1>11, <1>12 DEF IInv

(* by going on to the next block,                                          *)
LEMMA NextBlockInv == IInv /\ NextBlock => IInv'
<1> SUFFICES ASSUME IInv, NextBlock PROVE IInv'
    OBVIOUS
<1> USE BlocksAssumption
<1>1. /\ phase = "graph" /\ bb < NB /\ inst = 0 /\ bb' = bb + 1
      /\ inst' = Len(prog.code[bb + 1]) /\ live' = out[bb + 1]
      /\ UNCHANGED <<input, phase, graph, order, color, run>>
    BY DEF NextBlock
<1>2. UNCHANGED <<prog, out, layout>> /\ Nodes' = Nodes
    BY <1>1 DEF input, Nodes
<1>3. bb \in Block /\ bb + 1 \in Block /\ \A b \in Block : Len(prog.code[b]) \in Nat
    BY <1>1 DEF IInv, Walking, Given, IsProgram, Block
<1>4. Given'
    BY <1>2 DEF IInv, Given, BoundApart
<1>5. live' = LiveAfter(prog, out, bb + 1, inst') /\ live' \subseteq Var
    BY <1>1, <1>3, LiveAtLast DEF IInv, Given
<1>6. Walking'
    <2>1. \A b \in Block : \A i \in 1..Len(prog.code[b]) :
            (b < bb + 1 \/ (b = bb + 1 /\ i > inst')) <=> (b < bb \/ (b = bb /\ i > inst))
        BY <1>1, <1>3 DEF Block
    <2>2. \A v, w \in Nodes : v # w =>
            (w \in graph[v] <=>
                \E b \in Block : \E i \in 1..Len(prog.code[b]) :
                    /\ b < bb \/ (b = bb /\ i > inst)
                    /\ ClashAt(prog, out, b, i, v, w))
        BY <1>1 DEF IInv, Walking
    <2>3. \A v, w \in Nodes : v # w =>
            (w \in graph[v] <=>
                \E b \in Block : \E i \in 1..Len(prog.code[b]) :
                    /\ b < bb + 1 \/ (b = bb + 1 /\ i > inst')
                    /\ ClashAt(prog, out, b, i, v, w))
        BY <2>1, <2>2
    <2>4. inst' \in Nat /\ inst' <= Len(prog.code[bb + 1])
        BY <1>1, <1>3
    <2>5. graph' \in [Nodes -> SUBSET Nodes] /\ graph' = graph
        BY <1>1 DEF IInv, Walking
    <2>6. QED
        BY <1>1, <1>2, <1>3, <1>5, <2>3, <2>4, <2>5 DEF Walking
<1>7. Ordering'
    BY <1>1, <1>2 DEF IInv, Ordering, order
<1>8. EdgesAreClashes' /\ Coloring'
    BY <1>1, <1>2 DEF IInv, EdgesAreClashes, Coloring
<1>9. Running'
    BY <1>1, <1>2 DEF IInv, Running, run
<1>10. QED
    BY <1>4, <1>6, <1>7, <1>8, <1>9 DEF IInv

(* by the end of the walk, when every clash has been seen,                 *)
LEMMA GraphDoneInv == IInv /\ GraphDone => IInv'
<1> SUFFICES ASSUME IInv, GraphDone PROVE IInv'
    OBVIOUS
<1> USE BlocksAssumption
<1>1. /\ phase = "graph" /\ bb = NB /\ inst = 0 /\ phase' = "push"
      /\ degree' = [v \in Nodes |-> Cardinality(graph[v])]
      /\ processed' = {v \in Nodes : color[v] >= 0}
      /\ UNCHANGED <<input, walk, stack, color, run>>
    BY DEF GraphDone
<1>2. UNCHANGED <<prog, out, layout>> /\ Nodes' = Nodes /\ UNCHANGED <<bb, inst, live, graph>>
    BY <1>1 DEF input, Nodes, walk
<1>3. Given'
    BY <1>2 DEF IInv, Given, BoundApart
<1>4. Walking'
    BY <1>1, <1>2 DEF IInv, Walking
<1>5. EdgesAreClashes'
    <2>1. \A b \in Block : \A i \in 1..Len(prog.code[b]) : b < bb \/ (b = bb /\ i > inst)
        BY <1>1 DEF Block, IInv, Given, IsProgram
    <2>2. \A v, w \in Nodes : v # w =>
            (w \in graph[v] <=>
                \E b \in Block : \E i \in 1..Len(prog.code[b]) :
                    /\ b < bb \/ (b = bb /\ i > inst)
                    /\ ClashAt(prog, out, b, i, v, w))
        BY <1>1 DEF IInv, Walking
    <2>3. \A v, w \in Nodes : v # w => (w \in graph[v] <=> Clash(prog, out, v, w))
        BY <2>1, <2>2 DEF Clash
    <2>4. QED
        BY <1>2, <2>3 DEF EdgesAreClashes
<1>6. Ordering'
    <2>1. \A v \in Nodes : graph[v] \subseteq Var
        BY DEF IInv, Walking, Nodes
    <2>2. \A v \in Nodes : Cardinality(graph[v]) \in Nat
        BY <2>1, VarAssumption, FS_Subset, FS_CardinalityType
    <2>3. degree' \in [Nodes -> Int]
        BY <1>1, <2>2
    <2>4. QED
        BY <1>1, <1>2, <2>3 DEF IInv, Ordering
<1>7. Coloring'
    <2>1. \A v \in Nodes : color[v] >= 0 => layout.reg[v] # None
        BY <1>1 DEF IInv, Coloring, Nodes, None
    <2>2. \A v, w \in Nodes : color[v] >= 0 /\ color[v] = color[w] =>
            layout.reg[v] # None /\ layout.reg[w] # None
        BY <2>1
    <2>3. QED
        BY <1>1, <1>2, <2>2 DEF IInv, Coloring
<1>8. Running'
    BY <1>1, <1>2 DEF IInv, Running, run
<1>9. QED
    BY <1>3, <1>4, <1>5, <1>6, <1>7, <1>8 DEF IInv

(* by pushing a node,                                                      *)
LEMMA PushInv == IInv /\ (Push \/ PushDone) => IInv'
<1> SUFFICES ASSUME IInv, Push \/ PushDone PROVE IInv'
    OBVIOUS
<1>1. UNCHANGED <<input, walk, color, run>> /\ phase = "push"
    BY DEF Push, PushDone
<1>2. /\ UNCHANGED <<prog, out, layout>> /\ Nodes' = Nodes
      /\ UNCHANGED <<bb, inst, live, graph>> /\ phase' \in {"push", "pop"}
    BY <1>1 DEF input, Nodes, walk, Push, PushDone
<1>3. Given'
    BY <1>2 DEF IInv, Given, BoundApart
<1>4. Walking' /\ EdgesAreClashes'
    BY <1>1, <1>2 DEF IInv, Walking, EdgesAreClashes
<1>5. Ordering'
    <2>1. CASE Push
        <3>1. PICK v \in MaxDegree :
                /\ stack' = Append(stack, v)
                /\ processed' = processed \union {v}
                /\ degree' = [w \in Nodes |->
                                IF w \in graph[v] \ processed' THEN degree[w] - 1 ELSE degree[w]]
            BY <2>1 DEF Push
        <3>2. v \in Nodes
            BY DEF MaxDegree
        <3>3. stack' \in Seq(Nodes) /\ processed' \subseteq Nodes
            BY <3>1, <3>2 DEF IInv, Ordering
        <3>4. degree' \in [Nodes -> Int]
            BY <3>1 DEF IInv, Ordering
        <3>5. QED
            BY <1>2, <3>3, <3>4 DEF Ordering
    <2>2. CASE PushDone
        BY <1>2, <2>2 DEF PushDone, order, IInv, Ordering
    <2>3. QED
        BY <2>1, <2>2
<1>6. Coloring'
    <2>1. \A v \in Var : layout.reg[v] = None => color[v] = None
        BY <1>1 DEF IInv, Coloring
    <2>2. QED
        BY <1>1, <1>2, <2>1 DEF IInv, Coloring
<1>7. Running'
    BY <1>1, <1>2 DEF IInv, Running, run
<1>8. QED
    BY <1>3, <1>4, <1>5, <1>6, <1>7 DEF IInv

(* by giving a node a colour none of its neighbours has,                   *)
LEMMA PopInv == IInv /\ Pop => IInv'
<1> SUFFICES ASSUME IInv, Pop PROVE IInv'
    OBVIOUS
<1> DEFINE v == stack[Len(stack)]
<1>1. /\ phase = "pop" /\ stack # <<>> /\ stack' = SubSeq(stack, 1, Len(stack) - 1)
      /\ UNCHANGED <<input, phase, walk, degree, processed, run>>
    BY DEF Pop
<1>2. /\ UNCHANGED <<prog, out, layout>> /\ Nodes' = Nodes
      /\ UNCHANGED <<bb, inst, live, graph>>
    BY <1>1 DEF input, Nodes, walk
<1>3. v \in Nodes
    BY <1>1 DEF IInv, Ordering
<1>4. Given'
    BY <1>2 DEF IInv, Given, BoundApart
<1>5. Walking' /\ EdgesAreClashes'
    BY <1>1, <1>2 DEF IInv, Walking, EdgesAreClashes
<1>6. Ordering'
    <2>1. stack' \in Seq(Nodes)
        BY <1>1 DEF IInv, Ordering
    <2>2. QED
        BY <1>1, <1>2, <2>1 DEF IInv, Ordering
<1>7. Coloring'
    <2>1. CASE color[v] >= 0
        <3>1. UNCHANGED color
            BY <2>1 DEF Pop
        <3>2. QED
            BY <1>1, <1>2, <3>1 DEF IInv, Coloring
    <2>2. CASE ~(color[v] >= 0)
        <3>1. PICK c \in 0..(Cardinality(graph[v]) + 1) :
                Free(v, c) /\ color' = [color EXCEPT ![v] = c]
            BY <2>2 DEF Pop
        <3> HIDE DEF v
        <3>2. v \in Var /\ c \in Int /\ c >= 0
            BY <1>3, <3>1 DEF Nodes
        <3>3. color' \in [Var -> Int] /\ color'[v] = c
              /\ \A w \in Var : w # v => color'[w] = color[w]
            BY <3>1, <3>2 DEF IInv, Coloring
        <3>4. layout.reg[v] = None
            BY <2>2, <3>2, RegistersAssumption DEF IInv, Coloring, Given, IsLayout, Precolor, Register
        <3>5. \A w \in graph[v] : color[w] # c
            BY <3>1 DEF Free, UsedColors
        <3>6. \A w \in Nodes : w # v /\ v \in graph[w] => w \in graph[v]
            BY <1>1, <1>3 DEF IInv, EdgesAreClashes, Clash, ClashAt
        <3>7. ASSUME NEW x \in Nodes, NEW w \in Nodes,
                     x # w, w \in graph[x], color'[x] >= 0, color'[x] = color'[w]
              PROVE  layout.reg[x] # None /\ layout.reg[w] # None
            <4>1. x \in Var /\ w \in Var
                BY DEF Nodes
            <4>2. x # v /\ w # v
                BY <3>3, <3>5, <3>6, <3>7, <4>1
            <4>3. color'[x] = color[x] /\ color'[w] = color[w]
                BY <3>3, <4>1, <4>2
            <4>4. QED
                BY <1>1, <3>7, <4>3 DEF IInv, Coloring
        <3>8. \A w \in layout.no_node : w # v
            BY <1>3 DEF Nodes
        <3>9. \A w \in Var : layout.reg[w] # None => color'[w] = Precolor(layout.reg[w])
            BY <3>3, <3>4 DEF IInv, Coloring
        <3>10. \A w \in layout.no_node : color'[w] = None
            BY <3>3, <3>8 DEF IInv, Coloring, Given, IsLayout
        <3>11. \A x, w \in Nodes : x # w /\ w \in graph[x] /\ color'[x] >= 0 /\ color'[x] = color'[w]
                    => layout.reg[x] # None /\ layout.reg[w] # None
            BY <3>7
        <3>12. QED
            BY <1>1, <1>2, <3>3, <3>9, <3>10, <3>11 DEF Coloring
    <2>3. QED
        BY <2>1, <2>2
<1>8. Running'
    BY <1>1, <1>2 DEF IInv, Running, run
<1>9. QED
    BY <1>4, <1>5, <1>6, <1>7, <1>8 DEF IInv

(* by the start of the run,                                                *)
LEMMA PopDoneInv == IInv /\ PopDone => IInv'
<1> SUFFICES ASSUME IInv, PopDone PROVE IInv'
    OBVIOUS
<1>1. /\ phase = "pop" /\ phase' = "run"
      /\ UNCHANGED <<prog, out, layout, bb, inst, live, graph, degree, processed, stack, color,
                     at, pc, written, intact>> /\ Nodes' = Nodes
    BY DEF PopDone, input, walk, order, run, Nodes
<1>2. Given'
    BY <1>1 DEF IInv, Given, BoundApart
<1>3. Walking' /\ EdgesAreClashes' /\ Ordering'
    BY <1>1 DEF IInv, Walking, EdgesAreClashes, Ordering
<1>4. Coloring'
    BY <1>1 DEF IInv, Coloring
<1>5. Running'
    BY <1>1 DEF IInv, Running
<1>6. QED
    BY <1>2, <1>3, <1>4, <1>5 DEF IInv

(* by an instruction of the run: what stays live was live before, and the  *)
(* variable written has a place of its own among what is live,             *)
LEMMA ExecuteInv == IInv /\ Execute => IInv'
<1> SUFFICES ASSUME IInv, Execute PROVE IInv'
    OBVIOUS
<1> DEFINE ds == InstDef(prog.code[at][pc + 1])
<1>1. /\ phase = "run" /\ pc < Len(prog.code[at]) /\ pc' = pc + 1
      /\ written' = written \union ds
      /\ intact' = {v \in intact : \A d \in ds : Place(v) # Place(d)} \union ds
      /\ UNCHANGED <<input, phase, walk, order, color, at>>
    BY DEF Execute
<1>2. UNCHANGED <<prog, out, layout, bb, inst, live, graph, degree, processed, stack>> /\ Nodes' = Nodes
    BY <1>1 DEF input, walk, order, Nodes
<1>3. /\ at \in Block /\ pc \in Nat /\ prog.code[at] \in Seq(Instruction)
      /\ (pc + 1) \in 1..Len(prog.code[at])
    BY <1>1 DEF IInv, Running, Given, IsProgram
<1>4. ds \subseteq Var
    <2>1. prog.code[at][pc + 1] \in Instruction
        BY <1>3
    <2>2. QED
        BY <2>1 DEF InstDef, Instruction, Op
<1>5. \A d, e \in ds : d = e
    <2>1. prog.code[at][pc + 1] \in Instruction
        BY <1>3
    <2>2. QED
        BY <2>1 DEF InstDef, Instruction
<1>6. Given'
    BY <1>2 DEF IInv, Given, BoundApart
<1>7. Walking' /\ EdgesAreClashes' /\ Ordering'
    BY <1>1, <1>2 DEF IInv, Walking, EdgesAreClashes, Ordering
<1>8. Coloring'
    BY <1>1, <1>2 DEF IInv, Coloring
<1>9. Running'
    <2>1. ASSUME NEW v \in LiveAfter(prog, out, at, pc + 1), v \in written'
          PROVE  v \in intact'
        <3>1. v \in Var
            BY <2>1 DEF LiveAfter
        <3>2. CASE v \in ds
            BY <1>1, <3>2
        <3>3. CASE v \notin ds
            <4>1. v \in LiveAfter(prog, out, at, pc)
                BY <1>1, <1>3, <2>1, <3>3, LiveBefore DEF IInv
            <4>2. v \in intact
                BY <1>1, <2>1, <3>3, <4>1 DEF IInv, Running
            <4>3. ASSUME NEW d \in ds
                  PROVE  Place(v) # Place(d)
                <5>1. Clash(prog, out, v, d)
                    BY <1>3, <2>1 DEF Clash, ClashAt
                <5>2. QED
                    BY <1>1, <1>4, <3>1, <3>3, <5>1, PlacesDiffer
            <4>4. QED
                BY <1>1, <4>2, <4>3
        <3>4. QED
            BY <3>2, <3>3
    <2>2. written' \subseteq Var /\ intact' \subseteq Var
        BY <1>1, <1>4 DEF IInv, Running
    <2>3. QED
        BY <1>1, <1>2, <1>3, <2>1, <2>2 DEF Running
<1>10. QED
    BY <1>6, <1>7, <1>8, <1>9 DEF IInv

(* and by going to another block.                                          *)
LEMMA JumpInv == IInv /\ Jump => IInv'
<1> SUFFICES ASSUME IInv, Jump PROVE IInv'
    OBVIOUS
<1>1. /\ phase = "run" /\ pc = Len(prog.code[at]) /\ at' \in prog.succ[at] /\ pc' = 0
      /\ UNCHANGED <<input, phase, walk, order, color, written, intact>>
    BY DEF Jump
<1>2. UNCHANGED <<prog, out, layout, bb, inst, live, graph, degree, processed, stack>> /\ Nodes' = Nodes
    BY <1>1 DEF input, walk, order, Nodes
<1>3. Given'
    BY <1>2 DEF IInv, Given, BoundApart
<1>4. Walking' /\ EdgesAreClashes' /\ Ordering'
    BY <1>1, <1>2 DEF IInv, Walking, EdgesAreClashes, Ordering
<1>5. Coloring'
    BY <1>1, <1>2 DEF IInv, Coloring
<1>6. Running'
    <2>1. at \in Block /\ LiveAfter(prog, out, at, pc) = out[at]
        BY <1>1, LiveAtLast DEF IInv, Running
    <2>2. at' \in Block /\ LiveAfter(prog, out, at', 0) \subseteq out[at]
        BY <1>1, <2>1, LiveAcrossEdge DEF IInv
    <2>3. Len(prog.code[at']) \in Nat
        BY <2>2 DEF IInv, Given, IsProgram
    <2>4. QED
        BY <1>1, <1>2, <2>1, <2>2, <2>3 DEF IInv, Running
<1>7. QED
    BY <1>3, <1>4, <1>5, <1>6 DEF IInv
-----------------------------------------------------------------------------
(* Every step keeps the invariant.                                         *)
LEMMA StepInv == IInv /\ [Next]_vars => IInv'
<1> SUFFICES ASSUME IInv, [Next]_vars PROVE IInv'
    OBVIOUS
<1>1. CASE UNCHANGED vars
    <2>1. /\ UNCHANGED <<prog, out, layout, phase, bb, inst, live, graph, degree, processed, stack,
                         color, at, pc, written, intact>> /\ Nodes' = Nodes
        BY <1>1 DEF vars, input, walk, order, run, Nodes
    <2>2. Given'
        BY <2>1 DEF IInv, Given, BoundApart
    <2>3. Walking' /\ EdgesAreClashes' /\ Ordering'
        BY <2>1 DEF IInv, Walking, EdgesAreClashes, Ordering
    <2>4. Coloring' /\ Running'
        BY <2>1 DEF IInv, Coloring, Running
    <2>5. QED
        BY <2>2, <2>3, <2>4 DEF IInv
<1>2. QED
    BY <1>1, WalkInv, NextBlockInv, GraphDoneInv, PushInv, PopInv, PopDoneInv, ExecuteInv, JumpInv
       DEF Next, Allocate

(* The invariant holds of every reachable state.                           *)
THEOREM Invariance == Spec => []IInv
BY InitInv, StepInv, PTL DEF Spec

(* Every variable of the model keeps its type, whatever the function.      *)
THEOREM TypeCorrect == Spec => []TypeOK
<1>1. IInv => TypeOK
    BY DEF IInv, Walking, Ordering, Coloring, Running, TypeOK
<1>2. QED
    BY <1>1, Invariance, PTL

(* The graph built by src/lir/regalloc/gc/ig.c has an edge for exactly the *)
(* nodes that clash, whatever the function.                                *)
THEOREM GraphIsExact == Spec => []EdgesAreClashes
<1>1. IInv => EdgesAreClashes
    BY DEF IInv
<1>2. QED
    BY <1>1, Invariance, PTL

(* Whatever the function, the number of registers and the path, what is    *)
(* read is what was last written: graph, colouring and the places of       *)
(* src/lir/selector/x86_64_gnu_nasm/mem.c never let a value be lost.       *)
THEOREM NoValueIsLost == Spec => []ReadsFindTheirValue
<1>1. IInv => ReadsFindTheirValue
    <2> SUFFICES ASSUME IInv, phase = "run", pc < Len(prog.code[at]),
                        NEW v \in InstUse(prog.code[at][pc + 1]), v \in written
                 PROVE  v \in intact
        BY DEF ReadsFindTheirValue
    <2>1. v \in LiveAfter(prog, out, at, pc)
        BY LiveBefore DEF IInv, Running
    <2>2. QED
        BY <2>1 DEF IInv, Running
<1>2. QED
    BY <1>1, Invariance, PTL
-----------------------------------------------------------------------------
(* How a node comes to memory.  No node is lost between the two loops of   *)
(* LIR_RA_color_igraph: it is on the stack, or coloured, or still to be    *)
(* pushed; and a colour that was chosen is no greater than the number of   *)
(* neighbours, because each lower colour belongs to one of them.           *)
Reached ==
    /\ phase = "push" =>
        /\ \A v \in Nodes : v \in processed => color[v] >= 0 \/ \E i \in 1 .. Len(stack) : stack[i] = v
        /\ \A v \in Nodes : degree[v] <= Cardinality(Nodes)
    /\ phase = "pop" =>
        \A v \in Nodes : color[v] >= 0 \/ \E i \in 1 .. Len(stack) : stack[i] = v
    /\ phase = "run" => \A v \in Nodes : color[v] >= 0

LowColors ==
    \A v \in Nodes : layout.reg[v] = None => color[v] <= Cardinality(graph[v])

(* A set of natural numbers that is not empty has a least one.             *)
LEMMA LeastNat ==
    ASSUME NEW T, T \subseteq Nat, T # {}
    PROVE  \E x \in T : \A y \in T : x <= y
<1> DEFINE R == {p \in Nat \X Nat : p[1] < p[2]}
<1>1. IsWellFoundedOn(R, Nat)
    BY NatLessThanWellFounded DEF OpToRel
<1>2. PICK x \in T : \A y \in T : ~(<<y, x>> \in R)
    BY <1>1, WFMin
<1>3. \A y \in T : ~(y < x)
    BY <1>2
<1>4. QED
    BY <1>3

LEMMA NodesAreFinite ==
    ASSUME IInv
    PROVE  /\ Nodes \subseteq Var /\ IsFiniteSet(Nodes) /\ Cardinality(Nodes) \in Nat
           /\ \A v \in Nodes : /\ IsFiniteSet(graph[v]) /\ Cardinality(graph[v]) \in Nat
                               /\ Cardinality(graph[v]) <= Cardinality(Nodes)
<1>1. Nodes \subseteq Var
    BY DEF Nodes
<1>2. IsFiniteSet(Nodes) /\ Cardinality(Nodes) \in Nat
    BY <1>1, VarAssumption, FS_Subset, FS_CardinalityType
<1>3. ASSUME NEW v \in Nodes
      PROVE  /\ IsFiniteSet(graph[v]) /\ Cardinality(graph[v]) \in Nat
             /\ Cardinality(graph[v]) <= Cardinality(Nodes)
    <2>1. graph[v] \in SUBSET Nodes
        BY DEF IInv, Walking
    <2>2. QED
        BY <1>2, <2>1, FS_Subset, FS_CardinalityType
<1>4. QED
    BY <1>1, <1>2, <1>3

(* While a node is left one of them has the greatest degree.               *)
LEMMA SomeMaxDegree ==
    ASSUME IInv, Reached, phase = "push", Nodes \ processed # {}
    PROVE  MaxDegree # {}
<1> DEFINE left == Nodes \ processed
           N == Cardinality(Nodes)
           T == {N - degree[v] : v \in left}
<1>1. N \in Nat /\ \A v \in left : degree[v] \in Int /\ degree[v] <= N
    BY NodesAreFinite DEF IInv, Ordering, Reached
<1>2. T \subseteq Nat /\ T # {}
    BY <1>1
<1>3. PICK x \in T : \A y \in T : x <= y
    BY <1>2, LeastNat
<1>4. PICK v \in left : x = N - degree[v]
    BY <1>3
<1>5. ASSUME NEW w \in left PROVE degree[w] <= degree[v]
    <2>1. N - degree[v] <= N - degree[w]
        BY <1>3, <1>4
    <2>2. QED
        BY <1>1, <2>1
<1>6. QED
    BY <1>5 DEF MaxDegree

(* The lowest colour that is free is at most the number of neighbours.     *)
LEMMA FreeIsLow ==
    ASSUME IInv, NEW v \in Nodes, NEW c \in Nat, Free(v, c)
    PROVE  c <= Cardinality(graph[v])
<1>1. IsFiniteSet(graph[v]) /\ Cardinality(graph[v]) \in Nat
    BY NodesAreFinite
<1> DEFINE f == [w \in graph[v] |-> color[w]]
<1>2. f \in Surjection(graph[v], UsedColors(v))
    BY DEF UsedColors, Surjection
<1>3. IsFiniteSet(UsedColors(v)) /\ Cardinality(UsedColors(v)) <= Cardinality(graph[v])
    BY <1>1, <1>2, FS_Surjection
<1>4. 0 .. (c - 1) \in SUBSET UsedColors(v)
    BY DEF Free
<1>5. Cardinality(0 .. (c - 1)) <= Cardinality(UsedColors(v))
    BY <1>3, <1>4, FS_Subset
<1>6. Cardinality(0 .. (c - 1)) = c
    BY FS_Interval
<1>7. Cardinality(UsedColors(v)) \in Nat
    BY <1>3, FS_CardinalityType
<1>8. QED
    BY <1>1, <1>3, <1>5, <1>6, <1>7

LEMMA CrowdedInit == Init => Reached /\ LowColors
<1> SUFFICES ASSUME Init PROVE Reached /\ LowColors
    OBVIOUS
<1>1. phase = "graph" /\ \A v \in Nodes : layout.reg[v] = None => color[v] = None
    BY DEF Init, Nodes
<1>2. \A v \in Nodes : Cardinality(graph[v]) \in Nat
    BY InitInv, NodesAreFinite
<1>3. QED
    BY <1>1, <1>2 DEF Reached, LowColors, None

LEMMA CrowdedPush ==
    ASSUME IInv, Reached, LowColors, Push
    PROVE  Reached' /\ LowColors'
<1>1. PICK v \in MaxDegree :
        /\ stack' = Append(stack, v)
        /\ processed' = processed \union {v}
        /\ degree' = [w \in Nodes |->
                        IF w \in graph[v] \ processed' THEN degree[w] - 1 ELSE degree[w]]
    BY DEF Push
<1>2. /\ phase = "push" /\ phase' = "push" /\ UNCHANGED <<layout, graph, color>> /\ Nodes' = Nodes
    BY DEF Push, input, walk, Nodes
<1>3. v \in Nodes /\ stack \in Seq(Nodes)
    BY DEF MaxDegree, IInv, Ordering
<1>4. ASSUME NEW w \in Nodes, w \in processed'
      PROVE  color[w] >= 0 \/ \E i \in 1 .. Len(stack') : stack'[i] = w
    <2>1. CASE w = v
        <3>1. Len(stack) + 1 \in 1 .. Len(stack') /\ stack'[Len(stack) + 1] = w
            BY <1>1, <1>3, <2>1
        <3>2. QED
            BY <3>1
    <2>2. CASE w # v
        <3>1. color[w] >= 0 \/ \E i \in 1 .. Len(stack) : stack[i] = w
            BY <1>1, <1>2, <1>4, <2>2 DEF Reached
        <3>2. \A i \in 1 .. Len(stack) : i \in 1 .. Len(stack') /\ stack'[i] = stack[i]
            BY <1>1, <1>3
        <3>3. QED
            BY <3>1, <3>2
    <2>3. QED
        BY <2>1, <2>2
<1>5. ASSUME NEW w \in Nodes PROVE degree'[w] <= Cardinality(Nodes)
    <2>1. degree[w] \in Int /\ degree[w] <= Cardinality(Nodes) /\ Cardinality(Nodes) \in Nat
        BY <1>2, NodesAreFinite DEF IInv, Ordering, Reached
    <2>2. QED
        BY <1>1, <2>1
<1>6. QED
    BY <1>2, <1>4, <1>5 DEF Reached, LowColors

LEMMA CrowdedPop ==
    ASSUME IInv, Reached, LowColors, Pop
    PROVE  Reached' /\ LowColors'
<1> DEFINE v == stack[Len(stack)]
<1>1. /\ phase = "pop" /\ phase' = "pop" /\ stack # <<>>
      /\ stack' = SubSeq(stack, 1, Len(stack) - 1)
      /\ UNCHANGED <<layout, graph>> /\ Nodes' = Nodes
    BY DEF Pop, input, walk, Nodes
<1>2. v \in Nodes /\ v \in Var /\ stack \in Seq(Nodes) /\ color \in [Var -> Int] /\ Nodes \subseteq Var
    BY <1>1 DEF IInv, Ordering, Coloring, Nodes
<1>3. /\ color' \in [Var -> Int] /\ \A w \in Var : w # v => color'[w] = color[w]
      /\ color'[v] >= 0
      /\ color'[v] <= Cardinality(graph[v]) \/ color'[v] = color[v]
    <2>1. CASE color[v] >= 0
        BY <1>2, <2>1 DEF Pop
    <2>2. CASE ~(color[v] >= 0)
        <3>1. PICK c \in 0..(Cardinality(graph[v]) + 1) :
                Free(v, c) /\ color' = [color EXCEPT ![v] = c]
            BY <2>2 DEF Pop
        <3>2. c \in Nat
            OBVIOUS
        <3> HIDE DEF v
        <3>3. c <= Cardinality(graph[v])
            BY <1>2, <3>1, <3>2, FreeIsLow
        <3>4. QED
            BY <1>2, <3>1, <3>2, <3>3
    <2>3. QED
        BY <2>1, <2>2
<1>4. ASSUME NEW w \in Nodes
      PROVE  color'[w] >= 0 \/ \E i \in 1 .. Len(stack') : stack'[i] = w
    <2>1. color[w] >= 0 \/ \E i \in 1 .. Len(stack) : stack[i] = w
        BY <1>1 DEF Reached
    <2>2. CASE w = v
        BY <1>3, <2>2
    <2>3. CASE w # v
        <3>1. color'[w] = color[w]
            BY <1>2, <1>3, <2>3
        <3>2. ASSUME NEW i \in 1 .. Len(stack), stack[i] = w
              PROVE  i \in 1 .. Len(stack') /\ stack'[i] = w
            <4>1. Len(stack) \in Nat /\ i # Len(stack)
                BY <1>2, <2>3, <3>2
            <4>2. QED
                BY <1>1, <1>2, <3>2, <4>1
        <3>3. QED
            BY <2>1, <3>1, <3>2
    <2>4. QED
        BY <2>2, <2>3
<1>5. ASSUME NEW w \in Nodes, layout.reg[w] = None
      PROVE  color'[w] <= Cardinality(graph[w])
    <2>1. color[w] <= Cardinality(graph[w])
        BY <1>5 DEF LowColors
    <2>2. QED
        BY <1>2, <1>3, <2>1
<1>6. QED
    BY <1>1, <1>4, <1>5 DEF Reached, LowColors

LEMMA CrowdedStep == IInv /\ Reached /\ LowColors /\ [Next]_vars => Reached' /\ LowColors'
<1> SUFFICES ASSUME IInv, IInv', Reached, LowColors, [Next]_vars PROVE Reached' /\ LowColors'
    BY StepInv
<1>1. CASE Walk \/ NextBlock
    <2>1. phase = "graph" /\ phase' = "graph" /\ UNCHANGED <<layout, color>> /\ Nodes' = Nodes
        BY <1>1 DEF Walk, NextBlock, input, Nodes
    <2>2. \A v \in Nodes : layout.reg[v] = None => color[v] = None
        BY <2>1 DEF IInv, Coloring, Nodes
    <2>3. \A v \in Nodes : Cardinality(graph'[v]) \in Nat
        <3>1. \A v \in Nodes : graph'[v] \in SUBSET Nodes
            BY <2>1 DEF IInv, Walking
        <3>2. QED
            BY <3>1, NodesAreFinite, FS_Subset, FS_CardinalityType
    <2>4. QED
        BY <2>1, <2>2, <2>3 DEF Reached, LowColors, None
<1>2. CASE GraphDone
    <2>1. /\ phase = "graph" /\ phase' = "push" /\ UNCHANGED <<layout, graph, color>> /\ Nodes' = Nodes
          /\ degree' = [v \in Nodes |-> Cardinality(graph[v])]
          /\ processed' = {v \in Nodes : color[v] >= 0}
        BY <1>2 DEF GraphDone, input, walk, Nodes
    <2>2. \A v \in Nodes : degree'[v] <= Cardinality(Nodes)
        BY <2>1, NodesAreFinite
    <2>3. QED
        BY <2>1, <2>2 DEF Reached, LowColors
<1>3. CASE Push
    BY <1>3, CrowdedPush
<1>4. CASE PushDone
    <2>1. /\ phase = "push" /\ MaxDegree = {} /\ phase' = "pop"
          /\ UNCHANGED <<layout, graph, color, processed, stack>> /\ Nodes' = Nodes
        BY <1>4 DEF PushDone, input, walk, order, Nodes
    <2>2. Nodes \ processed = {}
        BY <2>1, SomeMaxDegree
    <2>3. QED
        BY <2>1, <2>2 DEF Reached, LowColors
<1>5. CASE Pop
    BY <1>5, CrowdedPop
<1>6. CASE PopDone
    <2>1. /\ phase = "pop" /\ stack = <<>> /\ phase' = "run"
          /\ UNCHANGED <<layout, graph, color>> /\ Nodes' = Nodes
        BY <1>6 DEF PopDone, input, walk, Nodes
    <2>2. \A v \in Nodes : color[v] >= 0
        BY <2>1 DEF Reached
    <2>3. QED
        BY <2>1, <2>2 DEF Reached, LowColors
<1>7. CASE Execute \/ Jump
    <2>1. phase = "run" /\ phase' = "run" /\ UNCHANGED <<layout, graph, color>> /\ Nodes' = Nodes
        BY <1>7 DEF Execute, Jump, input, walk, Nodes
    <2>2. QED
        BY <2>1 DEF Reached, LowColors
<1>8. CASE UNCHANGED vars
    <2>1. UNCHANGED <<phase, layout, graph, color, processed, degree, stack>> /\ Nodes' = Nodes
        BY <1>8 DEF vars, input, walk, order, Nodes
    <2>2. QED
        BY <2>1 DEF Reached, LowColors
<1>9. QED
    BY <1>1, <1>2, <1>3, <1>4, <1>5, <1>6, <1>7, <1>8 DEF Next, Allocate

(* A node ends in memory only if it has as many neighbours as there are    *)
(* registers, whatever the function and whichever node of the greatest     *)
(* degree gc.c takes first: the colouring spills nothing that the simple   *)
(* bound of its graph lets it keep.                                        *)
THEOREM SpillsOnlyWhenCrowded == Spec => []MemoryOnlyWhenCrowded
<1>1. IInv /\ Reached /\ LowColors => MemoryOnlyWhenCrowded
    <2> SUFFICES ASSUME IInv, Reached, LowColors, phase = "run",
                        NEW v \in Nodes, Place(v)[1] = "memory"
                 PROVE  Cardinality(graph[v]) >= K
        BY DEF MemoryOnlyWhenCrowded
    <2>1. layout.reg[v] = None /\ color[v] \notin 0..(K - 1)
        BY DEF Place
    <2>2. color[v] >= 0 /\ color[v] <= Cardinality(graph[v]) /\ color[v] \in Int
        BY <2>1 DEF Reached, LowColors, IInv, Coloring, Nodes
    <2>3. Cardinality(graph[v]) \in Nat /\ K \in Nat
        BY NodesAreFinite, RegistersAssumption
    <2>4. QED
        BY <2>1, <2>2, <2>3
<1>2. Spec => [](Reached /\ LowColors)
    BY CrowdedInit, CrowdedStep, Invariance, PTL DEF Spec
<1>3. QED
    BY <1>1, <1>2, Invariance, PTL
=============================================================================
