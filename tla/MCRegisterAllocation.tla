------------------------- MODULE MCRegisterAllocation -------------------------
(***************************************************************************)
(* TLC instance of the register allocator and of the liveness analysis it  *)
(* rests on.  A run takes one of the two, each on functions of its own;    *)
(* the other stands finished on a function without instructions.           *)
(***************************************************************************)
EXTENDS RegisterAllocation, Liveness

VARIABLE pass       \* "allocation" or "liveness"

allVars == <<pass, vars, liveVars>>

(* Two variables that nothing tells apart are named in their order: v      *)
(* before w.                                                               *)
NamedInOrder(is, v, w) ==
    LET Names(i) == is[i].farg \union is[i].sarg
    IN  \A i \in 1..Len(is) : w \in Names(i) => \E j \in 1..i : v \in Names(j)

(* Allocation: the first variable may have no node, or be bound to a       *)
(* register, regular or not.                                               *)
Read(v) == [op |-> "read", farg |-> {}, sarg |-> {v}, targ |-> {}]
Write(v) == [op |-> "write", farg |-> {v}, sarg |-> {}, targ |-> {}]
Move(v, w) == [op |-> "phi", farg |-> {v}, sarg |-> {w}, targ |-> {}]

MCInstruction == {Read(v) : v \in Var} \union {Write(v) : v \in Var}
                 \union {Move(v, w) : v, w \in Var}

(* One block of three instructions, alone or looping.                      *)
OneBlock ==
    [code : {<<a, <<>>, <<>>>> : a \in {a \in [1 .. 3 -> MCInstruction] : NamedInOrder(a, 2, 3)}},
     succ : {<<s, {}, {}>> : s \in {{}, {1}}}]

(* Two blocks of two reads or writes: a loop of the two, and a loop that   *)
(* is left.                                                                *)
TwoBlocks ==
    LET Simple == {Read(v) : v \in Var} \union {Write(v) : v \in Var}
        Two == {c \in [1 .. 4 -> Simple] : NamedInOrder(c, 2, 3)}
    IN  [code : {<<SubSeq(c, 1, 2), SubSeq(c, 3, 4), <<>>>> : c \in Two},
         succ : {<<{2}, {1}, {}>>, <<{1, 2}, {}, {}>>}]

AllocatedPrograms == OneBlock \union TwoBlocks

Free1 == [no_node |-> {}, reg |-> [v \in Var |-> None]]
MCLayouts ==
    {Free1, [Free1 EXCEPT !.no_node = {1}]}
    \union {[Free1 EXCEPT !.reg[1] = r] : r \in {0, K}}
-----------------------------------------------------------------------------
(* Liveness: instructions that read, write or do both, or are marked       *)
(* unused.                                                                 *)
Unused(V) == [op |-> "unused", farg |-> V, sarg |-> V, targ |-> {}]
Over(V)   == {Unused(V)} \union {Read(v) : v \in V} \union {Write(v) : v \in V}
             \union {Move(v, w) : v, w \in V}

(* One variable, every block of one instruction, and every graph of blocks *)
(* with at most two successors.                                            *)
AllGraphs ==
    [code : [Block -> {<<i>> : i \in {Unused({1}), Read(1), Write(1)}}],
     succ : [Block -> {s \in SUBSET Block : Cardinality(s) =< 2}]]

(* Two variables and two blocks of two instructions: one after the other,  *)
(* a loop of the two, and a loop of either.                                *)
AllBlocks ==
    [code : {<<SubSeq(c, 1, 2), SubSeq(c, 3, 4), <<>>>> :
                 c \in {c \in [1 .. 4 -> Over({1, 2})] : NamedInOrder(c, 1, 2)}},
     succ : {<<{2}, {}, {}>>, <<{2}, {1}, {}>>, <<{1}, {1}, {}>>, <<{2}, {2}, {}>>}]

AnalysedPrograms == AllGraphs \union AllBlocks

MCPrograms == AllocatedPrograms \union AnalysedPrograms
-----------------------------------------------------------------------------
NoInstructions == [code |-> <<<<>>, <<>>, <<>>>>, succ |-> <<{}, {}, {}>>]

NotAllocating ==
    /\ prog = NoInstructions /\ out = Nowhere
    /\ layout = [Free1 EXCEPT !.no_node = Var]
    /\ phase = "run" /\ bb = 1 /\ inst = 0 /\ live = {}
    /\ graph = <<>> /\ degree = <<>> /\ processed = {} /\ stack = <<>>
    /\ color = [v \in Var |-> None]
    /\ at = 1 /\ pc = 0 /\ written = {} /\ intact = {}

NotLiveness ==
    /\ liveProg = NoInstructions /\ livePhase = "done" /\ liveBb = 0 /\ liveInst = 0
    /\ use = Nowhere /\ def = Nowhere
    /\ currIn = Nowhere /\ currOut = Nowhere
    /\ prevIn = Nowhere /\ prevOut = Nowhere

InitBoth ==
    \/ pass = "allocation" /\ prog \in AllocatedPrograms /\ Init /\ NotLiveness
    \/ pass = "liveness" /\ liveProg \in AnalysedPrograms /\ LiveInit /\ NotAllocating

OneAllocates == Allocate /\ UNCHANGED <<pass, liveVars>>
OneRuns      == (Execute \/ Jump) /\ UNCHANGED <<pass, liveVars>>
OneAnalyses  == LiveNext /\ UNCHANGED <<pass, vars>>
NextBoth     == OneAllocates \/ OneRuns \/ OneAnalyses

SpecBoth == InitBoth /\ [][NextBoth]_allVars /\ WF_allVars(OneAllocates \/ OneAnalyses)
-----------------------------------------------------------------------------
(* Of RegisterAllocation (ig.c, gc.c) TypeOK, ReadsFindTheirValue,         *)
(* EdgesAreClashes, MemoryOnlyWhenCrowded and AllColored are checked, of   *)
(* Liveness (dfg.c) LiveTypeOK, LiveExact, OnlyGrows and Terminates.       *)
=============================================================================
