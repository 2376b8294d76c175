------------------------------- MODULE Liveness -------------------------------
(***************************************************************************)
(* Liveness analysis of one function (src/lir/dfg/dfg.c).  The use and def *)
(* sets of a block are gathered in one pass over its instructions; then    *)
(* out and in are recomputed for all blocks, from the last of fb->blocks   *)
(* to the first, until a pass changes nothing.                             *)
(*                                                                         *)
(* curr_in and curr_out are updated in place, so a block sees what this    *)
(* pass has computed for the blocks behind it in the list and what the     *)
(* last pass left for the others.                                          *)
(***************************************************************************)
EXTENDS LirBlocks

VARIABLES
    liveProg,           \* the function
    livePhase,          \* "usedef", "flow" or "done"
    liveBb,             \* the block of the running loop
    liveInst,           \* instructions of it already gathered
    use, def,           \* bb->use, bb->def
    currIn, currOut,    \* bb->curr_in, bb->curr_out
    prevIn, prevOut     \* bb->prev_in, bb->prev_out

flow     == <<currIn, currOut, prevIn, prevOut>>
liveVars == <<liveProg, livePhase, liveBb, liveInst, use, def, flow>>

Nowhere == [b \in Block |-> {}]

LiveInit ==
    /\ liveProg \in Programs
    /\ livePhase = "usedef" /\ liveBb = 1 /\ liveInst = 0
    /\ use = Nowhere /\ def = Nowhere
    /\ currIn = Nowhere /\ currOut = Nowhere /\ prevIn = Nowhere /\ prevOut = Nowhere

(* LIR_DFG_compute_usedef: a read counts unless the block wrote before.    *)
UseDef ==
    /\ livePhase = "usedef" /\ liveBb <= NB /\ liveInst < Len(liveProg.code[liveBb])
    /\ liveInst' = liveInst + 1
    /\ use' = [use EXCEPT ![liveBb] = @ \union (InstUse(liveProg.code[liveBb][liveInst']) \ def[liveBb])]
    /\ def' = [def EXCEPT ![liveBb] = @ \union InstDef(liveProg.code[liveBb][liveInst'])]
    /\ UNCHANGED <<liveProg, livePhase, liveBb, flow>>

UseDefNextBlock ==
    /\ livePhase = "usedef" /\ liveBb <= NB /\ liveInst = Len(liveProg.code[liveBb])
    /\ liveBb' = liveBb + 1 /\ liveInst' = 0
    /\ UNCHANGED <<liveProg, livePhase, use, def, flow>>

UseDefDone ==
    /\ livePhase = "usedef" /\ liveBb = NB + 1
    /\ livePhase' = "flow" /\ liveBb' = NB
    /\ UNCHANGED <<liveProg, liveInst, use, def, flow>>

ComputeOut(b) == UNION {currIn[s] : s \in liveProg.succ[b]}
ComputeIn(b, o) == use[b] \union (o \ def[b])

(* One block of a pass: _compute_out, then _compute_in.                    *)
Compute ==
    /\ livePhase = "flow" /\ liveBb > 0
    /\ LET o == ComputeOut(liveBb)
       IN  /\ currOut' = [currOut EXCEPT ![liveBb] = o]
           /\ currIn'  = [currIn EXCEPT ![liveBb] = ComputeIn(liveBb, o)]
    /\ liveBb' = liveBb - 1
    /\ UNCHANGED <<liveProg, livePhase, liveInst, use, def, prevIn, prevOut>>

SameOut == currOut = prevOut
Same == currIn = prevIn /\ currOut = prevOut

AgainSwapped ==
    /\ livePhase = "flow" /\ liveBb = 0 /\ ~Same
    /\ prevIn' = currIn /\ prevOut' = currOut
    /\ currIn' = prevIn /\ currOut' = prevOut
    /\ liveBb' = NB
    /\ UNCHANGED <<liveProg, livePhase, liveInst, use, def>>
AgainUncopied ==
    /\ livePhase = "flow" /\ liveBb = 0 /\ ~Same
    /\ liveBb' = NB
    /\ UNCHANGED <<liveProg, livePhase, liveInst, use, def, flow>>
Again ==
    /\ livePhase = "flow" /\ liveBb = 0 /\ ~Same
    /\ prevIn' = currIn /\ prevOut' = currOut
    /\ liveBb' = NB
    /\ UNCHANGED <<liveProg, livePhase, liveInst, use, def, currIn, currOut>>

DonePast ==
    /\ livePhase = "flow" /\ liveBb = 0 /\ Same
    /\ livePhase' = "done" /\ liveBb' = liveBb - 1
    /\ UNCHANGED <<liveProg, liveInst, use, def, flow>>
Done ==
    /\ livePhase = "flow" /\ liveBb = 0 /\ Same
    /\ livePhase' = "done"
    /\ UNCHANGED <<liveProg, liveBb, liveInst, use, def, flow>>

LiveNext == UseDef \/ UseDefNextBlock \/ UseDefDone \/ Compute \/ Again \/ Done

LiveSpec     == LiveInit /\ [][LiveNext]_liveVars
LiveFairSpec == LiveSpec /\ WF_liveVars(LiveNext)
-----------------------------------------------------------------------------
(* curr_in and its like: what each block has.                              *)
BlockVars == [Block -> SUBSET Var]

LiveTypeOK ==
    /\ livePhase \in {"usedef", "flow", "done"}
    /\ liveBb \in 0..(NB + 1) /\ liveInst \in Nat
    /\ use \in BlockVars /\ def \in BlockVars
    /\ currIn \in BlockVars /\ currOut \in BlockVars
    /\ prevIn \in BlockVars /\ prevOut \in BlockVars

(* When the analysis ends, the variables at the start and at the end of a  *)
(* block are exactly those that some way on from there reads before it     *)
(* writes them.  A variable missing would have its register given away, a  *)
(* variable too many would hold one for nothing; either would show only in *)
(* a function whose edges run against the order of its blocks.             *)
LiveExact ==
    livePhase = "done" =>
        \A b \in Block :
            currIn[b] = LiveAtStart(liveProg, b) /\ currOut[b] = LiveAtEnd(liveProg, b)

(* No pass ever takes a variable back: what the loop compares can only     *)
(* grow, which is why it ends.                                             *)
OnlyGrows == [][\A b \in Block : currIn[b] \subseteq currIn'[b] /\ currOut[b] \subseteq currOut'[b]]_liveVars

(* The loop ends, whatever the edges and the order of the blocks.          *)
Terminates == <>(livePhase = "done")
=============================================================================
