------------------------------ MODULE Dominance ------------------------------
(***************************************************************************)
(* HIR_CFG_create_domdata (src/hir/cfg/dom.c) on one function: the round-  *)
(* robin computation of the dominator sets, the immediate dominator of     *)
(* each block (called sdom in the code), the dominator tree threaded       *)
(* through dom_c / dom_s, and the recursive dominance frontiers.           *)
(*                                                                         *)
(* One action is one iteration of one of the C loops, or one entry to or   *)
(* one return from _compute_domf_rec.  A definition that stands directly   *)
(* in front of another with the same parameters and is used by none is a   *)
(* faulty variant of it, named in PROJECT.json, that shows that the        *)
(* properties can fail.                                                    *)
(***************************************************************************)
EXTENDS FlowGraph, Sequences

CONSTANT FlowGraphs     \* the flow graphs the passes may be given

ASSUME FlowGraphsAssumption == FlowGraphs \subseteq Edges

VARIABLES
    domSucc,    \* cb->succ, fixed while the dominance data is computed
    doms,       \* cb->dom
    sdom,       \* cb->sdom
    domC,       \* cb->dom_c, the first child in the dominator tree
    domS,       \* cb->dom_s, the next sibling
    domf,       \* cb->domf
    domPhase,   \* the loop that runs
    domAt,      \* its current block
    changed,    \* `changed` of HIR_CFG_compute_dom
    stack       \* the activations of _compute_domf_rec, innermost last

domVars == <<domSucc, doms, sdom, domC, domS, domf, domPhase, domAt, changed, stack>>

domPred == Mirror(domSucc)

(* Every set but the entry's starts as the set of all blocks.              *)
InitialDomSelf(b) == {b}
InitialDom(b) == IF b = Entry THEN {Entry} ELSE Block

DomInit ==
    /\ domSucc \in FlowGraphs
    /\ doms = [b \in Block |-> InitialDom(b)]
    /\ sdom = [b \in Block |-> NULL]
    /\ domC = [b \in Block |-> NULL]
    /\ domS = [b \in Block |-> NULL]
    /\ domf = [b \in Block |-> {}]
    /\ domPhase = "dom" /\ domAt = 2 /\ changed = FALSE
    /\ stack = <<>>

(* `nd`: the intersection over the predecessors, or nothing when there is  *)
(* none, with the block itself.                                            *)
NewDomWithoutSelf(b) ==
    {d \in Block : domPred[b] # {} /\ \A p \in domPred[b] : d \in doms[p]}
NewDom(b) ==
    {b} \union {d \in Block : domPred[b] # {} /\ \A p \in domPred[b] : d \in doms[p]}

SweepBlock ==
    /\ domPhase = "dom" /\ domAt \in Block
    /\ doms' = [doms EXCEPT ![domAt] = NewDom(domAt)]
    /\ changed' = (changed \/ NewDom(domAt) # doms[domAt])
    /\ domAt' = domAt + 1
    /\ UNCHANGED <<domSucc, sdom, domC, domS, domf, domPhase, stack>>

SweepAgainNoReset ==
    /\ domPhase = "dom" /\ domAt = N + 1 /\ changed
    /\ domAt' = 2
    /\ UNCHANGED <<domSucc, doms, sdom, domC, domS, domf, domPhase, changed, stack>>
SweepAgain ==
    /\ domPhase = "dom" /\ domAt = N + 1 /\ changed
    /\ domAt' = 2 /\ changed' = FALSE
    /\ UNCHANGED <<domSucc, doms, sdom, domC, domS, domf, domPhase, stack>>

SweepOnce ==
    /\ domPhase = "dom" /\ domAt = N + 1
    /\ domPhase' = "sdom" /\ domAt' = 2
    /\ UNCHANGED <<domSucc, doms, sdom, domC, domS, domf, changed, stack>>
SweepDone ==
    /\ domPhase = "dom" /\ domAt = N + 1 /\ ~changed
    /\ domPhase' = "sdom" /\ domAt' = 2
    /\ UNCHANGED <<domSucc, doms, sdom, domC, domS, domf, changed, stack>>

(* A strict dominator that no third dominator is dominated by.  The C loop *)
(* takes the first one in the hash order of cb->dom: any of them.          *)
AnyStrict(b) == doms[b] \ {b}
InnermostDom(b) ==
    {d \in doms[b] \ {b} : \A e \in doms[b] \ {b, d} : d \notin doms[e]}

SdomBlock ==
    /\ domPhase = "sdom" /\ domAt \in Block
    /\ IF InnermostDom(domAt) = {}
       THEN sdom' = [sdom EXCEPT ![domAt] = NULL]
       ELSE \E d \in InnermostDom(domAt) : sdom' = [sdom EXCEPT ![domAt] = d]
    /\ domAt' = domAt + 1
    /\ UNCHANGED <<domSucc, doms, domC, domS, domf, domPhase, changed, stack>>

SdomDoneFromZero ==
    /\ domPhase = "sdom" /\ domAt = N + 1
    /\ domPhase' = "tree" /\ domAt' = 0
    /\ UNCHANGED <<domSucc, doms, sdom, domC, domS, domf, changed, stack>>
SdomDone ==
    /\ domPhase = "sdom" /\ domAt = N + 1
    /\ domPhase' = "tree" /\ domAt' = 1
    /\ UNCHANGED <<domSucc, doms, sdom, domC, domS, domf, changed, stack>>

(* _build_domtree pushes the block in front of its dominator's children.   *)
TreeBlock ==
    /\ domPhase = "tree" /\ domAt \in Block
    /\ IF sdom[domAt] \in {NULL, domAt}
       THEN UNCHANGED <<domS, domC>>
       ELSE /\ domS' = [domS EXCEPT ![domAt] = domC[sdom[domAt]]]
            /\ domC' = [domC EXCEPT ![sdom[domAt]] = domAt]
    /\ domAt' = domAt + 1
    /\ UNCHANGED <<domSucc, doms, sdom, domf, domPhase, changed, stack>>

(* _compute_domf_rec(b): first the successors b is not the sdom of.        *)
Local(b) == {s \in domSucc[b] : sdom[s] # b}

DomFrame == [block : Block, child : Block \union {NULL}]

Activate(b, outer) ==
    /\ domf' = [domf EXCEPT ![b] = @ \union Local(b)]
    /\ stack' = Append(outer, [block |-> b, child |-> domC[b]])

TopFrame == stack[Len(stack)]
OuterFrames == SubSeq(stack, 1, Len(stack) - 1)

DomTreeDone ==
    /\ domPhase = "tree" /\ domAt = N + 1
    /\ domPhase' = "domf"
    /\ Activate(Entry, <<>>)
    /\ UNCHANGED <<domSucc, doms, sdom, domC, domS, domAt, changed>>

Descend ==
    /\ domPhase = "domf" /\ stack # <<>> /\ TopFrame.child # NULL
    /\ Activate(TopFrame.child, stack)
    /\ UNCHANGED <<domSucc, doms, sdom, domC, domS, domPhase, domAt, changed>>

(* The call for child c of b returns: b takes what c leaves over, and goes *)
(* on to c's sibling.                                                      *)
UpNothing(b, c) == {}
Up(b, c) == {w \in domf[c] : sdom[w] # b}

DomfReturn ==
    /\ domPhase = "domf" /\ Len(stack) > 1 /\ TopFrame.child = NULL
    /\ LET c == TopFrame.block
           b == stack[Len(stack) - 1].block
       IN  /\ domf' = [domf EXCEPT ![b] = @ \union Up(b, c)]
           /\ stack' = [OuterFrames EXCEPT ![Len(stack) - 1] = [block |-> b, child |-> domS[c]]]
    /\ UNCHANGED <<domSucc, doms, sdom, domC, domS, domPhase, domAt, changed>>

DomfDone ==
    /\ domPhase = "domf" /\ Len(stack) = 1 /\ TopFrame.child = NULL
    /\ domPhase' = "done" /\ stack' = <<>>
    /\ UNCHANGED <<domSucc, doms, sdom, domC, domS, domf, domAt, changed>>

DomNext ==
    \/ SweepBlock \/ SweepAgain \/ SweepDone
    \/ SdomBlock \/ SdomDone
    \/ TreeBlock \/ DomTreeDone
    \/ Descend \/ DomfReturn \/ DomfDone

DomSpec == DomInit /\ [][DomNext]_domVars
DomFairSpec == DomSpec /\ WF_domVars(DomNext)
-----------------------------------------------------------------------------
(* The shape of the state: every pointer is null or a block of the         *)
(* function, every set holds only its blocks, every activation is of one.  *)
DomTypeOK ==
    /\ domSucc \in Edges
    /\ doms \in [Block -> SUBSET Block]
    /\ sdom \in [Block -> Block \union {NULL}]
    /\ domC \in [Block -> Block \union {NULL}]
    /\ domS \in [Block -> Block \union {NULL}]
    /\ domf \in [Block -> SUBSET Block]
    /\ domPhase \in {"dom", "sdom", "tree", "domf", "done"}
    /\ domAt \in 1..(N + 1)
    /\ changed \in BOOLEAN
    /\ stack \in Seq(DomFrame)

(* The graphs on which every predecessor-less block has been cut off, as   *)
(* HIR_CFG_finalize_before_dom is meant to leave them.                     *)
OrphansIsolated(g) == \A o \in Orphans(g) : g[o] = {}

(* At no moment of the sweeps does a block lose one of its dominators: the *)
(* in-place update of HIR_CFG_compute_dom, which reads sets other blocks   *)
(* have not refreshed yet, never goes below the greatest solution.         *)
DomKeepsDominators ==
    \A b \in Block \ Orphans(domSucc) : Dominators(domSucc, b) \subseteq doms[b]

(* Once the sweeps stop, the sets hold dominators only: stopping at the    *)
(* first sweep without a change is enough, whatever the list order and     *)
(* however the graph loops.                                                *)
DomHoldsOnlyDominators ==
    domPhase # "dom" => \A b \in Block : \A d \in doms[b] : Dominates(domSucc, d, b)

(* The sdom pointer of every reachable block but the entry is its          *)
(* immediate dominator, and the choice by hash order is no choice.         *)
SdomIsImmediate ==
    domPhase \in {"tree", "domf", "done"} =>
        \A b \in ReachableBlocks(domSucc) \ {Entry} :
            IsImmediateDominator(domSucc, sdom[b], b)

(* The frontier of a reachable block misses no join point: a join missed   *)
(* here is a phi function HIR_SSA_insert_phi never inserts.  When every    *)
(* block is reachable or cut off, no other block is in it either.          *)
FrontierExact ==
    domPhase = "done" =>
        \A b \in ReachableBlocks(domSucc) :
            /\ Frontier(domSucc, b) \subseteq domf[b]
            /\ (\A c \in Block : domSucc[c] # {} => Reachable(domSucc, c)) =>
                   domf[b] \subseteq Frontier(domSucc, b)

(* A dominator set never grows once initialised.                           *)
DomOnlyShrinks == [][\A b \in Block : doms'[b] \subseteq doms[b]]_domVars

(* The while (changed) loop and the recursion end.                         *)
DomTerminates == <>(domPhase = "done")
=============================================================================
