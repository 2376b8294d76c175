------------------------------ MODULE FlowGraph ------------------------------
(***************************************************************************)
(* Reference graph theory used by the CFG passes of src/hir.  A flow graph *)
(* is a function succ from blocks to sets of blocks.  The blocks of one    *)
(* function are numbered by their position in fb->blocks; the first one is *)
(* the entry.  Reachability and dominance are stated through closed sets   *)
(* and not through an algorithm: nothing here follows the order of the C   *)
(* code.                                                                   *)
(***************************************************************************)
EXTENDS Naturals

CONSTANT N      \* number of basic blocks of the function

ASSUME NAssumption == N \in Nat \ {0}

Block == 1..N
Entry == 1              \* list_get_head(&fb->blocks)
NULL == 0               \* the null cfg_block_t pointer

Edges == [Block -> SUBSET Block]

(* cb->pred as HIR_CFG_build fills it from cb->succ.                       *)
Mirror(succ) == [b \in Block |-> {p \in Block : b \in succ[p]}]

(* S is closed under the edges of succ that avoid block d.                 *)
ClosedAvoiding(succ, S, d) == \A x \in S : succ[x] \ {d} \subseteq S

(* d dominates b: some set closed under the edges that avoid d holds the   *)
(* entry but not b, so that no path from the entry reaches b without d.    *)
(* An unreachable block is dominated by every block.                       *)
Dominates(succ, d, b) ==
    \E S \in SUBSET (Block \ {d}) :
        /\ d # Entry => Entry \in S
        /\ ClosedAvoiding(succ, S, d)
        /\ b \notin S

Dominators(succ, b)       == {d \in Block : Dominates(succ, d, b)}
StrictDominators(succ, b) == Dominators(succ, b) \ {b}

(* b is reachable: every closed set that holds the entry holds b.          *)
Reachable(succ, b) ==
    \A S \in SUBSET Block :
        (Entry \in S /\ \A x \in S : succ[x] \subseteq S) => b \in S

ReachableBlocks(succ) == {b \in Block : Reachable(succ, b)}

(* The immediate dominator: the strict dominator that every other strict   *)
(* dominator dominates.                                                    *)
IsImmediateDominator(succ, d, b) ==
    /\ d \in StrictDominators(succ, b)
    /\ \A e \in StrictDominators(succ, b) : Dominates(succ, e, d)

(* The dominance frontier: b dominates a predecessor of f, but not f       *)
(* strictly.                                                               *)
Frontier(succ, b) ==
    {f \in Block :
        /\ \E p \in Block : f \in succ[p] /\ Reachable(succ, p) /\ Dominates(succ, b, p)
        /\ b \notin StrictDominators(succ, f)}

(* The blocks HIR_CFG_finalize_before_dom looks for: no predecessor, and   *)
(* not the entry.                                                          *)
Orphans(succ) == {b \in Block \ {Entry} : \A p \in Block : b \notin succ[p]}
=============================================================================
