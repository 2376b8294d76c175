--------------------------- MODULE DominanceProofs ---------------------------
(***************************************************************************)
(* What HIR_CFG_create_domdata computes, for every number of blocks and    *)
(* every flow graph: the sets of HIR_CFG_compute_dom only shrink, never    *)
(* lose a dominator of a block that still has predecessors, and hold       *)
(* nothing but dominators when the sweeps stop; sdom is then the immediate *)
(* dominator, the threaded tree holds every child once, and the recursion  *)
(* over it leaves exactly the dominance frontiers.                         *)
(***************************************************************************)
EXTENDS Dominance, FlowGraphProofs

(* A solution of the dominator equations holds only dominators: the blocks *)
(* whose set lacks d are closed under the edges that avoid d.              *)
LEMMA SolutionHoldsOnlyDominators ==
    ASSUME NEW g \in Edges, NEW D \in [Block -> SUBSET Block],
           D[Entry] = {Entry},
           \A b \in Block \ {Entry} : \A d \in D[b] \ {b} :
               \A p \in Block : b \in g[p] => d \in D[p],
           \A b \in Block : b \in D[b],
           NEW b \in Block, NEW d \in D[b]
    PROVE  d \in Dominators(g, b)
<1> DEFINE S == {x \in Block : d \notin D[x]}
<1>1. d \in Block /\ Entry \in Block
  BY NAssumption DEF Block, Entry
<1>2. S \in SUBSET (Block \ {d}) /\ b \notin S
  BY <1>1
<1>3. d # Entry => Entry \in S
  BY <1>1
<1>4. ClosedAvoiding(g, S, d)
  <2> SUFFICES ASSUME NEW x \in S, NEW y \in g[x] \ {d}
               PROVE  y \in S
    BY DEF ClosedAvoiding
  <2>1. y \in Block
    BY DEF Edges
  <2>2. CASE y = Entry
    BY <2>2, <1>1
  <2>3. CASE y # Entry
    BY <2>1, <2>3
  <2> QED
    BY <2>2, <2>3
<1> QED
  BY <1>1, <1>2, <1>3, <1>4 DEF Dominators, Dominates
-----------------------------------------------------------------------------
(* Domination orders the reachable blocks as a tree does.  None of this    *)
(* follows a path: each lemma builds the closed set that contradicts it.   *)

(* The number of dominators grows along the order.                         *)
LEMMA DepthGrows ==
    ASSUME NEW g \in Edges, NEW d \in Block, NEW e \in Block, Reachable(g, e),
           Dominates(g, d, e), d # e
    PROVE  /\ Cardinality(Dominators(g, d)) \in 0..N
           /\ Cardinality(Dominators(g, e)) \in 0..N
           /\ Cardinality(Dominators(g, d)) < Cardinality(Dominators(g, e))
<1>1. /\ Dominators(g, d) \in SUBSET Dominators(g, e)
      /\ e \in Dominators(g, e) /\ e \notin Dominators(g, d)
  BY DominatesTrans, DominatesSelf, DominatesAntisym DEF Dominators
<1>2. IsFiniteSet(Block) /\ Cardinality(Block) = N
  BY BlocksAreFinite
<1>3. ASSUME NEW x \in Block
      PROVE  IsFiniteSet(Dominators(g, x)) /\ Cardinality(Dominators(g, x)) \in 0..N
  <2>1. Dominators(g, x) \in SUBSET Block
    BY DEF Dominators
  <2> QED BY <1>2, <2>1, NAssumption, FS_Subset, FS_CardinalityType
<1>4. /\ Cardinality(Dominators(g, d)) <= Cardinality(Dominators(g, e))
      /\ Cardinality(Dominators(g, d)) # Cardinality(Dominators(g, e))
  BY <1>1, <1>3, FS_Subset
<1> QED
  BY <1>3, <1>4

(* Of some reachable blocks one dominates no other, and one is dominated   *)
(* by no other.                                                            *)
LEMMA DeepestExists ==
    ASSUME NEW g \in Edges, NEW S \in SUBSET ReachableBlocks(g), S # {}
    PROVE  /\ \E d \in S : \A e \in S \ {d} : ~Dominates(g, d, e)
           /\ \E d \in S : \A e \in S \ {d} : ~Dominates(g, e, d)
<1> DEFINE depth(x) == Cardinality(Dominators(g, x))
           up   == {depth(x) : x \in S}
           down == {N - depth(x) : x \in S}
<1>1. \A x \in S : x \in Block /\ Reachable(g, x)
  BY DEF ReachableBlocks
<1>2. \A x \in S : depth(x) \in 0..N
  <2> SUFFICES ASSUME NEW x \in S PROVE depth(x) \in 0..N
    OBVIOUS
  <2>1. IsFiniteSet(Block) /\ Cardinality(Block) = N
    BY BlocksAreFinite
  <2>2. Dominators(g, x) \in SUBSET Block
    BY DEF Dominators
  <2> QED BY <2>1, <2>2, NAssumption, FS_Subset, FS_CardinalityType
<1>3. \A d, e \in S : d # e /\ Dominates(g, d, e) => depth(d) < depth(e)
  BY <1>1, DepthGrows
<1>4. \E d \in S : \A e \in S \ {d} : ~Dominates(g, d, e)
  <2>1. down \subseteq Nat /\ down # {}
    BY <1>2, NAssumption
  <2>2. PICK m \in down : \A y \in down : m <= y
    BY <2>1, LeastNat
  <2>3. PICK d \in S : m = N - depth(d)
    OBVIOUS
  <2>4. \A e \in S : N - depth(d) <= N - depth(e)
    BY <2>2, <2>3
  <2> HIDE DEF depth
  <2>5. \A e \in S : depth(e) <= depth(d)
    BY <2>4, <1>2, NAssumption
  <2> QED BY <1>2, <1>3, <2>5
<1>5. \E d \in S : \A e \in S \ {d} : ~Dominates(g, e, d)
  <2>1. up \subseteq Nat /\ up # {}
    BY <1>2
  <2>2. PICK m \in up : \A y \in up : m <= y
    BY <2>1, LeastNat
  <2>3. PICK d \in S : m = depth(d)
    OBVIOUS
  <2>4. \A e \in S : depth(d) <= depth(e)
    BY <2>2, <2>3
  <2> HIDE DEF depth
  <2> QED BY <1>2, <1>3, <2>4
<1> QED
  BY <1>4, <1>5
-----------------------------------------------------------------------------
(* Every state is well formed: the pointers and the activations of the     *)
(* recursion hold blocks of the function.                                  *)
THEOREM TypeCorrect == DomSpec => []DomTypeOK
<1>1. DomInit => DomTypeOK
  <2> SUFFICES ASSUME DomInit PROVE DomTypeOK
    OBVIOUS
  <2>1. Entry \in Block /\ domAt \in 1..(N + 1)
    BY NAssumption DEF DomInit, Entry, Block
  <2>2. doms \in [Block -> SUBSET Block]
    BY <2>1 DEF InitialDom, DomInit
  <2>3. stack \in Seq(DomFrame)
    BY DEF DomInit
  <2> QED
    BY <2>1, <2>2, <2>3, FlowGraphsAssumption DEF DomInit, DomTypeOK
<1>2. DomTypeOK /\ [DomNext]_domVars => DomTypeOK'
  <2> SUFFICES ASSUME DomTypeOK, [DomNext]_domVars PROVE DomTypeOK'
    OBVIOUS
  <2>0. /\ Entry \in Block
        /\ 1 \in 1..(N + 1) /\ 2 \in 1..(N + 1)
        /\ \A b \in Block : b + 1 \in 1..(N + 1)
    BY NAssumption DEF Entry, Block
  <2>frame. \A b \in Block, c \in Block \union {NULL} : [block |-> b, child |-> c] \in DomFrame
    BY DEF DomFrame
  <2>1. CASE SweepBlock
    <3>1. NewDom(domAt) \in SUBSET Block
      BY <2>1 DEF SweepBlock, NewDom
    <3> QED BY <2>1, <2>0, <3>1 DEF SweepBlock, DomTypeOK
  <2>2. CASE SweepAgain
    BY <2>0, <2>2 DEF SweepAgain, DomTypeOK
  <2>3. CASE SweepDone
    BY <2>0, <2>3 DEF SweepDone, DomTypeOK
  <2>4. CASE SdomBlock
    <3>1. InnermostDom(domAt) \in SUBSET Block
      BY <2>4 DEF SdomBlock, InnermostDom, DomTypeOK
    <3>2. sdom' \in [Block -> Block \union {NULL}]
      BY <2>4, <3>1 DEF SdomBlock, DomTypeOK
    <3> QED BY <2>4, <2>0, <3>2 DEF SdomBlock, DomTypeOK
  <2>5. CASE SdomDone
    BY <2>0, <2>5 DEF SdomDone, DomTypeOK
  <2>6. CASE TreeBlock
    <3>1. CASE sdom[domAt] \in {NULL, domAt}
      BY <2>6, <2>0, <3>1 DEF TreeBlock, DomTypeOK
    <3>2. CASE sdom[domAt] \notin {NULL, domAt}
      <4>1. domAt \in Block /\ sdom[domAt] \in Block
        BY <2>6, <3>2 DEF TreeBlock, DomTypeOK
      <4> QED BY <2>6, <2>0, <3>2, <4>1 DEF TreeBlock, DomTypeOK
    <3> QED BY <3>1, <3>2
  <2>act. ASSUME NEW b \in Block, NEW outer \in Seq(DomFrame), Activate(b, outer)
          PROVE  domf' \in [Block -> SUBSET Block] /\ stack' \in Seq(DomFrame)
    <3>1. Local(b) \in SUBSET Block
      BY DEF Local, DomTypeOK, Edges
    <3>2. [block |-> b, child |-> domC[b]] \in DomFrame
      BY <2>frame DEF DomTypeOK
    <3>3. stack' \in Seq(DomFrame)
      BY <2>act, <3>2 DEF Activate
    <3> QED BY <2>act, <3>1, <3>3 DEF Activate, DomTypeOK
  <2>7. CASE DomTreeDone
    <3>1. <<>> \in Seq(DomFrame)
      OBVIOUS
    <3> QED BY <2>7, <2>0, <2>act, <3>1 DEF DomTreeDone, DomTypeOK
  <2>8. CASE Descend
    <3>1. TopFrame \in DomFrame
      BY <2>8 DEF Descend, TopFrame, DomTypeOK
    <3>2. TopFrame.child \in Block
      BY <2>8, <3>1 DEF Descend, DomFrame
    <3> QED BY <2>8, <2>act, <3>2 DEF Descend, DomTypeOK
  <2>9. CASE DomfReturn
    <3>0. stack \in Seq(DomFrame) /\ Len(stack) \in Nat /\ Len(stack) > 1
      BY <2>9 DEF DomfReturn, DomTypeOK
    <3>1. TopFrame \in DomFrame /\ stack[Len(stack) - 1] \in DomFrame
      BY <3>0 DEF TopFrame
    <3>2. TopFrame.block \in Block /\ stack[Len(stack) - 1].block \in Block
      BY <3>1 DEF DomFrame
    <3>3. OuterFrames \in Seq(DomFrame) /\ Len(stack) - 1 \in 1..Len(OuterFrames)
      BY <3>0 DEF OuterFrames
    <3>4. [block |-> stack[Len(stack) - 1].block, child |-> domS[TopFrame.block]] \in DomFrame
      BY <2>frame, <3>2 DEF DomTypeOK
    <3>5. stack' \in Seq(DomFrame)
      <4> DEFINE f == [block |-> stack[Len(stack) - 1].block, child |-> domS[TopFrame.block]]
      <4>1. [OuterFrames EXCEPT ![Len(stack) - 1] = f] \in Seq(DomFrame)
        <5> HIDE DEF f
        <5> QED BY <3>3, <3>4, ExceptSeq DEF f
      <4> QED BY <2>9, <4>1 DEF DomfReturn
    <3>6. domf' \in [Block -> SUBSET Block]
      BY <2>9, <3>2 DEF Up, DomfReturn, DomTypeOK
    <3> QED BY <2>9, <3>5, <3>6 DEF DomfReturn, DomTypeOK
  <2>10. CASE DomfDone
    <3>1. <<>> \in Seq(DomFrame)
      OBVIOUS
    <3> QED BY <2>10, <3>1 DEF DomfDone, DomTypeOK
  <2>11. CASE UNCHANGED domVars
    BY <2>11 DEF domVars, DomTypeOK
  <2> QED
    BY <2>1, <2>2, <2>3, <2>4, <2>5, <2>6, <2>7, <2>8, <2>9, <2>10, <2>11 DEF DomNext
<1> QED
  BY <1>1, <1>2, PTL DEF DomSpec
-----------------------------------------------------------------------------
(* The invariant of the sweeps.  The sets are above their own equation, so *)
(* that recomputing one can only shrink it; and as long as the running     *)
(* sweep has changed nothing, the blocks it has visited satisfy theirs.    *)
EntryAlone  == doms[Entry] = {Entry}
SelfIn      == \A b \in Block : b \in doms[b]
AboveNewDom == \A b \in Block \ {Entry} : NewDom(b) \subseteq doms[b]
Settled ==
    /\ domPhase = "dom"  => domAt >= 2
    /\ domPhase = "dom" /\ ~changed => \A b \in 2..(domAt - 1) : doms[b] = NewDom(b)
    /\ domPhase # "dom" => \A b \in Block \ {Entry} : doms[b] = NewDom(b)

SweepInv == EntryAlone /\ SelfIn /\ AboveNewDom /\ Settled

(* NewDom is monotone in the dominator sets.                               *)
LEMMA NewDomMonotone ==
    ASSUME NEW b \in Block, UNCHANGED domSucc,
           \A c \in Block : doms'[c] \subseteq doms[c]
    PROVE  NewDom(b)' \subseteq NewDom(b)
BY DEF NewDom, domPred, Mirror

(* A visit to a block only shrinks its set.                                *)
LEMMA SweepShrinks ==
    ASSUME DomTypeOK, AboveNewDom, Settled, SweepBlock
    PROVE  /\ domAt \in Block \ {Entry}
           /\ \A c \in Block : doms'[c] = IF c = domAt THEN NewDom(domAt) ELSE doms[c]
           /\ \A c \in Block : doms'[c] \subseteq doms[c]
<1>1. domAt \in Block \ {Entry}
  BY DEF SweepBlock, Settled, Block, Entry
<1>2. \A c \in Block : doms'[c] = IF c = domAt THEN NewDom(domAt) ELSE doms[c]
  BY DEF SweepBlock, DomTypeOK
<1> QED
  BY <1>1, <1>2 DEF AboveNewDom

(* The invariant of the sweeps holds in every reachable state.             *)
LEMMA SweepInvariant == DomSpec => []SweepInv
<1>1. DomInit => SweepInv
  <2> SUFFICES ASSUME DomInit PROVE SweepInv
    OBVIOUS
  <2>1. /\ domPhase = "dom" /\ domAt = 2
        /\ \A b \in Block : doms[b] = IF b = Entry THEN {Entry} ELSE Block
    BY DEF InitialDom, DomInit
  <2>2. Entry \in Block /\ 2..(2 - 1) = {}
    BY NAssumption DEF Entry, Block
  <2>3. AboveNewDom
    BY <2>1 DEF AboveNewDom, NewDom
  <2> QED
    BY <2>1, <2>2, <2>3 DEF SweepInv, EntryAlone, SelfIn, Settled
<1>2. DomTypeOK /\ SweepInv /\ [DomNext]_domVars => SweepInv'
  <2> SUFFICES ASSUME DomTypeOK, SweepInv, [DomNext]_domVars PROVE SweepInv'
    OBVIOUS
  <2>0. EntryAlone /\ SelfIn /\ AboveNewDom /\ Settled
    BY DEF SweepInv
  <2>1. CASE SweepBlock
    <3>1. /\ domAt \in Block \ {Entry} /\ domAt' = domAt + 1 /\ domPhase = "dom"
          /\ UNCHANGED <<domSucc, domPhase>>
          /\ changed' = (changed \/ NewDom(domAt) # doms[domAt])
          /\ \A c \in Block : doms'[c] = IF c = domAt THEN NewDom(domAt) ELSE doms[c]
          /\ \A c \in Block : doms'[c] \subseteq doms[c]
      BY <2>0, <2>1, SweepShrinks DEF SweepBlock
    <3>2. \A b \in Block : NewDom(b)' \subseteq NewDom(b)
      BY <3>1, NewDomMonotone
    <3>3. EntryAlone'
      BY <2>0, <3>1, NAssumption DEF EntryAlone, Entry, Block
    <3>4. SelfIn'
      BY <2>0, <3>1 DEF SelfIn, NewDom
    <3>5. AboveNewDom'
      BY <2>0, <3>1, <3>2 DEF AboveNewDom
    <3>6. ASSUME ~changed' PROVE \A b \in 2..domAt : doms'[b] = NewDom(b)'
      <4>1. ~changed /\ NewDom(domAt) = doms[domAt]
        BY <3>1, <3>6
      <4>2. doms' = doms
        BY <2>1, <4>1, <3>1 DEF SweepBlock, DomTypeOK
      <4>3. \A b : NewDom(b)' = NewDom(b)
        BY <4>2, <3>1 DEF NewDom, domPred, Mirror
      <4>4. \A b \in 2..domAt : b \in 2..(domAt - 1) \/ b = domAt
        BY <3>1 DEF Block
      <4> QED BY <2>0, <3>1, <4>1, <4>2, <4>3, <4>4 DEF Settled
    <3>7. Settled'
      <4>1. domAt' - 1 = domAt /\ domAt' >= 2
        BY <3>1, <2>0 DEF Settled, Block
      <4> QED BY <3>1, <3>6, <4>1 DEF Settled
    <3> QED BY <3>3, <3>4, <3>5, <3>7 DEF SweepInv
  <2>2. CASE SweepAgain
    <3>1. UNCHANGED <<doms, domSucc, domPhase>> /\ domAt' = 2
      BY <2>2 DEF SweepAgain
    <3>2. \A b : NewDom(b)' = NewDom(b)
      BY <3>1 DEF NewDom, domPred, Mirror
    <3> QED BY <2>0, <2>2, <3>1, <3>2 DEF SweepAgain, SweepInv, EntryAlone, SelfIn, AboveNewDom, Settled
  <2>3. CASE SweepDone
    <3>1. UNCHANGED <<doms, domSucc>> /\ domPhase' = "sdom"
      BY <2>3 DEF SweepDone
    <3>2. \A b : NewDom(b)' = NewDom(b)
      BY <3>1 DEF NewDom, domPred, Mirror
    <3>3. \A b \in Block \ {Entry} : doms[b] = NewDom(b)
      <4>1. \A b \in Block \ {Entry} : b \in 2..(domAt - 1)
        BY <2>3, NAssumption DEF SweepDone, Block, Entry
      <4> QED BY <2>0, <2>3, <4>1 DEF SweepDone, Settled
    <3> QED BY <2>0, <3>1, <3>2, <3>3 DEF SweepInv, EntryAlone, SelfIn, AboveNewDom, Settled
  <2>4. ASSUME UNCHANGED <<doms, domSucc>>, domPhase # "dom", domPhase' # "dom" PROVE SweepInv'
    <3>2. \A b : NewDom(b)' = NewDom(b)
      BY <2>4 DEF NewDom, domPred, Mirror
    <3> QED BY <2>0, <2>4, <3>2 DEF SweepInv, EntryAlone, SelfIn, AboveNewDom, Settled
  <2>5. CASE SdomBlock \/ SdomDone
    BY <2>4, <2>5 DEF SdomBlock, SdomDone
  <2>6. CASE TreeBlock \/ DomTreeDone
    BY <2>4, <2>6 DEF TreeBlock, DomTreeDone
  <2>7. CASE Descend \/ DomfReturn \/ DomfDone
    BY <2>4, <2>7 DEF Descend, DomfReturn, DomfDone
  <2>8. CASE UNCHANGED domVars
    <3>1. UNCHANGED <<doms, domSucc, domPhase, domAt, changed>>
      BY <2>8 DEF domVars
    <3>2. \A b : NewDom(b)' = NewDom(b)
      BY <3>1 DEF NewDom, domPred, Mirror
    <3> QED BY <2>0, <3>1, <3>2 DEF SweepInv, EntryAlone, SelfIn, AboveNewDom, Settled
  <2> QED
    BY <2>1, <2>2, <2>3, <2>5, <2>6, <2>7, <2>8 DEF DomNext
<1> QED
  BY <1>1, <1>2, TypeCorrect, PTL DEF DomSpec
-----------------------------------------------------------------------------
(* A dominator set never grows: HIR_CFG_compute_dom cannot oscillate.      *)
THEOREM OnlyShrinks == DomSpec => DomOnlyShrinks
<1>1. DomTypeOK /\ SweepInv /\ [DomNext]_domVars => [\A b \in Block : doms'[b] \subseteq doms[b]]_domVars
  <2> SUFFICES ASSUME DomTypeOK, SweepInv, DomNext
               PROVE  \A b \in Block : doms'[b] \subseteq doms[b]
    OBVIOUS
  <2>1. CASE SweepBlock
    BY <2>1, SweepShrinks DEF SweepInv
  <2>2. CASE UNCHANGED doms
    BY <2>2
  <2> QED
    BY <2>1, <2>2 DEF DomNext, SweepAgain, SweepDone, SdomBlock, SdomDone,
                      TreeBlock, DomTreeDone, Descend, DomfReturn, DomfDone
<1> QED
  BY <1>1, TypeCorrect, SweepInvariant, PTL DEF DomSpec, DomOnlyShrinks

(* When the sweeps have stopped, no set holds a block that is not a        *)
(* dominator, whatever the graph.                                          *)
THEOREM HoldsOnlyDominators == DomSpec => []DomHoldsOnlyDominators
<1>1. DomTypeOK /\ SweepInv => DomHoldsOnlyDominators
  <2> SUFFICES ASSUME DomTypeOK, SweepInv, domPhase # "dom",
                      NEW b \in Block, NEW d \in doms[b]
               PROVE  d \in Dominators(domSucc, b)
    BY DEF DomHoldsOnlyDominators, Dominators
  <2>1. \A c \in Block \ {Entry} : doms[c] = NewDom(c)
    BY DEF SweepInv, Settled
  <2>2. \A c \in Block \ {Entry} : \A e \in doms[c] \ {c} :
          \A p \in Block : c \in domSucc[p] => e \in doms[p]
    BY <2>1 DEF NewDom, domPred, Mirror
  <2>3. domSucc \in Edges /\ doms \in [Block -> SUBSET Block]
    BY DEF DomTypeOK
  <2>4. doms[Entry] = {Entry} /\ \A c \in Block : c \in doms[c]
    BY DEF SweepInv, EntryAlone, SelfIn
  <2> QED
    BY <2>2, <2>3, <2>4, SolutionHoldsOnlyDominators
<1> QED
  BY <1>1, TypeCorrect, SweepInvariant, PTL

(* On the graphs HIR_CFG_finalize_before_dom is meant to hand over, no     *)
(* block with predecessors ever loses a dominator: with the theorem above, *)
(* its final set is exactly its set of dominators.                         *)
THEOREM KeepsDominators ==
    ASSUME \A g \in FlowGraphs : OrphansIsolated(g)
    PROVE  DomSpec => []DomKeepsDominators
<1> DEFINE Given == OrphansIsolated(domSucc)
           Inv   == Given /\ DomKeepsDominators
<1>1. DomInit => Inv
  <2> SUFFICES ASSUME DomInit PROVE Inv
    OBVIOUS
  <2>1. Given
    BY DEF DomInit
  <2>2. ASSUME NEW b \in Block \ Orphans(domSucc), NEW d \in Dominators(domSucc, b)
        PROVE  d \in doms[b]
    <3>1. CASE b # Entry
      BY <2>2, <3>1 DEF InitialDom, DomInit, Dominators
    <3>2. CASE b = Entry
      <4>1. d = Entry
        BY <2>2, <3>2 DEF Dominators, Dominates
      <4> QED BY <2>2, <3>2, <4>1 DEF InitialDom, DomInit
    <3> QED BY <3>1, <3>2
  <2> QED BY <2>1, <2>2 DEF DomKeepsDominators
<1>2. DomTypeOK /\ SweepInv /\ Inv /\ [DomNext]_domVars => Inv'
  <2> SUFFICES ASSUME DomTypeOK, SweepInv, Inv, [DomNext]_domVars PROVE Inv'
    OBVIOUS
  <2>0. domSucc' = domSucc
    BY DEF DomNext, domVars, SweepBlock, SweepAgain, SweepDone, SdomBlock, SdomDone,
           TreeBlock, DomTreeDone, Descend, DomfReturn, DomfDone
  <2>1. CASE SweepBlock
    <3>0. /\ domAt \in Block \ {Entry}
          /\ \A c \in Block : doms'[c] = IF c = domAt THEN NewDom(domAt) ELSE doms[c]
      BY <2>1, SweepShrinks DEF SweepInv
    <3> SUFFICES ASSUME NEW b \in Block \ Orphans(domSucc), NEW d \in Dominators(domSucc, b)
                 PROVE  d \in doms'[b]
      BY <2>0 DEF DomKeepsDominators, Orphans
    <3>1. CASE b # domAt
      BY <3>0, <3>1 DEF DomKeepsDominators
    <3>2. CASE b = domAt /\ d = domAt
      BY <3>0, <3>2 DEF NewDom
    <3>3. CASE b = domAt /\ d # domAt
      <4>1. domPred[b] # {}
        BY <3>0, <3>3 DEF Orphans, domPred, Mirror
      <4>2. ASSUME NEW p \in domPred[b] PROVE d \in doms[p]
        <5>1. p \in Block /\ b \in domSucc[p]
          BY <4>2 DEF domPred, Mirror
        <5>2. d \in Dominators(domSucc, p)
          BY <3>3, <5>1, DominatorsOfPredecessors DEF DomTypeOK
        <5>3. p \notin Orphans(domSucc)
          BY <5>1 DEF OrphansIsolated
        <5> QED BY <5>1, <5>2, <5>3 DEF DomKeepsDominators
      <4>3. d \in Block
        BY DEF Dominators
      <4> QED BY <3>0, <3>3, <4>1, <4>2, <4>3 DEF NewDom
    <3> QED BY <3>1, <3>2, <3>3
  <2>2. CASE UNCHANGED doms
    BY <2>0, <2>2 DEF DomKeepsDominators, Orphans
  <2> QED
    BY <2>1, <2>2 DEF DomNext, domVars, SweepAgain, SweepDone, SdomBlock, SdomDone,
                      TreeBlock, DomTreeDone, Descend, DomfReturn, DomfDone
<1>3. Inv => DomKeepsDominators
  OBVIOUS
<1> QED
  BY <1>1, <1>2, <1>3, TypeCorrect, SweepInvariant, PTL DEF DomSpec
-----------------------------------------------------------------------------
(* What the second loop of HIR_CFG_create_domdata leaves in cb->sdom.      *)
Cut == OrphansIsolated(domSucc)

SdomInv ==
    /\ domPhase = "dom"  => \A b \in Block : sdom[b] = NULL
    /\ domPhase = "sdom" => domAt >= 2
    /\ \A b \in Block : sdom[b] # NULL =>
          b # Entry /\ sdom[b] # b /\ Dominates(domSucc, sdom[b], b)
    /\ \A b \in ReachableBlocks(domSucc) \ {Entry} :
          domPhase # "dom" /\ (domPhase = "sdom" => b < domAt) =>
              IsImmediateDominator(domSucc, sdom[b], b)

(* A block that the entry reaches has a predecessor, or is the entry.      *)
LEMMA ReachableIsNoOrphan ==
    ASSUME NEW g \in Edges, NEW b \in Block, Reachable(g, b)
    PROVE  b \notin Orphans(g)
<1> SUFFICES ASSUME b \in Orphans(g) PROVE FALSE
  OBVIOUS
<1>1. Entry \in Block \ {b} /\ \A x \in Block \ {b} : g[x] \subseteq Block \ {b}
  BY EntryReachable DEF Orphans, Edges
<1>2. Block \ {b} \in SUBSET Block
  OBVIOUS
<1>3. b \in Block \ {b}
  BY <1>1, <1>2 DEF Reachable
<1> QED
  BY <1>3

(* When the sweeps are over the loop finds exactly the immediate dominator *)
(* of a reachable block, in whatever order it looks.                       *)
LEMMA InnermostIsImmediate ==
    ASSUME DomTypeOK, Cut, DomKeepsDominators, DomHoldsOnlyDominators, domPhase # "dom",
           NEW b \in ReachableBlocks(domSucc) \ {Entry}
    PROVE  /\ InnermostDom(b) # {}
           /\ \A d \in InnermostDom(b) : IsImmediateDominator(domSucc, d, b)
<1>0. domSucc \in Edges /\ b \in Block /\ Reachable(domSucc, b)
  BY DEF DomTypeOK, ReachableBlocks
<1>1. \A x \in Block : Reachable(domSucc, x) => doms[x] = Dominators(domSucc, x)
  BY <1>0, ReachableIsNoOrphan DEF DomKeepsDominators, DomHoldsOnlyDominators, Dominators, DomTypeOK
<1> DEFINE S == StrictDominators(domSucc, b)
<1>2. /\ doms[b] \ {b} = S
      /\ S \in SUBSET ReachableBlocks(domSucc)
      /\ \A d \in S : d \in Block /\ d # b /\ Reachable(domSucc, d) /\ Dominates(domSucc, d, b)
  BY <1>0, <1>1, DominatorReachable DEF StrictDominators, Dominators, ReachableBlocks
<1>3. Entry \in S
  BY <1>0, EntryDominates, EntryReachable DEF StrictDominators, Dominators
<1>4. InnermostDom(b) = {d \in S : \A e \in S \ {d} : ~Dominates(domSucc, d, e)}
  <2>1. \A d, e \in S : d \in doms[e] <=> Dominates(domSucc, d, e)
    BY <1>1, <1>2 DEF Dominators
  <2>2. \A d : doms[b] \ {b, d} = S \ {d}
    BY <1>2
  <2>3. InnermostDom(b) = {d \in S : \A e \in S \ {d} : d \notin doms[e]}
    BY <1>2, <2>2 DEF InnermostDom
  <2> QED BY <2>1, <2>3
<1>5. InnermostDom(b) # {}
  BY <1>0, <1>2, <1>3, <1>4, DeepestExists
<1>6. ASSUME NEW d \in InnermostDom(b) PROVE IsImmediateDominator(domSucc, d, b)
  <2>1. d \in S /\ \A e \in S \ {d} : ~Dominates(domSucc, d, e)
    BY <1>4, <1>6
  <2>2. ASSUME NEW e \in S PROVE Dominates(domSucc, e, d)
    <3>1. CASE e = d
      BY <3>1, <1>0, <1>2, DominatesSelf
    <3>2. CASE e # d
      BY <3>2, <1>0, <1>2, <2>1, DominatorsAreAChain
    <3> QED BY <3>1, <3>2
  <2> QED BY <2>1, <2>2 DEF IsImmediateDominator
<1> QED
  BY <1>5, <1>6

LEMMA SdomInvariant ==
    ASSUME \A g \in FlowGraphs : OrphansIsolated(g)
    PROVE  DomSpec => [](Cut /\ SdomInv)
<1>1. DomInit => Cut /\ SdomInv
  <2> SUFFICES ASSUME DomInit PROVE Cut /\ SdomInv
    OBVIOUS
  <2> QED BY DEF DomInit, Cut, SdomInv
<1>2. /\ DomTypeOK
      /\ DomKeepsDominators
      /\ DomHoldsOnlyDominators
      /\ Cut /\ SdomInv
      /\ [DomNext]_domVars
      => (Cut /\ SdomInv)'
  <2> SUFFICES ASSUME DomTypeOK, DomKeepsDominators, DomHoldsOnlyDominators,
                      Cut, SdomInv, [DomNext]_domVars
               PROVE  Cut' /\ SdomInv'
    OBVIOUS
  <2>0. domSucc' = domSucc
    BY DEF DomNext, domVars, SweepBlock, SweepAgain, SweepDone, SdomBlock, SdomDone,
           TreeBlock, DomTreeDone, Descend, DomfReturn, DomfDone
  <2>c. Cut'
    BY <2>0 DEF Cut
  <2>1. CASE SweepBlock \/ SweepAgain
    <3>1. domPhase = "dom" /\ domPhase' = "dom" /\ sdom' = sdom
      BY <2>1 DEF SweepBlock, SweepAgain
    <3> QED BY <2>0, <2>c, <3>1 DEF SdomInv
  <2>2. CASE SweepDone
    <3>1. domPhase = "dom" /\ domPhase' = "sdom" /\ sdom' = sdom /\ domAt' = 2
      BY <2>2 DEF SweepDone
    <3>2. \A b \in ReachableBlocks(domSucc) \ {Entry} : ~(b < 2)
      BY DEF ReachableBlocks, Block, Entry
    <3> QED BY <2>0, <2>c, <3>1, <3>2 DEF SdomInv
  <2>3. CASE SdomBlock
    <3>1. /\ domPhase = "sdom" /\ domPhase' = "sdom" /\ domAt' = domAt + 1
          /\ domAt \in Block /\ domAt >= 2 /\ domAt # Entry
      BY <2>3 DEF SdomBlock, SdomInv, Entry
    <3>2. /\ \A b \in Block \ {domAt} : sdom'[b] = sdom[b]
          /\ InnermostDom(domAt) = {} => sdom'[domAt] = NULL
          /\ InnermostDom(domAt) # {} => sdom'[domAt] \in InnermostDom(domAt)
      BY <2>3 DEF SdomBlock, DomTypeOK
    <3>3. \A d \in InnermostDom(domAt) : d # domAt /\ Dominates(domSucc, d, domAt)
      BY <3>1 DEF InnermostDom, DomHoldsOnlyDominators, Dominators
    <3>4. \A b \in Block : sdom'[b] # NULL =>
            b # Entry /\ sdom'[b] # b /\ Dominates(domSucc, sdom'[b], b)
      BY <3>1, <3>2, <3>3 DEF SdomInv
    <3>5. ASSUME NEW b \in ReachableBlocks(domSucc) \ {Entry}, b < domAt + 1
          PROVE  IsImmediateDominator(domSucc, sdom'[b], b)
      <4>1. b \in Block
        BY DEF ReachableBlocks
      <4>2. CASE b = domAt
        BY <4>2, <3>1, <3>2, InnermostIsImmediate
      <4>3. CASE b # domAt
        <5>1. b < domAt
          BY <4>1, <4>3, <3>1, <3>5 DEF Block
        <5> QED BY <4>1, <4>3, <5>1, <3>1, <3>2 DEF SdomInv
      <4> QED BY <4>2, <4>3
    <3>6. domAt' >= 2
      BY <3>1 DEF Block
    <3> QED BY <2>0, <2>c, <3>1, <3>4, <3>5, <3>6 DEF SdomInv
  <2>4. CASE SdomDone
    <3>1. domPhase = "sdom" /\ domPhase' = "tree" /\ sdom' = sdom /\ domAt = N + 1
      BY <2>4 DEF SdomDone
    <3>2. \A b \in ReachableBlocks(domSucc) : b < domAt
      BY <3>1, NAssumption DEF ReachableBlocks, Block
    <3> QED BY <2>0, <2>c, <3>1, <3>2 DEF SdomInv
  <2>5. ASSUME domPhase \in {"tree", "domf"}, domPhase' \in {"tree", "domf", "done"}, sdom' = sdom
        PROVE  SdomInv'
    BY <2>0, <2>5 DEF SdomInv
  <2>6. CASE TreeBlock \/ DomTreeDone
    BY <2>c, <2>5, <2>6 DEF TreeBlock, DomTreeDone
  <2>7. CASE Descend \/ DomfReturn \/ DomfDone
    BY <2>c, <2>5, <2>7 DEF Descend, DomfReturn, DomfDone
  <2>8. CASE UNCHANGED domVars
    BY <2>c, <2>8 DEF domVars, SdomInv
  <2> QED
    BY <2>1, <2>2, <2>3, <2>4, <2>6, <2>7, <2>8 DEF DomNext
<1> QED
  BY <1>1, <1>2, TypeCorrect, KeepsDominators, HoldsOnlyDominators, PTL DEF DomSpec

(* cb->sdom of every reachable block is its immediate dominator, whatever  *)
(* the graph and whatever the hash order of the sets.                      *)
THEOREM ImmediateDominators ==
    ASSUME \A g \in FlowGraphs : OrphansIsolated(g)
    PROVE  DomSpec => []SdomIsImmediate
<1>1. SdomInv => SdomIsImmediate
  BY DEF SdomInv, SdomIsImmediate
<1> QED
  BY <1>1, SdomInvariant, PTL
-----------------------------------------------------------------------------
(* The dominator tree _build_domtree threads through dom_c and dom_s: the  *)
(* children of a block hang from it in falling order, so that those behind *)
(* a child are the smaller ones.                                           *)
Hung(c) == domPhase = "tree" => c < domAt

TreeInv ==
    /\ domPhase \in {"dom", "sdom"} =>
          \A b \in Block : domC[b] = NULL /\ domS[b] = NULL
    /\ domPhase \notin {"dom", "sdom"} =>
          /\ \A b \in Block : domC[b] # NULL => sdom[domC[b]] = b /\ Hung(domC[b])
          /\ \A c \in Block : Hung(c) /\ sdom[c] # NULL => c <= domC[sdom[c]]
          /\ \A c \in Block : domS[c] # NULL => domS[c] < c /\ sdom[domS[c]] = sdom[c]
          /\ \A c, e \in Block :
                Hung(c) /\ sdom[c] # NULL /\ e < c /\ sdom[e] = sdom[c] => e <= domS[c]

LEMMA TreeInvariant ==
    ASSUME \A g \in FlowGraphs : OrphansIsolated(g)
    PROVE  DomSpec => []TreeInv
<1>1. DomInit => TreeInv
  BY DEF DomInit, TreeInv
<1>2. DomTypeOK /\ DomTypeOK' /\ SdomInv /\ TreeInv /\ [DomNext]_domVars => TreeInv'
  <2> SUFFICES ASSUME DomTypeOK, DomTypeOK', SdomInv, TreeInv, [DomNext]_domVars PROVE TreeInv'
    OBVIOUS
  <2>0. /\ domAt \in 1..(N + 1) /\ N \in Nat
        /\ \A b \in Block : b \in 1..N
    BY NAssumption DEF DomTypeOK, Block
  <2>1. CASE SweepBlock \/ SweepAgain \/ SweepDone \/ SdomBlock
    <3>1. domPhase \in {"dom", "sdom"} /\ domPhase' \in {"dom", "sdom"} /\ UNCHANGED <<domC, domS>>
      BY <2>1 DEF SweepBlock, SweepAgain, SweepDone, SdomBlock
    <3> QED BY <3>1 DEF TreeInv
  <2>2. CASE SdomDone
    <3>1. domPhase = "sdom" /\ domPhase' = "tree" /\ domAt' = 1 /\ UNCHANGED <<domC, domS, sdom>>
      BY <2>2 DEF SdomDone
    <3>2. \A c \in Block : ~Hung(c)'
      BY <2>0, <3>1 DEF Hung
    <3> QED BY <3>1, <3>2 DEF TreeInv
  <2>3. CASE TreeBlock
    <3>1. /\ domPhase = "tree" /\ domPhase' = "tree" /\ domAt \in Block /\ domAt' = domAt + 1
          /\ sdom' = sdom
      BY <2>3 DEF TreeBlock
    <3>h. \A c \in Block : /\ Hung(c) <=> c < domAt
                           /\ Hung(c)' <=> c < domAt \/ c = domAt
      BY <2>0, <3>1 DEF Hung
    <3>2. CASE sdom[domAt] \in {NULL, domAt}
      <4>1. sdom[domAt] = NULL /\ UNCHANGED <<domC, domS>>
        BY <2>3, <3>1, <3>2 DEF TreeBlock, SdomInv
      <4> QED BY <2>0, <3>1, <3>h, <4>1 DEF TreeInv, DomTypeOK
    <3>3. CASE sdom[domAt] \notin {NULL, domAt}
      <4> DEFINE b == sdom[domAt]
      <4>1. /\ b \in Block
            /\ \A c \in Block : domS'[c] = IF c = domAt THEN domC[b] ELSE domS[c]
            /\ \A c \in Block : domC'[c] = IF c = b THEN domAt ELSE domC[c]
        BY <2>3, <3>1, <3>3 DEF TreeBlock, DomTypeOK
      <4>2. /\ domC \in [Block -> Block \union {NULL}] /\ domS \in [Block -> Block \union {NULL}]
            /\ sdom \in [Block -> Block \union {NULL}]
        BY DEF DomTypeOK
      <4> HIDE DEF b
      <4>b. b = sdom[domAt]
        BY DEF b
      <4>3. \A c \in Block : domC'[c] # NULL => sdom[domC'[c]] = c /\ domC'[c] < domAt'
        <5> SUFFICES ASSUME NEW c \in Block, domC'[c] # NULL
                     PROVE  sdom[domC'[c]] = c /\ domC'[c] < domAt'
          OBVIOUS
        <5>1. CASE c = b
          BY <2>0, <3>1, <4>1, <4>b, <5>1
        <5>2. CASE c # b
          <6>1. domC'[c] = domC[c] /\ domC[c] \in Block
            BY <4>1, <4>2, <5>2
          <6>2. sdom[domC[c]] = c /\ domC[c] < domAt
            BY <3>1, <3>h, <6>1 DEF TreeInv
          <6>3. domC[c] < domAt + 1
            BY <2>0, <6>1, <6>2
          <6> QED BY <3>1, <6>1, <6>2, <6>3
        <5> QED BY <5>1, <5>2
      <4>4. \A c \in Block : Hung(c)' /\ sdom[c] # NULL => c <= domC'[sdom[c]]
        <5> SUFFICES ASSUME NEW c \in Block, Hung(c)', sdom[c] # NULL
                     PROVE  c <= domC'[sdom[c]]
          OBVIOUS
        <5>1. sdom[c] \in Block
          BY <4>2
        <5>2. c < domAt \/ c = domAt
          BY <3>h
        <5>3. CASE sdom[c] = b
          BY <2>0, <3>1, <4>1, <5>2, <5>3
        <5>4. CASE sdom[c] # b
          <6>1. c < domAt /\ Hung(c)
            BY <3>h, <4>b, <5>2, <5>4
          <6> QED BY <3>1, <4>1, <5>1, <5>4, <6>1 DEF TreeInv
        <5> QED BY <5>3, <5>4
      <4>5. \A c \in Block : domS'[c] # NULL => domS'[c] < c /\ sdom[domS'[c]] = sdom[c]
        <5> SUFFICES ASSUME NEW c \in Block, domS'[c] # NULL
                     PROVE  domS'[c] < c /\ sdom[domS'[c]] = sdom[c]
          OBVIOUS
        <5>1. CASE c # domAt
          BY <3>1, <4>1, <5>1 DEF TreeInv
        <5>2. CASE c = domAt
          <6>1. domS'[c] = domC[b] /\ domC[b] \in Block
            BY <4>1, <4>2, <5>2
          <6>2. sdom[domC[b]] = b /\ domC[b] < domAt
            BY <3>1, <3>h, <4>1, <6>1 DEF TreeInv
          <6> QED BY <4>b, <5>2, <6>1, <6>2
        <5> QED BY <5>1, <5>2
      <4>6. \A c, e \in Block :
              Hung(c)' /\ sdom[c] # NULL /\ e < c /\ sdom[e] = sdom[c] => e <= domS'[c]
        <5> SUFFICES ASSUME NEW c \in Block, NEW e \in Block,
                            Hung(c)', sdom[c] # NULL, e < c, sdom[e] = sdom[c]
                     PROVE  e <= domS'[c]
          OBVIOUS
        <5>1. CASE c # domAt
          <6>1. Hung(c)
            BY <3>h, <5>1
          <6> QED BY <3>1, <4>1, <5>1, <6>1 DEF TreeInv
        <5>2. CASE c = domAt
          <6>1. Hung(e) /\ sdom[e] = b /\ b # NULL
            BY <3>h, <3>3, <4>b, <5>2
          <6> QED BY <3>1, <4>1, <5>2, <6>1 DEF TreeInv
        <5> QED BY <5>1, <5>2
      <4>7. domPhase' \notin {"dom", "sdom"} /\ sdom' = sdom
        BY <3>1
      <4> QED BY <4>3, <4>4, <4>5, <4>6, <4>7 DEF TreeInv, Hung
    <3> QED BY <3>2, <3>3
  <2>4. ASSUME domPhase \in {"tree", "domf"}, domPhase' \in {"domf", "done"},
               domPhase = "tree" => domAt = N + 1, UNCHANGED <<sdom, domC, domS>>
        PROVE  TreeInv'
    <3>1. \A c \in Block : Hung(c) /\ Hung(c)'
      BY <2>0, <2>4 DEF Hung
    <3>2. \A b \in Block : domC[b] # NULL => domC[b] \in Block
      BY DEF DomTypeOK
    <3> QED BY <2>4, <3>1, <3>2 DEF TreeInv
  <2>5. CASE DomTreeDone \/ Descend \/ DomfReturn \/ DomfDone
    BY <2>4, <2>5 DEF DomTreeDone, Descend, DomfReturn, DomfDone
  <2>6. CASE UNCHANGED domVars
    BY <2>6 DEF domVars, TreeInv, Hung
  <2> QED
    BY <2>1, <2>2, <2>3, <2>5, <2>6 DEF DomNext
<1> QED
  BY <1>1, <1>2, TypeCorrect, SdomInvariant, PTL DEF DomSpec
-----------------------------------------------------------------------------
(* The activations of _compute_domf_rec are a path of the dominator tree   *)
(* from the entry; each stands at the child it is in, or is about to       *)
(* enter.                                                                  *)
PathInv ==
    domPhase = "domf" =>
        /\ stack # <<>> /\ stack[1].block = Entry
        /\ \A i \in 1..Len(stack) :
              stack[i].child # NULL => sdom[stack[i].child] = stack[i].block
        /\ \A i \in 1..(Len(stack) - 1) : stack[i + 1].block = stack[i].child
        /\ \A i, j \in 1..Len(stack) :
              i <= j => Dominates(domSucc, stack[i].block, stack[j].block)

(* How a call and a return change the activations.                         *)
LEMMA DescendStack ==
    ASSUME DomTypeOK, Descend
    PROVE  /\ Len(stack) \in Nat /\ Len(stack) >= 1
           /\ \A i \in 1..Len(stack) : stack[i] \in DomFrame
           /\ TopFrame.child \in Block
           /\ Len(stack') = Len(stack) + 1
           /\ \A i \in 1..Len(stack) : stack'[i] = stack[i]
           /\ stack'[Len(stack) + 1] = [block |-> TopFrame.child, child |-> domC[TopFrame.child]]
<1>1. stack \in Seq(DomFrame) /\ stack # <<>> /\ TopFrame.child # NULL
  BY DEF Descend, DomTypeOK
<1>2. Len(stack) \in Nat /\ Len(stack) >= 1 /\ \A i \in 1..Len(stack) : stack[i] \in DomFrame
  BY <1>1
<1>3. TopFrame.child \in Block
  BY <1>1, <1>2 DEF TopFrame, DomFrame
<1>4. stack' = Append(stack, [block |-> TopFrame.child, child |-> domC[TopFrame.child]])
  BY DEF Descend, Activate
<1> DEFINE f == [block |-> TopFrame.child, child |-> domC[TopFrame.child]]
<1>5. f \in DomFrame
  BY <1>3 DEF DomFrame, DomTypeOK
<1> HIDE DEF f
<1>6. /\ Len(Append(stack, f)) = Len(stack) + 1
      /\ \A i \in 1..Len(stack) : Append(stack, f)[i] = stack[i]
      /\ Append(stack, f)[Len(stack) + 1] = f
  BY <1>1, <1>5, AppendProperties
<1> QED
  BY <1>2, <1>3, <1>4, <1>6 DEF f

LEMMA ReturnStack ==
    ASSUME DomTypeOK, DomfReturn
    PROVE  /\ Len(stack) \in Nat /\ Len(stack) >= 2
           /\ \A i \in 1..Len(stack) : stack[i] \in DomFrame
           /\ stack[Len(stack)].child = NULL
           /\ Len(stack') = Len(stack) - 1
           /\ \A i \in 1..(Len(stack) - 2) : stack'[i] = stack[i]
           /\ stack'[Len(stack) - 1] =
                [block |-> stack[Len(stack) - 1].block, child |-> domS[stack[Len(stack)].block]]
<1>1. stack \in Seq(DomFrame) /\ Len(stack) > 1 /\ TopFrame.child = NULL
  BY DEF DomfReturn, DomTypeOK
<1>2. Len(stack) \in Nat /\ Len(stack) >= 2 /\ \A i \in 1..Len(stack) : stack[i] \in DomFrame
  BY <1>1
<1>3. /\ OuterFrames \in Seq(DomFrame) /\ Len(OuterFrames) = Len(stack) - 1
      /\ \A i \in 1..(Len(stack) - 1) : OuterFrames[i] = stack[i]
  BY <1>1, <1>2 DEF OuterFrames
<1> DEFINE f == [block |-> stack[Len(stack) - 1].block, child |-> domS[stack[Len(stack)].block]]
<1>4. stack' = [OuterFrames EXCEPT ![Len(stack) - 1] = f]
  BY DEF DomfReturn, TopFrame
<1> HIDE DEF f
<1>5. /\ Len(stack') = Len(stack) - 1
      /\ \A i \in 1..(Len(stack) - 2) : stack'[i] = stack[i]
      /\ stack'[Len(stack) - 1] = f
  BY <1>2, <1>3, <1>4
<1> QED
  BY <1>1, <1>2, <1>5 DEF f, TopFrame

LEMMA PathInvariant ==
    ASSUME \A g \in FlowGraphs : OrphansIsolated(g)
    PROVE  DomSpec => []PathInv
<1>1. DomInit => PathInv
  BY DEF DomInit, PathInv
<1>2. DomTypeOK /\ SdomInv /\ TreeInv /\ PathInv /\ [DomNext]_domVars => PathInv'
  <2> SUFFICES ASSUME DomTypeOK, SdomInv, TreeInv, PathInv, [DomNext]_domVars PROVE PathInv'
    OBVIOUS
  <2>0. domSucc \in Edges /\ Entry \in Block
    BY EntryReachable DEF DomTypeOK
  <2>1. CASE DomTreeDone
    <3>1. /\ domPhase = "tree" /\ domPhase' = "domf" /\ UNCHANGED <<domSucc, sdom>>
          /\ stack' = <<[block |-> Entry, child |-> domC[Entry]]>>
      BY <2>1 DEF DomTreeDone, Activate
    <3>2. /\ Len(stack') = 1
          /\ stack'[1].block = Entry /\ stack'[1].child = domC[Entry]
      BY <3>1
    <3>3. domC[Entry] # NULL => sdom[domC[Entry]] = Entry
      BY <2>0, <3>1 DEF TreeInv
    <3>4. Dominates(domSucc, Entry, Entry)
      BY <2>0, DominatesSelf
    <3>5. stack' # <<>>
      BY <3>1
    <3> QED BY <3>1, <3>2, <3>3, <3>4, <3>5 DEF PathInv
  <2>2. CASE Descend
    <3> DEFINE L == Len(stack)
               k == TopFrame.child
    <3>1. /\ domPhase = "domf" /\ domPhase' = "domf" /\ domSucc' = domSucc /\ sdom' = sdom
      BY <2>2 DEF Descend
    <3>2. /\ L \in Nat /\ L >= 1 /\ k \in Block /\ k = stack[L].child
          /\ \A i \in 1..L : stack[i] \in DomFrame
          /\ Len(stack') = L + 1
          /\ \A i \in 1..L : stack'[i] = stack[i]
          /\ stack'[L + 1].block = k /\ stack'[L + 1].child = domC[k]
      BY <2>2, DescendStack DEF TopFrame
    <3> HIDE DEF L, k
    <3>3. \A i \in 1..(L + 1) : i \in 1..L \/ i = L + 1
      BY <3>2
    <3>4. k # NULL /\ 1 \in 1..L /\ L \in 1..L
      BY <3>2 DEF NULL, Block
    <3>5. sdom[k] = stack[L].block /\ Dominates(domSucc, stack[L].block, k)
      <4>1. sdom[k] = stack[L].block
        BY <3>1, <3>2, <3>4 DEF PathInv, L
      <4>2. stack[L].block \in Block
        BY <3>2, <3>4 DEF DomFrame
      <4>3. sdom[k] # NULL
        BY <4>1, <4>2 DEF NULL, Block
      <4> QED BY <3>2, <4>1, <4>3 DEF SdomInv
    <3>6. stack' # <<>> /\ stack'[1].block = Entry
      BY <3>1, <3>2, <3>4 DEF PathInv
    <3>7. \A i \in 1..(L + 1) : stack'[i].child # NULL => sdom[stack'[i].child] = stack'[i].block
      <4>1. \A i \in 1..L : stack'[i].child # NULL => sdom[stack'[i].child] = stack'[i].block
        BY <3>1, <3>2 DEF PathInv, L
      <4>2. domC[k] # NULL => sdom[domC[k]] = k
        BY <3>1, <3>2 DEF TreeInv
      <4> QED BY <3>2, <3>3, <4>1, <4>2
    <3>8. \A i \in 1..L : stack'[i + 1].block = stack'[i].child
      <4>1. \A i \in 1..L : i = L \/ (i \in 1..(L - 1) /\ i + 1 \in 1..L)
        BY <3>2
      <4>2. \A i \in 1..(L - 1) : stack[i + 1].block = stack[i].child
        BY <3>1 DEF PathInv, L
      <4> QED BY <3>2, <4>1, <4>2
    <3>9. \A i, j \in 1..(L + 1) : i <= j => Dominates(domSucc, stack'[i].block, stack'[j].block)
      <4> SUFFICES ASSUME NEW i \in 1..(L + 1), NEW j \in 1..(L + 1), i <= j
                   PROVE  Dominates(domSucc, stack'[i].block, stack'[j].block)
        OBVIOUS
      <4>1. \A m, n \in 1..L : m <= n => Dominates(domSucc, stack[m].block, stack[n].block)
        BY <3>1 DEF PathInv, L
      <4>2. CASE j \in 1..L
        <5>1. i \in 1..L
          BY <3>2, <4>2
        <5> QED BY <3>2, <4>1, <4>2, <5>1
      <4>3. CASE i = L + 1
        <5>1. j = L + 1
          BY <3>2, <4>3
        <5> QED BY <2>0, <3>2, <4>3, <5>1, DominatesSelf
      <4>4. CASE i \in 1..L /\ j = L + 1
        <5>1. i <= L
          BY <3>2, <4>4
        <5>2. Dominates(domSucc, stack[i].block, stack[L].block)
          BY <3>4, <4>1, <4>4, <5>1
        <5>3. stack[i].block \in Block /\ stack[L].block \in Block
          BY <3>2, <3>4, <4>4 DEF DomFrame
        <5>4. Dominates(domSucc, stack[i].block, k)
          BY <2>0, <3>2, <3>5, <5>2, <5>3, DominatesTrans
        <5> QED BY <3>2, <4>4, <5>4
      <4> QED BY <3>3, <4>2, <4>3, <4>4
    <3>10. Len(stack') - 1 = L /\ Len(stack') = L + 1
      BY <3>2
    <3> QED BY <3>1, <3>6, <3>7, <3>8, <3>9, <3>10 DEF PathInv
  <2>3. CASE DomfReturn
    <3> DEFINE L == Len(stack)
               c == stack[L].block
    <3>1. /\ domPhase = "domf" /\ domPhase' = "domf" /\ domSucc' = domSucc /\ sdom' = sdom
      BY <2>3 DEF DomfReturn
    <3>2. /\ L \in Nat /\ L >= 2
          /\ \A i \in 1..L : stack[i] \in DomFrame
          /\ Len(stack') = L - 1
          /\ \A i \in 1..(L - 2) : stack'[i] = stack[i]
          /\ stack'[L - 1].block = stack[L - 1].block
          /\ stack'[L - 1].child = domS[c]
      <4>1. /\ Len(stack) \in Nat /\ Len(stack) >= 2
            /\ \A i \in 1..Len(stack) : stack[i] \in DomFrame
            /\ Len(stack') = Len(stack) - 1
            /\ \A i \in 1..(Len(stack) - 2) : stack'[i] = stack[i]
        BY <2>3, ReturnStack, Zenon
      <4>2. stack'[Len(stack) - 1] =
              [block |-> stack[Len(stack) - 1].block, child |-> domS[stack[Len(stack)].block]]
        BY <2>3, ReturnStack, Zenon
      <4> QED BY <4>1, <4>2
    <3> HIDE DEF L, c
    <3>3. \A i \in 1..(L - 1) : (i \in 1..(L - 2) \/ i = L - 1) /\ i \in 1..L
      BY <3>2
    <3>4. \A i \in 1..(L - 1) : stack'[i].block = stack[i].block
      BY <3>2, <3>3
    <3>5. c \in Block /\ sdom[c] = stack[L - 1].block
      <4>1. c \in Block
        BY <3>2 DEF c, DomFrame
      <4>2. L - 1 \in 1..(L - 1) /\ L - 1 \in 1..L /\ (L - 1) + 1 = L
        BY <3>2
      <4>3. c = stack[L - 1].child
        BY <3>1, <4>2 DEF PathInv, L, c
      <4>4. c # NULL
        BY <4>1 DEF NULL, Block
      <4> QED BY <3>1, <4>1, <4>2, <4>3, <4>4 DEF PathInv, L
    <3>6. stack' # <<>> /\ stack'[1].block = Entry
      <4>1. 1 \in 1..(L - 1)
        BY <3>2
      <4>2. stack' # <<>>
        BY <3>2
      <4> QED BY <3>1, <3>4, <4>1, <4>2 DEF PathInv
    <3>7. \A i \in 1..(L - 1) : stack'[i].child # NULL => sdom[stack'[i].child] = stack'[i].block
      <4>1. domS[c] # NULL => sdom[domS[c]] = sdom[c]
        BY <3>1, <3>5 DEF TreeInv
      <4>2. \A i \in 1..L : stack[i].child # NULL => sdom[stack[i].child] = stack[i].block
        BY <3>1 DEF PathInv, L
      <4> QED BY <3>2, <3>3, <3>5, <4>1, <4>2
    <3>8. \A i \in 1..(L - 2) : stack'[i + 1].block = stack'[i].child
      <4>1. \A i \in 1..(L - 2) : i + 1 \in 1..(L - 1) /\ i \in 1..(L - 1)
        BY <3>2
      <4>2. \A i \in 1..(L - 1) : stack[i + 1].block = stack[i].child
        BY <3>1 DEF PathInv, L
      <4> QED BY <3>2, <3>4, <4>1, <4>2
    <3>9. \A i, j \in 1..(L - 1) : i <= j => Dominates(domSucc, stack'[i].block, stack'[j].block)
      <4>1. \A m, n \in 1..L : m <= n => Dominates(domSucc, stack[m].block, stack[n].block)
        BY <3>1 DEF PathInv, L
      <4> QED BY <3>3, <3>4, <4>1
    <3>10. Len(stack') - 1 = L - 2 /\ Len(stack') = L - 1
      BY <3>2
    <3> QED BY <3>1, <3>6, <3>7, <3>8, <3>9, <3>10 DEF PathInv
  <2>4. CASE domPhase' # "domf"
    BY <2>4 DEF PathInv
  <2>5. CASE UNCHANGED domVars
    BY <2>5 DEF domVars, PathInv
  <2> QED
    BY <2>1, <2>2, <2>3, <2>4, <2>5
    DEF DomNext, SweepBlock, SweepAgain, SweepDone, SdomBlock, SdomDone, TreeBlock, DomfDone
<1> QED
  BY <1>1, <1>2, TypeCorrect, SdomInvariant, TreeInvariant, PTL DEF DomSpec
-----------------------------------------------------------------------------
(* The recursion.  A block is complete when its frontier holds what it     *)
(* owes to its own edges and to the frontiers of its children; Walked(i,   *)
(* c): the activation i is done with its reachable child c.  All that is   *)
(* under such a child is complete, and is never visited again.             *)
Complete(x) ==
    /\ Local(x) \subseteq domf[x]
    /\ \A c \in ReachableBlocks(domSucc) : sdom[c] = x => Up(x, c) \subseteq domf[x]

Walked(i, c) ==
    /\ i \in 1..Len(stack) /\ c \in ReachableBlocks(domSucc)
    /\ sdom[c] = stack[i].block /\ c > stack[i].child

WalkInv ==
    /\ domPhase = "domf" =>
          \A i \in 1..Len(stack) :
              /\ Local(stack[i].block) \subseteq domf[stack[i].block]
              /\ \A c \in ReachableBlocks(domSucc) : Walked(i, c) =>
                    /\ Up(stack[i].block, c) \subseteq domf[stack[i].block]
                    /\ \A x \in ReachableBlocks(domSucc) : Dominates(domSucc, c, x) => Complete(x)
    /\ domPhase = "done" => \A x \in ReachableBlocks(domSucc) : Complete(x)

(* What sdom says of a reachable block.                                    *)
LEMMA SdomOfReachable ==
    ASSUME DomTypeOK, SdomInv, domPhase \notin {"dom", "sdom"},
           NEW c \in ReachableBlocks(domSucc), sdom[c] # NULL
    PROVE  /\ c \in Block /\ Reachable(domSucc, c) /\ c # Entry
           /\ sdom[c] \in Block /\ Reachable(domSucc, sdom[c])
           /\ sdom[c] # c /\ Dominates(domSucc, sdom[c], c)
           /\ \A e \in Block : e # c /\ Dominates(domSucc, e, c) => Dominates(domSucc, e, sdom[c])
<1>1. domSucc \in Edges /\ c \in Block /\ Reachable(domSucc, c) /\ sdom[c] \in Block
  BY DEF DomTypeOK, ReachableBlocks
<1>2. c # Entry /\ sdom[c] # c /\ Dominates(domSucc, sdom[c], c)
  BY <1>1 DEF SdomInv
<1>3. IsImmediateDominator(domSucc, sdom[c], c)
  BY <1>2 DEF SdomInv
<1> QED
  BY <1>1, <1>2, <1>3, DominatorReachable DEF IsImmediateDominator, StrictDominators, Dominators

(* Every reachable block but the entry has one.                            *)
LEMMA SdomExists ==
    ASSUME DomTypeOK, SdomInv, domPhase \notin {"dom", "sdom"},
           NEW c \in ReachableBlocks(domSucc), c # Entry
    PROVE  sdom[c] # NULL
<1>1. IsImmediateDominator(domSucc, sdom[c], c)
  BY DEF SdomInv
<1> QED
  BY <1>1 DEF IsImmediateDominator, StrictDominators, Dominators, NULL, Block

(* Between a block and what it strictly dominates stands one of its        *)
(* children: the topmost block that it strictly dominates on the way.      *)
LEMMA ChildToward ==
    ASSUME DomTypeOK, SdomInv, domPhase \notin {"dom", "sdom"},
           NEW b \in ReachableBlocks(domSucc), NEW x \in ReachableBlocks(domSucc),
           Dominates(domSucc, b, x), b # x
    PROVE  \E c \in ReachableBlocks(domSucc) : sdom[c] = b /\ Dominates(domSucc, c, x)
<1>0. /\ domSucc \in Edges
      /\ \A y \in ReachableBlocks(domSucc) : y \in Block /\ Reachable(domSucc, y)
  BY DEF DomTypeOK, ReachableBlocks
<1> DEFINE S == {y \in ReachableBlocks(domSucc) :
                    y # b /\ Dominates(domSucc, b, y) /\ Dominates(domSucc, y, x)}
<1>1. x \in S
  BY <1>0, DominatesSelf
<1>2. PICK c \in S : \A e \in S \ {c} : ~Dominates(domSucc, e, c)
  BY <1>0, <1>1, DeepestExists
<1>3. c # Entry
  <2> SUFFICES ASSUME c = Entry PROVE FALSE
    OBVIOUS
  <2>1. Dominates(domSucc, c, b) /\ Dominates(domSucc, b, c)
    BY <1>0, EntryDominates
  <2> QED BY <1>0, <2>1, DominatesAntisym
<1>4. sdom[c] # NULL
  BY <1>3, SdomExists
<1> DEFINE d == sdom[c]
<1>5. /\ d \in ReachableBlocks(domSucc) /\ d # c
      /\ Dominates(domSucc, d, c) /\ Dominates(domSucc, b, d)
  BY <1>0, <1>4, SdomOfReachable DEF ReachableBlocks
<1>6. Dominates(domSucc, d, x)
  BY <1>0, <1>5, DominatesTrans
<1>7. d = b
  BY <1>2, <1>5, <1>6
<1> QED
  BY <1>7

(* What is under a child the recursion is done with is not active: of two  *)
(* children of one block neither dominates the other.                      *)
Apart ==
    domPhase = "domf" =>
        \A i, j \in 1..Len(stack) : \A c, x \in ReachableBlocks(domSucc) :
            Walked(i, c) /\ Dominates(domSucc, c, x) => stack[j].block # x

LEMMA WalkedIsApart == DomTypeOK /\ SdomInv /\ PathInv => Apart
<1> SUFFICES ASSUME DomTypeOK, SdomInv, PathInv, domPhase = "domf",
                    NEW i \in 1..Len(stack), NEW j \in 1..Len(stack),
                    NEW c \in ReachableBlocks(domSucc), NEW x \in ReachableBlocks(domSucc),
                    Walked(i, c), Dominates(domSucc, c, x), stack[j].block = x
             PROVE  FALSE
  BY DEF Apart
<1>0. /\ domSucc \in Edges
      /\ \A y \in ReachableBlocks(domSucc) : y \in Block /\ Reachable(domSucc, y)
      /\ stack \in Seq(DomFrame) /\ Len(stack) \in Nat
      /\ domPhase \notin {"dom", "sdom"}
  BY DEF DomTypeOK, ReachableBlocks
<1> DEFINE a == stack[i].block
<1>1. sdom[c] = a /\ c > stack[i].child
  BY DEF Walked
<1>f. \A m \in 1..Len(stack) : stack[m] \in DomFrame
  BY <1>0
<1>2. a \in Block /\ a # NULL
  <2>1. a \in Block
    BY <1>f DEF DomFrame
  <2> QED BY <2>1 DEF NULL, Block
<1>3. /\ Reachable(domSucc, a) /\ a # c /\ Dominates(domSucc, a, c)
      /\ \A e \in Block : e # c /\ Dominates(domSucc, e, c) => Dominates(domSucc, e, a)
  BY <1>0, <1>1, <1>2, SdomOfReachable
<1> HIDE DEF a
<1>4. \A m, n \in 1..Len(stack) : m <= n => Dominates(domSucc, stack[m].block, stack[n].block)
  BY DEF PathInv
<1>5. CASE j <= i
  <2>1. Dominates(domSucc, x, a)
    BY <1>4, <1>5 DEF a
  <2>2. Dominates(domSucc, c, a)
    BY <1>0, <1>2, <2>1, DominatesTrans
  <2> QED BY <1>0, <1>2, <1>3, <2>2, DominatesAntisym
<1>6. CASE ~(j <= i)
  <2> DEFINE k == stack[i].child
  <2>1. i \in 1..(Len(stack) - 1) /\ i + 1 \in 1..Len(stack) /\ i + 1 <= j
    BY <1>0, <1>6
  <2>2. stack[i + 1].block = k /\ k \in Block /\ k # NULL
    <3>1. stack[i + 1].block = k
      BY <2>1 DEF PathInv
    <3>2. stack[i + 1].block \in Block
      BY <1>f, <2>1 DEF DomFrame
    <3>3. \A b \in Block : b # NULL
      BY DEF NULL, Block
    <3> QED BY <3>1, <3>2, <3>3
  <2>3. sdom[k] = a
    BY <2>2 DEF PathInv, a
  <2>4. Dominates(domSucc, k, x)
    BY <1>4, <2>1, <2>2
  <2>5. c # k
    BY <1>0, <1>1, <2>2 DEF Block
  <2>6. k \in ReachableBlocks(domSucc)
    BY <1>0, <2>2, <2>4, DominatorReachable DEF ReachableBlocks
  <2> HIDE DEF k
  <2>7. /\ a # k /\ Dominates(domSucc, a, k)
        /\ \A e \in Block : e # k /\ Dominates(domSucc, e, k) => Dominates(domSucc, e, a)
    BY <1>0, <1>2, <2>3, <2>6, SdomOfReachable
  <2>8. CASE Dominates(domSucc, c, k)
    <3>1. Dominates(domSucc, c, a)
      BY <1>0, <2>5, <2>7, <2>8
    <3> QED BY <1>0, <1>2, <1>3, <3>1, DominatesAntisym
  <2>9. CASE Dominates(domSucc, k, c)
    <3>1. Dominates(domSucc, k, a)
      BY <1>3, <2>2, <2>5, <2>9
    <3> QED BY <1>0, <1>2, <2>2, <2>6, <2>7, <3>1, DominatesAntisym
  <2> QED BY <1>0, <2>2, <2>4, <2>8, <2>9, DominatorsAreAChain
<1> QED
  BY <1>5, <1>6

(* What is complete stays so while nothing under it changes.               *)
LEMMA StaysComplete ==
    ASSUME DomTypeOK, SdomInv, domPhase \notin {"dom", "sdom"}, domSucc' = domSucc, sdom' = sdom,
           NEW c \in ReachableBlocks(domSucc),
           \A y \in ReachableBlocks(domSucc) : Dominates(domSucc, c, y) => domf'[y] = domf[y],
           NEW x \in ReachableBlocks(domSucc), Dominates(domSucc, c, x), Complete(x)
    PROVE  Complete(x)'
<1>0. /\ domSucc \in Edges
      /\ \A y \in ReachableBlocks(domSucc) : y \in Block /\ Reachable(domSucc, y)
  BY DEF DomTypeOK, ReachableBlocks
<1>1. domf'[x] = domf[x] /\ Local(x)' = Local(x)
  BY DEF Local
<1>2. ASSUME NEW e \in ReachableBlocks(domSucc), sdom[e] = x
      PROVE  Up(x, e)' = Up(x, e)
  <2>1. Dominates(domSucc, x, e)
    BY <1>0, <1>2, SdomOfReachable DEF NULL, Block
  <2>2. Dominates(domSucc, c, e)
    BY <1>0, <2>1, DominatesTrans
  <2> QED BY <2>2 DEF Up
<1> QED
  BY <1>1, <1>2 DEF Complete

LEMMA WalkDescends ==
    ASSUME DomTypeOK, SdomInv, TreeInv, PathInv, Apart', WalkInv, Descend
    PROVE  WalkInv'
<1> DEFINE L == Len(stack)
           k == TopFrame.child
<1>1. /\ domPhase = "domf" /\ domPhase' = "domf" /\ domPhase \notin {"dom", "sdom"}
      /\ domSucc' = domSucc /\ sdom' = sdom
  BY DEF Descend
<1>2. /\ L \in Nat /\ L >= 1 /\ k \in Block
      /\ \A i \in 1..L : stack[i] \in DomFrame
      /\ Len(stack') = L + 1
      /\ \A i \in 1..L : stack'[i] = stack[i]
      /\ stack'[L + 1].block = k /\ stack'[L + 1].child = domC[k]
  BY DescendStack
<1>3. \A b \in Block : domf'[b] = IF b = k THEN domf[b] \union Local(b) ELSE domf[b]
  <2>1. domf' = [domf EXCEPT ![k] = @ \union Local(k)]
    BY DEF Descend, Activate
  <2> QED BY <1>2, <2>1 DEF DomTypeOK
<1> HIDE DEF L, k
<1>4. ReachableBlocks(domSucc)' = ReachableBlocks(domSucc) /\ ReachableBlocks(domSucc) \subseteq Block
  BY <1>1 DEF ReachableBlocks, Reachable
<1>5. \A i \in 1..(L + 1) : i \in 1..L \/ i = L + 1
  BY <1>2
<1>6. \A i \in 1..L : \A c \in ReachableBlocks(domSucc) : Walked(i, c)' <=> Walked(i, c)
  BY <1>1, <1>2, <1>4 DEF Walked, L
<1>7. ASSUME NEW i, i = L + 1, NEW c \in ReachableBlocks(domSucc), Walked(i, c)'
      PROVE  FALSE
  <2>0. sdom[c] = k /\ c > domC[k]
    BY <1>1, <1>2, <1>7 DEF Walked
  <2>1. Hung(c) /\ sdom[c] # NULL
    BY <1>1, <1>2, <2>0 DEF Hung, NULL, Block
  <2>2. c <= domC[k] /\ c \in Block
    BY <1>1, <1>4, <2>0, <2>1 DEF TreeInv
  <2> QED BY <1>2, <2>0, <2>2 DEF DomTypeOK, Block, NULL
<1>8. ASSUME NEW i \in 1..L, NEW c \in ReachableBlocks(domSucc), Walked(i, c),
             NEW x \in ReachableBlocks(domSucc), Dominates(domSucc, c, x)
      PROVE  domf'[x] = domf[x]
  <2>1. i \in 1..Len(stack') /\ L + 1 \in 1..Len(stack')
    BY <1>2
  <2>2. x # k
    BY <1>1, <1>2, <1>4, <1>6, <1>8, <2>1 DEF Apart
  <2> QED BY <1>3, <1>4, <2>2
<1>9. ASSUME NEW i \in 1..(L + 1)
      PROVE  /\ Local(stack[i].block)' \subseteq domf'[stack'[i].block]
             /\ \A c \in ReachableBlocks(domSucc) : Walked(i, c)' =>
                   /\ Up(stack[i].block, c)' \subseteq domf'[stack'[i].block]
                   /\ \A x \in ReachableBlocks(domSucc) : Dominates(domSucc, c, x) => Complete(x)'
  <2>1. CASE i = L + 1
    <3>1. Local(stack[i].block)' = Local(k)
      BY <1>1, <1>2, <2>1 DEF Local
    <3>2. Local(k) \subseteq domf'[k]
      BY <1>2, <1>3
    <3>3. \A c \in ReachableBlocks(domSucc) : ~Walked(i, c)'
      BY <1>7, <2>1
    <3>4. stack'[i].block = k
      BY <1>2, <2>1
    <3> QED BY <3>1, <3>2, <3>3, <3>4
  <2>2. CASE i \in 1..L
    <3> DEFINE b == stack[i].block
    <3>1. b \in Block /\ stack'[i] = stack[i] /\ domf[b] \subseteq domf'[b]
      BY <1>2, <1>3, <2>2 DEF DomFrame
    <3>2. Local(stack[i].block)' = Local(b)
      BY <1>1, <3>1 DEF Local
    <3>3. Local(b) \subseteq domf[b]
      BY <1>1, <2>2 DEF WalkInv, L
    <3>4. ASSUME NEW c \in ReachableBlocks(domSucc), Walked(i, c)
          PROVE  /\ Up(stack[i].block, c)' \subseteq domf'[b]
                 /\ \A x \in ReachableBlocks(domSucc) : Dominates(domSucc, c, x) => Complete(x)'
      <4>1. domSucc \in Edges /\ c \in Block
        BY <1>4 DEF DomTypeOK
      <4>2. domf'[c] = domf[c]
        BY <1>8, <2>2, <3>4, <4>1, DominatesSelf
      <4>3. Up(stack[i].block, c)' = Up(b, c)
        BY <1>1, <3>1, <4>2 DEF Up
      <4>4. /\ Up(b, c) \subseteq domf[b]
            /\ \A x \in ReachableBlocks(domSucc) : Dominates(domSucc, c, x) => Complete(x)
        BY <1>1, <2>2, <3>4 DEF WalkInv, L
      <4>5. ASSUME NEW x \in ReachableBlocks(domSucc), Dominates(domSucc, c, x) PROVE Complete(x)'
        BY <1>1, <1>8, <2>2, <3>4, <4>4, <4>5, StaysComplete
      <4> QED BY <3>1, <4>3, <4>4, <4>5
    <3> QED BY <1>6, <2>2, <3>1, <3>2, <3>3, <3>4
  <2> QED BY <1>5, <2>1, <2>2
<1> QED
  BY <1>1, <1>2, <1>4, <1>9 DEF WalkInv

LEMMA WalkReturns ==
    ASSUME DomTypeOK, SdomInv, TreeInv, PathInv, Apart', WalkInv, DomfReturn
    PROVE  WalkInv'
<1> DEFINE L  == Len(stack)
           M  == Len(stack) - 1
           k  == stack[L].block
           b  == stack[M].block
<1>1. /\ domPhase = "domf" /\ domPhase' = "domf" /\ domPhase \notin {"dom", "sdom"}
      /\ domSucc' = domSucc /\ sdom' = sdom
  BY DEF DomfReturn
<1>2. /\ L \in Nat /\ L >= 2 /\ M \in Nat /\ M >= 1 /\ L = M + 1
      /\ \A i \in 1..L : stack[i] \in DomFrame
      /\ stack[L].child = NULL
      /\ Len(stack') = M
      /\ \A i \in 1..(M - 1) : stack'[i] = stack[i]
      /\ stack'[M].block = b /\ stack'[M].child = domS[k]
  BY ReturnStack
<1>3. k \in Block /\ b \in Block /\ M \in 1..L /\ L \in 1..L
  <2>1. M \in 1..L /\ L \in 1..L
    BY <1>2
  <2> QED BY <1>2, <2>1 DEF DomFrame
<1>4. \A x \in Block : domf'[x] = IF x = b THEN domf[x] \union Up(b, k) ELSE domf[x]
  <2>1. domf' = [domf EXCEPT ![b] = @ \union Up(b, k)]
    BY DEF DomfReturn, TopFrame
  <2> QED BY <1>3, <2>1 DEF DomTypeOK
<1>5. stack[M].child = k /\ sdom[k] = b
  <2>1. M \in 1..(Len(stack) - 1)
    BY <1>2
  <2>2. stack[M + 1].block = stack[M].child
    BY <1>1, <2>1 DEF PathInv
  <2>3. stack[M].child = k
    BY <1>2, <2>2
  <2>4. k # NULL
    BY <1>3 DEF NULL, Block
  <2> QED BY <1>1, <1>3, <2>3, <2>4 DEF PathInv
<1> HIDE DEF M, k, b
<1>6. /\ ReachableBlocks(domSucc)' = ReachableBlocks(domSucc)
      /\ \A y \in ReachableBlocks(domSucc) : y \in Block /\ Reachable(domSucc, y)
  BY <1>1 DEF ReachableBlocks, Reachable
<1>7. \A i \in 1..M : (i \in 1..(M - 1) \/ i = M) /\ i \in 1..L
  BY <1>2
<1> HIDE DEF L
<1>e. domSucc \in Edges /\ stack'[M].block = b /\ M \in 1..Len(stack')
  <2>1. M \in 1..M
    BY <1>2
  <2> QED BY <1>2, <2>1 DEF DomTypeOK
<1>8. ASSUME NEW i \in 1..M, NEW c \in ReachableBlocks(domSucc), Walked(i, c)',
             NEW x \in ReachableBlocks(domSucc), Dominates(domSucc, c, x)
      PROVE  domf'[x] = domf[x]
  <2>1. i \in 1..Len(stack')
    BY <1>2
  <2>2. x # b
    BY <1>1, <1>6, <1>8, <1>e, <2>1 DEF Apart
  <2> QED BY <1>4, <1>6, <2>2
<1>9. ASSUME NEW i \in 1..M, NEW c \in ReachableBlocks(domSucc), Walked(i, c)', Walked(i, c)
      PROVE  /\ Up(stack[i].block, c)' \subseteq domf[stack[i].block]
             /\ \A x \in ReachableBlocks(domSucc) : Dominates(domSucc, c, x) => Complete(x)'
  <2>1. stack'[i].block = stack[i].block /\ i \in 1..L
    BY <1>2, <1>7, <1>e DEF b
  <2>2. domf'[c] = domf[c]
    BY <1>6, <1>8, <1>9, <1>e, DominatesSelf
  <2>3. Up(stack[i].block, c)' = Up(stack[i].block, c)
    BY <1>1, <2>1, <2>2 DEF Up
  <2>4. /\ Up(stack[i].block, c) \subseteq domf[stack[i].block]
        /\ \A x \in ReachableBlocks(domSucc) : Dominates(domSucc, c, x) => Complete(x)
    BY <1>1, <1>9, <2>1 DEF WalkInv, L
  <2>5. ASSUME NEW x \in ReachableBlocks(domSucc), Dominates(domSucc, c, x) PROVE Complete(x)'
    BY <1>1, <1>8, <1>9, <2>4, <2>5, StaysComplete
  <2> QED BY <2>3, <2>4, <2>5
<1>10. ASSUME NEW i \in 1..M, i = M, NEW c \in ReachableBlocks(domSucc), Walked(i, c)', c # k
       PROVE  Walked(i, c)
  <2>1. sdom[c] = b /\ c > domS[k] /\ c \in Block
    BY <1>1, <1>2, <1>6, <1>10, <1>e DEF Walked
  <2>2. ~(c < k)
    <3> SUFFICES ASSUME c < k PROVE FALSE
      OBVIOUS
    <3>1. Hung(k) /\ sdom[k] # NULL /\ sdom[c] = sdom[k]
      BY <1>1, <1>3, <1>5, <2>1 DEF Hung, NULL, Block
    <3>2. c <= domS[k]
      BY <1>1, <1>3, <2>1, <3>1 DEF TreeInv
    <3>3. domS[k] \in Nat /\ c \in Nat
      BY <1>3, <2>1 DEF DomTypeOK, Block, NULL
    <3> QED BY <2>1, <3>2, <3>3
  <2>3. c > k
    BY <1>3, <1>10, <2>1, <2>2 DEF Block
  <2>4. i \in 1..Len(stack)
    BY <1>3, <1>10 DEF L
  <2> QED BY <1>5, <1>10, <2>1, <2>3, <2>4 DEF Walked, b
<1>11. ASSUME NEW i \in 1..M, NEW c \in ReachableBlocks(domSucc), Walked(i, c)', c = k
       PROVE  \A x \in ReachableBlocks(domSucc) : Dominates(domSucc, c, x) => Complete(x)'
  <2> SUFFICES ASSUME NEW x \in ReachableBlocks(domSucc), Dominates(domSucc, c, x)
               PROVE  Complete(x)'
    OBVIOUS
  <2>1. L \in 1..Len(stack) /\ stack[L].block = k /\ stack[L].child = NULL
    BY <1>2, <1>3 DEF L, k
  <2>2. ASSUME NEW e \in ReachableBlocks(domSucc), sdom[e] = k
        PROVE  Walked(L, e)
    <3>1. e > 0
      BY <1>6 DEF Block
    <3> QED BY <2>1, <2>2, <3>1 DEF Walked, NULL
  <2>3. Complete(k)
    <3>1. Local(k) \subseteq domf[k]
      BY <1>1, <2>1 DEF WalkInv
    <3>2. \A e \in ReachableBlocks(domSucc) : sdom[e] = k => Up(k, e) \subseteq domf[k]
      BY <1>1, <2>1, <2>2 DEF WalkInv
    <3> QED BY <3>1, <3>2 DEF Complete
  <2>4. Complete(x)
    <3>1. CASE x = k
      BY <2>3, <3>1
    <3>2. CASE x # k
      <4>1. PICK e \in ReachableBlocks(domSucc) : sdom[e] = k /\ Dominates(domSucc, e, x)
        BY <1>1, <1>11, <3>2, ChildToward
      <4> QED BY <1>1, <2>1, <2>2, <4>1 DEF WalkInv
    <3> QED BY <3>1, <3>2
  <2>5. \A y \in ReachableBlocks(domSucc) : Dominates(domSucc, c, y) => domf'[y] = domf[y]
    BY <1>8, <1>11
  <2> QED BY <1>1, <2>4, <2>5, StaysComplete
<1>12. ASSUME NEW i \in 1..M
       PROVE  /\ Local(stack[i].block)' \subseteq domf'[stack'[i].block]
              /\ \A c \in ReachableBlocks(domSucc) : Walked(i, c)' =>
                    /\ Up(stack[i].block, c)' \subseteq domf'[stack'[i].block]
                    /\ \A x \in ReachableBlocks(domSucc) : Dominates(domSucc, c, x) => Complete(x)'
  <2> DEFINE a == stack[i].block
  <2>1. a \in Block /\ stack'[i].block = a /\ i \in 1..L
    BY <1>2, <1>7, <1>e DEF b, DomFrame
  <2>2. domf[a] \subseteq domf'[a]
    BY <1>4, <2>1
  <2>3. Local(stack[i].block)' \subseteq domf'[a]
    <3>1. Local(a) \subseteq domf[a]
      BY <1>1, <2>1 DEF WalkInv, L
    <3>2. Local(stack[i].block)' = Local(a)
      BY <1>1, <2>1 DEF Local
    <3> QED BY <2>2, <3>1, <3>2
  <2>4. ASSUME NEW c \in ReachableBlocks(domSucc), Walked(i, c)'
        PROVE  /\ Up(stack[i].block, c)' \subseteq domf'[a]
               /\ \A x \in ReachableBlocks(domSucc) : Dominates(domSucc, c, x) => Complete(x)'
    <3>1. CASE Walked(i, c)
      BY <1>9, <2>2, <2>4, <3>1
    <3>2. CASE i = M /\ c = k
      <4>1. domf'[c] = domf[c]
        BY <1>6, <1>8, <1>e, <2>4, DominatesSelf
      <4>2. Up(stack[i].block, c)' = Up(b, k)
        BY <1>1, <1>e, <3>2, <4>1 DEF Up
      <4>3. a = b
        BY <3>2 DEF b
      <4>4. Up(b, k) \subseteq domf'[b]
        BY <1>3, <1>4
      <4>5. \A x \in ReachableBlocks(domSucc) : Dominates(domSucc, c, x) => Complete(x)'
        BY <1>11, <2>4, <3>2
      <4> QED BY <4>2, <4>3, <4>4, <4>5
    <3>3. CASE i # M
      <4>1. stack'[i] = stack[i] /\ i \in 1..Len(stack)
        BY <1>2, <1>7, <2>1, <3>3 DEF L
      <4>2. Walked(i, c)
        BY <1>1, <1>6, <2>4, <4>1 DEF Walked
      <4> QED BY <3>1, <4>2
    <3>4. CASE i = M /\ c # k
      BY <1>10, <2>4, <3>1, <3>4
    <3> QED BY <3>2, <3>3, <3>4
  <2> QED BY <2>1, <2>3, <2>4
<1> QED
  BY <1>1, <1>2, <1>6, <1>12 DEF WalkInv

LEMMA WalkInvariant ==
    ASSUME \A g \in FlowGraphs : OrphansIsolated(g)
    PROVE  DomSpec => []WalkInv
<1>1. DomInit => WalkInv
  BY DEF DomInit, WalkInv
<1>2. DomTypeOK /\ SdomInv /\ TreeInv /\ PathInv /\ Apart' /\ WalkInv /\ [DomNext]_domVars => WalkInv'
  <2> SUFFICES ASSUME DomTypeOK, SdomInv, TreeInv, PathInv, Apart', WalkInv, [DomNext]_domVars
               PROVE  WalkInv'
    OBVIOUS
  <2>0. Entry \in Block /\ \A y \in ReachableBlocks(domSucc) : y \in Block
    BY EntryReachable DEF DomTypeOK, ReachableBlocks
  <2>1. CASE Descend
    BY <2>1, WalkDescends
  <2>2. CASE DomfReturn
    BY <2>2, WalkReturns
  <2>3. CASE DomTreeDone
    <3>1. /\ domPhase = "tree" /\ domAt = N + 1 /\ domPhase' = "domf" /\ UNCHANGED <<domSucc, sdom>>
          /\ stack' = <<[block |-> Entry, child |-> domC[Entry]]>>
          /\ domf' = [domf EXCEPT ![Entry] = @ \union Local(Entry)]
      BY <2>3 DEF DomTreeDone, Activate
    <3>2. Len(stack') = 1 /\ stack'[1].block = Entry /\ stack'[1].child = domC[Entry]
      BY <3>1
    <3>3. Local(Entry) \subseteq domf'[Entry]
      BY <2>0, <3>1 DEF DomTypeOK
    <3>4. ASSUME NEW i \in 1..1
          PROVE  /\ Local(stack[i].block)' \subseteq domf'[stack'[i].block]
                 /\ \A c \in ReachableBlocks(domSucc) : ~Walked(i, c)'
      <4>1. i = 1
        OBVIOUS
      <4>2. Local(stack[i].block)' = Local(Entry)
        BY <3>1, <3>2, <4>1 DEF Local
      <4>3. ASSUME NEW c \in ReachableBlocks(domSucc), Walked(i, c)'
            PROVE  FALSE
        <5>1. sdom[c] = Entry /\ c > domC[Entry] /\ c \in Block
          BY <2>0, <3>1, <3>2, <4>1, <4>3 DEF Walked
        <5>2. Hung(c) /\ sdom[c] # NULL
          BY <3>1, <5>1, NAssumption DEF Hung, Block, Entry, NULL
        <5>3. c <= domC[Entry]
          BY <3>1, <5>1, <5>2 DEF TreeInv
        <5>4. domC[Entry] \in Nat /\ c \in Nat
          BY <2>0, <5>1 DEF DomTypeOK, Block, NULL
        <5> QED BY <5>1, <5>3, <5>4
      <4> QED BY <3>2, <3>3, <4>1, <4>2, <4>3
    <3>5. ReachableBlocks(domSucc)' = ReachableBlocks(domSucc)
      BY <3>1
    <3> QED BY <3>1, <3>2, <3>4, <3>5 DEF WalkInv
  <2>4. CASE DomfDone
    <3>1. /\ domPhase = "domf" /\ domPhase' = "done" /\ UNCHANGED <<domSucc, sdom, domf>>
          /\ Len(stack) = 1 /\ stack[1].child = NULL
      BY <2>4 DEF DomfDone, TopFrame
    <3>2. 1 \in 1..Len(stack) /\ stack[1].block = Entry
      BY <3>1 DEF PathInv
    <3>3. ASSUME NEW c \in ReachableBlocks(domSucc), sdom[c] = Entry
          PROVE  Walked(1, c)
      <4>1. c > 0
        BY <2>0 DEF Block
      <4> QED BY <3>1, <3>2, <3>3, <4>1 DEF Walked, NULL
    <3>4. Complete(Entry)
      <4>1. Local(Entry) \subseteq domf[Entry]
        BY <3>1, <3>2 DEF WalkInv
      <4>2. \A c \in ReachableBlocks(domSucc) : sdom[c] = Entry => Up(Entry, c) \subseteq domf[Entry]
        BY <3>1, <3>2, <3>3 DEF WalkInv
      <4> QED BY <4>1, <4>2 DEF Complete
    <3>5. ASSUME NEW x \in ReachableBlocks(domSucc) PROVE Complete(x)
      <4>1. CASE x = Entry
        BY <3>4, <4>1
      <4>2. CASE x # Entry
        <5>1. Dominates(domSucc, Entry, x) /\ Entry \in ReachableBlocks(domSucc)
          BY <2>0, EntryDominates, EntryReachable DEF ReachableBlocks, DomTypeOK
        <5>2. PICK c \in ReachableBlocks(domSucc) : sdom[c] = Entry /\ Dominates(domSucc, c, x)
          BY <3>1, <4>2, <5>1, ChildToward
        <5> QED BY <3>1, <3>2, <3>3, <5>2 DEF WalkInv
      <4> QED BY <4>1, <4>2
    <3>6. \A x \in ReachableBlocks(domSucc) : Complete(x)'
      BY <3>1, <3>5 DEF Complete, Local, Up
    <3>7. ReachableBlocks(domSucc)' = ReachableBlocks(domSucc)
      BY <3>1
    <3> QED BY <3>1, <3>6, <3>7 DEF WalkInv
  <2>5. CASE domPhase' \notin {"domf", "done"}
    BY <2>5 DEF WalkInv
  <2>6. CASE UNCHANGED domVars
    BY <2>6 DEF domVars, WalkInv, Walked, Complete, Local, Up
  <2> QED
    BY <2>1, <2>2, <2>3, <2>4, <2>5, <2>6
    DEF DomNext, SweepBlock, SweepAgain, SweepDone, SdomBlock, SdomDone, TreeBlock
<1> QED
  BY <1>1, <1>2, TypeCorrect, SdomInvariant, TreeInvariant, PathInvariant, WalkedIsApart, PTL
  DEF DomSpec
-----------------------------------------------------------------------------
(* Nothing but the frontier enters domf: a successor that the block is not *)
(* the sdom of is not strictly dominated by it, and neither is what a      *)
(* child leaves over.                                                      *)
DeadEnds == \A c \in Block : domSucc[c] # {} => Reachable(domSucc, c)

UpperInv ==
    DeadEnds => \A b \in Block : \A f \in domf[b] :
                   b \in ReachableBlocks(domSucc) /\ f \in Frontier(domSucc, b)

LEMMA LocalIsFrontier ==
    ASSUME DomTypeOK, SdomInv, DeadEnds, domPhase \notin {"dom", "sdom"},
           NEW b \in Block, NEW f \in Local(b)
    PROVE  b \in ReachableBlocks(domSucc) /\ f \in Frontier(domSucc, b)
<1>1. domSucc \in Edges /\ f \in domSucc[b] /\ sdom[f] # b
  BY DEF DomTypeOK, Local
<1>2. b \in ReachableBlocks(domSucc) /\ Reachable(domSucc, b)
  BY <1>1 DEF DeadEnds, ReachableBlocks
<1>3. f \in ReachableBlocks(domSucc) /\ f \in Block /\ Reachable(domSucc, f)
  BY <1>1, <1>2, SuccessorReachable DEF ReachableBlocks
<1>4. Dominates(domSucc, b, b)
  BY <1>1, DominatesSelf
<1>5. ASSUME b # f, Dominates(domSucc, b, f) PROVE FALSE
  <2>1. f # Entry
    <3> SUFFICES ASSUME f = Entry PROVE FALSE
      OBVIOUS
    <3>1. Dominates(domSucc, f, b)
      BY <1>1, EntryDominates
    <3> QED BY <1>1, <1>3, <1>5, <3>1, DominatesAntisym
  <2> DEFINE e == sdom[f]
  <2>2. e # NULL
    BY <1>3, <2>1, SdomExists
  <2>3. /\ e \in Block /\ Reachable(domSucc, e) /\ e # f /\ Dominates(domSucc, e, f)
        /\ Dominates(domSucc, b, e)
    BY <1>3, <1>5, <2>2, SdomOfReachable
  <2> HIDE DEF e
  <2>4. Dominates(domSucc, e, b)
    BY <1>1, <1>3, <2>3, DominatorsOfPredecessors DEF Dominators
  <2>5. e = b
    BY <1>1, <1>2, <2>3, <2>4, DominatesAntisym
  <2> QED BY <1>1, <2>5 DEF e
<1> QED
  BY <1>1, <1>2, <1>3, <1>4, <1>5 DEF Frontier, StrictDominators, Dominators

LEMMA UpIsFrontier ==
    ASSUME DomTypeOK, SdomInv, domPhase \notin {"dom", "sdom"},
           NEW b \in Block, NEW c \in ReachableBlocks(domSucc), sdom[c] = b,
           domf[c] \subseteq Frontier(domSucc, c), NEW f \in Up(b, c)
    PROVE  b \in ReachableBlocks(domSucc) /\ f \in Frontier(domSucc, b)
<1>1. domSucc \in Edges /\ f \in Block /\ sdom[f] # b /\ f \in Frontier(domSucc, c) /\ c \in Block
  BY DEF DomTypeOK, Up, ReachableBlocks
<1>2. PICK p \in ReachableBlocks(domSucc) : f \in domSucc[p] /\ Dominates(domSucc, c, p)
  BY <1>1 DEF Frontier, ReachableBlocks
<1>3. /\ p \in Block /\ Reachable(domSucc, p)
      /\ f \in ReachableBlocks(domSucc) /\ Reachable(domSucc, f)
  BY <1>1, <1>2, SuccessorReachable DEF ReachableBlocks
<1>4. /\ Reachable(domSucc, c) /\ Reachable(domSucc, b) /\ b # c /\ Dominates(domSucc, b, c)
      /\ \A d \in Block : d # c /\ Dominates(domSucc, d, c) => Dominates(domSucc, d, b)
  BY SdomOfReachable DEF NULL, Block
<1>5. Dominates(domSucc, b, p)
  BY <1>1, <1>2, <1>3, <1>4, DominatesTrans
<1>6. ASSUME b # f, Dominates(domSucc, b, f) PROVE FALSE
  <2>1. f # Entry
    <3> SUFFICES ASSUME f = Entry PROVE FALSE
      OBVIOUS
    <3>1. Dominates(domSucc, f, b)
      BY <1>1, EntryDominates
    <3> QED BY <1>1, <1>3, <1>6, <3>1, DominatesAntisym
  <2> DEFINE e == sdom[f]
  <2>2. e # NULL
    BY <1>3, <2>1, SdomExists
  <2>3. /\ e \in Block /\ Reachable(domSucc, e) /\ e # f /\ Dominates(domSucc, e, f)
        /\ Dominates(domSucc, b, e)
        /\ \A d \in Block : d # f /\ Dominates(domSucc, d, f) => Dominates(domSucc, d, e)
    BY <1>3, <1>6, <2>2, SdomOfReachable
  <2>4. Dominates(domSucc, e, p)
    BY <1>1, <1>2, <1>3, <2>3, DominatorsOfPredecessors DEF Dominators
  <2> HIDE DEF e
  <2>5. CASE Dominates(domSucc, c, e)
    <3>1. Dominates(domSucc, c, f)
      BY <1>1, <2>3, <2>5, DominatesTrans
    <3>2. c # f
      BY <1>1 DEF e
    <3> QED BY <1>1, <3>1, <3>2 DEF Frontier, StrictDominators, Dominators
  <2>6. CASE e # c /\ Dominates(domSucc, e, c)
    <3>1. Dominates(domSucc, e, b)
      BY <1>4, <2>3, <2>6
    <3>2. e = b
      BY <1>1, <1>4, <2>3, <3>1, DominatesAntisym
    <3> QED BY <1>1, <3>2 DEF e
  <2>7. CASE e = c
    BY <1>1, <2>5, <2>7, DominatesSelf
  <2> QED BY <1>1, <1>2, <1>3, <2>3, <2>4, <2>5, <2>6, <2>7, DominatorsAreAChain
<1> QED
  BY <1>1, <1>2, <1>4, <1>5, <1>6 DEF Frontier, StrictDominators, Dominators, ReachableBlocks

LEMMA UpperInvariant ==
    ASSUME \A g \in FlowGraphs : OrphansIsolated(g)
    PROVE  DomSpec => []UpperInv
<1>1. DomInit => UpperInv
  BY DEF DomInit, UpperInv
<1>2. DomTypeOK /\ SdomInv /\ PathInv /\ UpperInv /\ [DomNext]_domVars => UpperInv'
  <2> SUFFICES ASSUME DomTypeOK, SdomInv, PathInv, UpperInv, [DomNext]_domVars PROVE UpperInv'
    OBVIOUS
  <2>s. domSucc' = domSucc
    BY DEF DomNext, domVars, SweepBlock, SweepAgain, SweepDone, SdomBlock, SdomDone,
           TreeBlock, DomTreeDone, Descend, DomfReturn, DomfDone
  <2> SUFFICES ASSUME DeadEnds
               PROVE  \A b \in Block : \A f \in domf'[b] :
                         b \in ReachableBlocks(domSucc) /\ f \in Frontier(domSucc, b)
    BY <2>s DEF UpperInv, DeadEnds
  <2>0. \A b \in Block : \A f \in domf[b] : b \in ReachableBlocks(domSucc) /\ f \in Frontier(domSucc, b)
    BY DEF UpperInv
  <2>1. ASSUME domPhase \notin {"dom", "sdom"}, NEW k \in Block,
               domf' = [domf EXCEPT ![k] = @ \union Local(k)],
               NEW b \in Block, NEW f \in domf'[b]
        PROVE  b \in ReachableBlocks(domSucc) /\ f \in Frontier(domSucc, b)
    <3>1. f \in domf[b] \/ (b = k /\ f \in Local(k))
      BY <2>1 DEF DomTypeOK
    <3> QED BY <2>0, <2>1, <3>1, LocalIsFrontier
  <2>2. CASE DomTreeDone
    <3>1. domPhase = "tree" /\ domf' = [domf EXCEPT ![Entry] = @ \union Local(Entry)] /\ Entry \in Block
      BY <2>2, EntryReachable DEF DomTreeDone, Activate, DomTypeOK
    <3> QED BY <2>1, <3>1
  <2>3. CASE Descend
    <3>1. domPhase = "domf" /\ domf' = [domf EXCEPT ![TopFrame.child] = @ \union Local(TopFrame.child)]
      BY <2>3 DEF Descend, Activate
    <3>2. TopFrame.child \in Block
      BY <2>3, DescendStack
    <3> QED BY <2>1, <3>1, <3>2
  <2>4. CASE DomfReturn
    <3> DEFINE M == Len(stack) - 1
               b == stack[M].block
               c == stack[Len(stack)].block
    <3>1. domPhase = "domf" /\ domf' = [domf EXCEPT ![b] = @ \union Up(b, c)]
      BY <2>4 DEF DomfReturn, TopFrame
    <3>2. /\ M \in 1..(Len(stack) - 1) /\ M \in 1..Len(stack) /\ M + 1 = Len(stack)
          /\ Len(stack) \in 1..Len(stack)
          /\ \A i \in 1..Len(stack) : stack[i] \in DomFrame
      BY <2>4, ReturnStack
    <3>3. b \in Block /\ c \in Block /\ c = stack[M].child
      <4>1. b \in Block /\ c \in Block
        BY <3>2 DEF DomFrame
      <4>2. stack[M + 1].block = stack[M].child
        BY <3>1, <3>2 DEF PathInv
      <4> QED BY <3>2, <4>1, <4>2
    <3>4. sdom[c] = b
      <4>1. c # NULL
        BY <3>3 DEF NULL, Block
      <4> QED BY <3>1, <3>2, <3>3, <4>1 DEF PathInv
    <3> HIDE DEF M, b, c
    <3> SUFFICES ASSUME NEW x \in Block, NEW f \in domf'[x]
                 PROVE  x \in ReachableBlocks(domSucc) /\ f \in Frontier(domSucc, x)
      OBVIOUS
    <3>5. f \in domf[x] \/ (x = b /\ f \in Up(b, c))
      BY <3>1, <3>3 DEF DomTypeOK
    <3>6. ASSUME f \in Up(b, c)
          PROVE  b \in ReachableBlocks(domSucc) /\ f \in Frontier(domSucc, b)
      <4>1. c \in ReachableBlocks(domSucc)
        BY <2>0, <3>3, <3>6 DEF Up
      <4>2. domf[c] \subseteq Frontier(domSucc, c)
        BY <2>0, <3>3
      <4> QED BY <3>1, <3>3, <3>4, <3>6, <4>1, <4>2, UpIsFrontier
    <3> QED BY <2>0, <3>5, <3>6
  <2>5. CASE UNCHANGED domf
    BY <2>0, <2>5
  <2> QED
    BY <2>2, <2>3, <2>4, <2>5
    DEF DomNext, domVars, SweepBlock, SweepAgain, SweepDone, SdomBlock, SdomDone, TreeBlock, DomfDone
<1> QED
  BY <1>1, <1>2, TypeCorrect, SdomInvariant, PathInvariant, PTL DEF DomSpec

(* When all reachable blocks are complete, none misses a join: of those on *)
(* the way from b to a predecessor of the join take the last that misses   *)
(* it; its child on that way would hand it up.                             *)
LEMMA CompleteMissesNone ==
    ASSUME DomTypeOK, SdomInv, domPhase \notin {"dom", "sdom"},
           \A x \in ReachableBlocks(domSucc) : Complete(x),
           NEW b \in ReachableBlocks(domSucc), NEW f \in Frontier(domSucc, b)
    PROVE  f \in domf[b]
<1> SUFFICES ASSUME f \notin domf[b] PROVE FALSE
  OBVIOUS
<1>0. /\ domSucc \in Edges /\ f \in Block
      /\ \A y \in ReachableBlocks(domSucc) : y \in Block /\ Reachable(domSucc, y)
  BY DEF DomTypeOK, Frontier, ReachableBlocks
<1>1. PICK p \in ReachableBlocks(domSucc) : f \in domSucc[p] /\ Dominates(domSucc, b, p)
  BY DEF Frontier, ReachableBlocks
<1>2. f \in ReachableBlocks(domSucc)
  BY <1>0, <1>1, SuccessorReachable DEF ReachableBlocks
<1> DEFINE S == {x \in ReachableBlocks(domSucc) :
                    /\ Dominates(domSucc, x, p)
                    /\ x = f \/ ~Dominates(domSucc, x, f)
                    /\ f \notin domf[x]}
<1>3. b \in S
  BY <1>0, <1>1 DEF Frontier, StrictDominators, Dominators
<1>4. PICK d \in S : \A e \in S \ {d} : ~Dominates(domSucc, d, e)
  <2>1. S \in SUBSET ReachableBlocks(domSucc) /\ S # {}
    BY <1>3
  <2> QED BY <1>0, <2>1, DeepestExists
<1>5. CASE d = p
  <2>1. sdom[f] # d
    <3> SUFFICES ASSUME sdom[f] = d PROVE FALSE
      OBVIOUS
    <3>1. sdom[f] # NULL
      BY <1>0 DEF NULL, Block
    <3>2. d # f /\ Dominates(domSucc, d, f)
      BY <1>2, <3>1, SdomOfReachable
    <3> QED BY <3>2
  <2>2. f \in Local(d)
    BY <1>1, <1>5, <2>1 DEF Local
  <2> QED BY <2>2 DEF Complete
<1>6. CASE d # p
  <2>1. PICK c \in ReachableBlocks(domSucc) : sdom[c] = d /\ Dominates(domSucc, c, p)
    BY <1>6, ChildToward
  <2>2. d \in Block /\ d # NULL /\ d # c /\ Dominates(domSucc, d, c)
    BY <1>0, <2>1, SdomOfReachable DEF NULL, Block
  <2>3. c \notin S
    BY <1>4, <2>2
  <2>4. CASE f \in domf[c]
    <3>1. sdom[f] # d
      <4> SUFFICES ASSUME sdom[f] = d PROVE FALSE
        OBVIOUS
      <4>1. d # f /\ Dominates(domSucc, d, f)
        BY <1>2, <2>2, SdomOfReachable
      <4> QED BY <4>1
    <3>2. f \in Up(d, c)
      BY <2>4, <3>1 DEF Up
    <3> QED BY <2>1, <3>2 DEF Complete
  <2>5. CASE c # f /\ Dominates(domSucc, c, f)
    <3>1. Dominates(domSucc, d, f)
      BY <1>0, <2>1, <2>2, <2>5, DominatesTrans
    <3>2. d = f
      BY <3>1
    <3>3. Dominates(domSucc, d, c) /\ Dominates(domSucc, c, d)
      BY <2>2, <2>5, <3>2
    <3> QED BY <1>0, <2>1, <2>2, <3>3, DominatesAntisym
  <2> QED BY <2>1, <2>3, <2>4, <2>5
<1> QED
  BY <1>5, <1>6

(* The recursion computes exactly the dominance frontiers.                 *)
THEOREM FrontiersAreExact ==
    ASSUME \A g \in FlowGraphs : OrphansIsolated(g)
    PROVE  DomSpec => []FrontierExact
<1>1. DomTypeOK /\ SdomInv /\ WalkInv /\ UpperInv => FrontierExact
  <2> SUFFICES ASSUME DomTypeOK, SdomInv, WalkInv, UpperInv, domPhase = "done",
                      NEW b \in ReachableBlocks(domSucc)
               PROVE  /\ Frontier(domSucc, b) \subseteq domf[b]
                      /\ DeadEnds => domf[b] \subseteq Frontier(domSucc, b)
    BY DEF FrontierExact, DeadEnds
  <2>1. b \in Block /\ domPhase \notin {"dom", "sdom"}
    BY DEF ReachableBlocks
  <2>2. \A x \in ReachableBlocks(domSucc) : Complete(x)
    BY DEF WalkInv
  <2>3. Frontier(domSucc, b) \subseteq domf[b]
    BY <2>1, <2>2, CompleteMissesNone
  <2> QED BY <2>1, <2>3 DEF UpperInv
<1> QED
  BY <1>1, TypeCorrect, SdomInvariant, WalkInvariant, UpperInvariant, PTL
=============================================================================
