--------------------------- MODULE FlowGraphProofs ---------------------------
(***************************************************************************)
(* Facts about flow graphs of any size that the proofs about the passes    *)
(* share: dominance among the blocks, and least and greatest numbers.      *)
(***************************************************************************)
EXTENDS FlowGraph, SequenceTheorems, FiniteSetTheorems, NaturalsInduction,
        WellFoundedInduction, TLAPS

(* Some number of a set is the least.                                      *)
LEMMA LeastNat ==
    ASSUME NEW T, T \subseteq Nat, T # {}
    PROVE  \E x \in T : \A y \in T : x <= y
<1> DEFINE R == {p \in Nat \X Nat : p[1] < p[2]}
<1>1. IsWellFoundedOn(R, Nat)
  BY NatLessThanWellFounded DEF OpToRel
<1>2. PICK x \in T : \A y \in T : ~(<<y, x>> \in R)
  BY <1>1, WFMin
<1>3. \A y \in T : ~(y < x)
  BY <1>2
<1> QED
  BY <1>3

LEMMA GreatestNat ==
    ASSUME NEW n \in Nat, NEW T, T \subseteq 1 .. n, T # {}
    PROVE  \E x \in T : \A y \in T : y <= x
<1> DEFINE D == {d \in 0 .. n : n - d \in T}
<1>1. PICK t \in T : TRUE
  OBVIOUS
<1>2. t \in 1 .. n /\ n - t \in 0 .. n /\ n - (n - t) = t
  OBVIOUS
<1>3. n - t \in D
  BY <1>2, Zenon
<1>4. PICK d \in D : \A e \in D : d <= e
  <2>1. D # {}
    BY <1>3, Zenon
  <2>2. D \subseteq Nat
    OBVIOUS
  <2> HIDE DEF D
  <2> QED BY <2>1, <2>2, LeastNat
<1>5. \A y \in T : y <= n - d
  <2> TAKE y \in T
  <2>1. y \in 1 .. n /\ n - y \in 0 .. n /\ n - (n - y) = y
    OBVIOUS
  <2>2. n - y \in D
    BY <2>1, Zenon
  <2>3. d <= n - y /\ d \in 0 .. n
    BY <1>4, <2>2
  <2> QED BY <2>1, <2>3
<1>6. n - d \in T
  BY <1>4
<1> QED
  BY <1>5, <1>6

(* A dominator of b other than b dominates every predecessor of b: the     *)
(* closed set that shows the contrary for a predecessor would hold b too.  *)
LEMMA DominatorsOfPredecessors ==
    ASSUME NEW g \in Edges, NEW b \in Block, NEW p \in Block,
           b \in g[p],
           NEW d \in Dominators(g, b), d # b
    PROVE  d \in Dominators(g, p)
<1>1. PICK S \in SUBSET (Block \ {d}) :
        /\ d # Entry => Entry \in S
        /\ ClosedAvoiding(g, S, d)
        /\ b \notin S
  BY DEF Dominators, Dominates
<1>2. p \notin S
  BY <1>1 DEF ClosedAvoiding
<1> QED
  BY <1>1, <1>2 DEF Dominators, Dominates

LEMMA EntryDominates ==
    ASSUME NEW g \in Edges, NEW b \in Block
    PROVE  Dominates(g, Entry, b)
<1>1. {} \in SUBSET (Block \ {Entry}) /\ ClosedAvoiding(g, {}, Entry) /\ b \notin {}
  BY DEF ClosedAvoiding
<1> QED
  BY <1>1 DEF Dominates

LEMMA DominatesSelf ==
    ASSUME NEW g \in Edges, NEW b \in Block
    PROVE  Dominates(g, b, b)
<1>1. /\ Block \ {b} \in SUBSET (Block \ {b})
      /\ b # Entry => Entry \in Block \ {b}
      /\ ClosedAvoiding(g, Block \ {b}, b)
  BY NAssumption DEF ClosedAvoiding, Edges, Entry, Block
<1> QED
  BY <1>1 DEF Dominates

LEMMA DominatesTrans ==
    ASSUME NEW g \in Edges, NEW b \in Block, NEW d \in Block, NEW e \in Block,
           Dominates(g, d, e), Dominates(g, e, b)
    PROVE  Dominates(g, d, b)
<1>1. CASE d = Entry
  BY <1>1, EntryDominates
<1>2. CASE d # Entry
  <2>1. PICK S \in SUBSET (Block \ {d}) :
          Entry \in S /\ ClosedAvoiding(g, S, d) /\ e \notin S
    BY <1>2 DEF Dominates
  <2>2. PICK T \in SUBSET (Block \ {e}) :
          Entry \in T /\ ClosedAvoiding(g, T, e) /\ b \notin T
    BY <2>1 DEF Dominates
  <2>3. ClosedAvoiding(g, S \intersect T, d)
    BY <2>1, <2>2 DEF ClosedAvoiding
  <2>4. S \intersect T \in SUBSET (Block \ {d}) /\ Entry \in S \intersect T /\ b \notin S \intersect T
    BY <2>1, <2>2
  <2> QED BY <2>3, <2>4 DEF Dominates
<1> QED
  BY <1>1, <1>2

LEMMA DominatesAntisym ==
    ASSUME NEW g \in Edges, NEW d \in Block, NEW e \in Block,
           Reachable(g, e), Dominates(g, d, e), Dominates(g, e, d)
    PROVE  d = e
<1> SUFFICES ASSUME d # e PROVE FALSE
  OBVIOUS
<1>1. PICK S \in SUBSET (Block \ {d}) :
        (d # Entry => Entry \in S) /\ ClosedAvoiding(g, S, d) /\ e \notin S
  BY DEF Dominates
<1>2. PICK T \in SUBSET (Block \ {e}) :
        (e # Entry => Entry \in T) /\ ClosedAvoiding(g, T, e) /\ d \notin T
  BY DEF Dominates
<1>3. Entry \in S \intersect T
  BY <1>1, <1>2
<1>4. \A x \in S \intersect T : g[x] \subseteq S \intersect T
  BY <1>1, <1>2 DEF ClosedAvoiding
<1>5. e \in S \intersect T
  BY <1>3, <1>4 DEF Reachable
<1> QED
  BY <1>1, <1>5

(* A dominator of a reachable block is reachable.                          *)
LEMMA DominatorReachable ==
    ASSUME NEW g \in Edges, NEW b \in Block, NEW d \in Block,
           Reachable(g, b), Dominates(g, d, b)
    PROVE  Reachable(g, d)
<1> SUFFICES ASSUME NEW T \in SUBSET Block, Entry \in T, \A x \in T : g[x] \subseteq T,
                    d \notin T
             PROVE  FALSE
  BY DEF Reachable
<1>1. PICK S \in SUBSET (Block \ {d}) :
        (d # Entry => Entry \in S) /\ ClosedAvoiding(g, S, d) /\ b \notin S
  BY DEF Dominates
<1>2. Entry \in S \intersect T /\ \A x \in S \intersect T : g[x] \subseteq S \intersect T
  BY <1>1 DEF ClosedAvoiding
<1>3. b \in S \intersect T
  BY <1>2 DEF Reachable
<1> QED
  BY <1>1, <1>3

(* Two dominators of a reachable block: one dominates the other.           *)
LEMMA DominatorsAreAChain ==
    ASSUME NEW g \in Edges, NEW b \in Block, NEW d \in Block, NEW e \in Block,
           Reachable(g, b), Dominates(g, d, b), Dominates(g, e, b)
    PROVE  Dominates(g, d, e) \/ Dominates(g, e, d)
<1> SUFFICES ASSUME ~Dominates(g, d, e), ~Dominates(g, e, d) PROVE FALSE
  OBVIOUS
<1>1. d # Entry /\ e # Entry
  BY EntryDominates
<1>2. PICK S \in SUBSET (Block \ {d}) : Entry \in S /\ ClosedAvoiding(g, S, d) /\ b \notin S
  BY <1>1 DEF Dominates
<1>3. PICK T \in SUBSET (Block \ {e}) : Entry \in T /\ ClosedAvoiding(g, T, e) /\ b \notin T
  BY <1>1 DEF Dominates
<1>4. e \in S /\ d \in T
  BY <1>2, <1>3 DEF Dominates
<1>5. \A x \in S \union T : g[x] \subseteq S \union T
  BY <1>2, <1>3, <1>4 DEF ClosedAvoiding
<1>6. b \in S \union T
  BY <1>2, <1>5 DEF Reachable
<1> QED
  BY <1>2, <1>3, <1>6

(* What an edge leads to from a reachable block is reachable.              *)
LEMMA SuccessorReachable ==
    ASSUME NEW g \in Edges, NEW p \in Block, Reachable(g, p), NEW b \in g[p]
    PROVE  b \in Block /\ Reachable(g, b)
BY DEF Reachable, Edges

LEMMA EntryReachable ==
    ASSUME NEW g \in Edges
    PROVE  Entry \in Block /\ Reachable(g, Entry)
BY NAssumption DEF Reachable, Entry, Block

LEMMA BlocksAreFinite == IsFiniteSet(Block) /\ Cardinality(Block) = N
<1>1. N \in Nat /\ 1 \in Int /\ N \in Int /\ N >= 1
  BY NAssumption
<1> QED
  BY <1>1, FS_Interval DEF Block
=============================================================================
