------------------------------- MODULE LoopTree -------------------------------
(* HIR_LOOP_mark_loops (src/hir/loop/ltree.c) on one function, and then    *)
(* HIR_LTREE_canonicalization, which puts a preheader in front of every    *)
(* loop (src/hir/loop/licm.c).                                             *)
(*                                                                         *)
(* The orders in which a set of blocks is walked are hash orders: any.     *)
(* The preheaders are the blocks above N.  A definition in front of        *)
(* another with the same parameters and used by none is a faulty variant   *)
(* named in PROJECT.json.                                                  *)
(***************************************************************************)
EXTENDS FlowGraph, Sequences, FiniteSets

CONSTANT Graphs     \* the flow graphs given to the passes

(* The entry holds the function header and is no jump target.              *)
ASSUME GraphsAssumption ==
    Graphs \subseteq {g \in Edges : \A b \in Block : Entry \notin g[b]}

AllBlocks == 1 .. 2 * N     \* loops with one header share a preheader

VARIABLES
    graph,      \* the successors before the passes, fixed
    dom,        \* cb->dom, fixed
    succ, pred, \* the blocks' sets
    treePhase,  \* "collect", "canonicalize", "done"
    at, edges,  \* the block of the outer loop, its back edges not yet taken
    walk,       \* the activations of _get_loop_blocks, innermost last
    cur,        \* the loop being collected
    loops,      \* the list of loop nodes
    parent,     \* node->p, by position in the list
    pre         \* loop->preheader, by position

treeVars == <<graph, dom, succ, pred, treePhase, at, edges, walk, cur, loops, parent, pre>>

(* What HIR_CFG_compute_dom arrives at, orphans included: a block without  *)
(* a predecessor is dominated by itself only.                              *)
ComputedDominator(g, d, b) ==
    LET starts == {Entry} \union Orphans(g)
    IN  \E S \in SUBSET (Block \ {d}) :
            /\ starts \ {d} \subseteq S
            /\ ClosedAvoiding(g, S, d)
            /\ b \notin S

OnAll(f) == [b \in AllBlocks |-> IF b \in Block THEN f[b] ELSE {}]

TreeInit ==
    /\ graph \in Graphs
    /\ dom = [b \in Block |-> {d \in Block : ComputedDominator(graph, d, b)}]
    /\ succ = OnAll(graph) /\ pred = OnAll(Mirror(graph))
    /\ treePhase = "collect" /\ at = 0 /\ edges = {}
    /\ walk = <<>> /\ cur = [header |-> NULL, latch |-> NULL, blocks |-> {}, exits |-> {}]
    /\ loops = <<>> /\ parent = <<>> /\ pre = <<>>

Closed == cur.header = NULL
---------------------------------------------------------------------------
(* _collect_loops_for_func                                                 *)
BackEdges(b) == {s \in succ[b] : s \in dom[b]}

NextBlock ==
    /\ treePhase = "collect" /\ Closed /\ edges = {} /\ at < N
    /\ at' = at + 1
    /\ edges' = BackEdges(at + 1)
    /\ UNCHANGED <<graph, dom, succ, pred, treePhase, walk, cur, loops, parent, pre>>

(* One call of _get_loop_blocks.  The exits are what is not yet known to   *)
(* be in the loop.                                                         *)
Leaving(b, c) == succ[b] \ c.blocks
Visit(b, c, outer) ==
    /\ cur' = [c EXCEPT !.exits = @ \union Leaving(b, c), !.blocks = @ \union {b}]
    /\ walk' = IF b \in c.blocks THEN outer ELSE Append(outer, [block |-> b, todo |-> pred[b]])

NewLoopUnmarked(h, l) == [header |-> h, latch |-> l, blocks |-> {}, exits |-> {}]
NewLoop(h, l) == [header |-> h, latch |-> l, blocks |-> {h}, exits |-> {}]

OpenLoop ==
    /\ treePhase = "collect" /\ Closed
    /\ \E s \in edges :
        /\ edges' = edges \ {s}
        /\ Visit(at, NewLoop(s, at), <<>>)
    /\ UNCHANGED <<graph, dom, succ, pred, treePhase, at, loops, parent, pre>>

Innermost == walk[Len(walk)]
Outer == SubSeq(walk, 1, Len(walk) - 1)

WalkPredecessor ==
    /\ walk # <<>>
    /\ \E p \in Innermost.todo :
        Visit(p, cur, Append(Outer, [Innermost EXCEPT !.todo = @ \ {p}]))
    /\ UNCHANGED <<graph, dom, succ, pred, treePhase, at, edges, loops, parent, pre>>

WalkBack ==
    /\ walk # <<>> /\ Innermost.todo = {}
    /\ walk' = Outer
    /\ UNCHANGED <<graph, dom, succ, pred, treePhase, at, edges, cur, loops, parent, pre>>

AddNode ==
    /\ ~Closed /\ walk = <<>>
    /\ loops' = Append(loops, cur)
    /\ cur' = [cur EXCEPT !.header = NULL, !.latch = NULL, !.blocks = {}, !.exits = {}]
    /\ UNCHANGED <<graph, dom, succ, pred, treePhase, at, edges, walk, parent, pre>>
---------------------------------------------------------------------------
(* _build_loop_tree: the first of the smallest loops strictly around.      *)
Around(i) == {j \in DOMAIN loops :
    /\ loops[i].blocks \subseteq loops[j].blocks
    /\ Cardinality(loops[j].blocks) > Cardinality(loops[i].blocks)}
Size(j) == Cardinality(loops[j].blocks)
BestParent(i) ==
    IF Around(i) = {} THEN NULL
    ELSE CHOOSE j \in Around(i) : \A k \in Around(i) :
             Size(j) < Size(k) \/ (Size(j) = Size(k) /\ j =< k)

BuildTree ==
    /\ treePhase = "collect" /\ Closed /\ edges = {} /\ at = N
    /\ parent' = [i \in DOMAIN loops |-> BestParent(i)]
    /\ pre' = [i \in DOMAIN loops |-> NULL]
    /\ treePhase' = "canonicalize" /\ edges' = DOMAIN loops
    /\ UNCHANGED <<graph, dom, succ, pred, at, walk, cur, loops>>

---------------------------------------------------------------------------
(* _licm_loop_node_process without the motion: children first.  `edges`    *)
(* holds the loops still to do.                                            *)
Ready == {i \in edges : \A j \in edges : parent[j] # i}

ExternalAll(i) == pred[loops[i].header]
External(i) == pred[loops[i].header] \ loops[i].blocks
Preheaders(h) == {p \in pred[h] : p > N}
NewBlock == N + 1 + Cardinality({b \in AllBlocks : b > N /\ succ[b] # {}})

UsePreheader(i) ==
    /\ \E p \in Preheaders(loops[i].header) : pre' = [pre EXCEPT ![i] = p]
    /\ UNCHANGED <<succ, pred>>

NoPreheader(i) ==
    /\ Preheaders(loops[i].header) = {} /\ External(i) = {}
    /\ UNCHANGED <<succ, pred, pre>>

(* The external predecessors are redirected, in both kinds of sets.        *)
Entering(i) == (pred[loops[i].header] \ External(i)) \union {NewBlock}
MakePreheader(i) ==
    LET h == loops[i].header
    IN  /\ Preheaders(h) = {} /\ External(i) # {}
        /\ succ' = [b \in AllBlocks |->
                       IF b = NewBlock THEN {h}
                       ELSE IF b \in External(i) THEN (succ[b] \ {h}) \union {NewBlock}
                       ELSE succ[b]]
        /\ pred' = [pred EXCEPT ![NewBlock] = External(i),
                                ![h] = Entering(i)]
        /\ pre' = [pre EXCEPT ![i] = NewBlock]

InsertPreheader ==
    /\ treePhase = "canonicalize"
    /\ \E i \in Ready :
        /\ edges' = edges \ {i}
        /\ UsePreheader(i) \/ NoPreheader(i) \/ MakePreheader(i)
    /\ UNCHANGED <<graph, dom, treePhase, at, walk, cur, loops, parent>>

TreeDone ==
    /\ treePhase = "canonicalize" /\ edges = {}
    /\ treePhase' = "done"
    /\ UNCHANGED <<graph, dom, succ, pred, at, edges, walk, cur, loops, parent, pre>>

TreeNext ==
    \/ NextBlock \/ OpenLoop \/ WalkPredecessor \/ WalkBack \/ AddNode
    \/ BuildTree \/ InsertPreheader \/ TreeDone

TreeSpec == TreeInit /\ [][TreeNext]_treeVars
---------------------------------------------------------------------------
(* What the passes may be given: a block no path leads to has no successor *)
(* but itself.                                                             *)
Alive(g) == \A b \in Block : Reachable(g, b) \/ g[b] \subseteq {b}
---------------------------------------------------------------------------
(* The sets are sets of blocks, a loop has no block twice on its walk, and *)
(* none holds the entry.                                                   *)
TreeTypeOK ==
    /\ succ \in [AllBlocks -> SUBSET AllBlocks] /\ pred \in [AllBlocks -> SUBSET AllBlocks]
    /\ \A j, k \in DOMAIN walk : walk[j].block = walk[k].block => j = k
    /\ \A i \in DOMAIN loops : Entry \notin loops[i].blocks

(* The edges that close a loop: the target dominates the source, on paths  *)
(* from the entry; of a block no path leads to, the edge to itself.        *)
Closing(g) == {e \in Block \X Block :
    /\ e[2] \in g[e[1]]
    /\ e[1] = e[2] \/ (Reachable(g, e[1]) /\ Dominates(g, e[2], e[1]))}

(* The natural loop of the edge from l to h: the least set that holds both *)
(* and, h aside, the predecessors of its blocks.                           *)
IsLoopSet(g, h, l, S) ==
    {h, l} \subseteq S /\ \A b \in S \ {h} : \A p \in Block : b \in g[p] => p \in S
IsNatural(g, h, l, S) ==
    IsLoopSet(g, h, l, S) /\ \A R \in SUBSET S : IsLoopSet(g, h, l, R) => R = S

(* Every loop of the function is collected, once, with exactly its blocks. *)
LoopsExact ==
    treePhase = "done" =>
        /\ {<<loops[i].latch, loops[i].header>> : i \in DOMAIN loops} = Closing(graph)
        /\ \A i, j \in DOMAIN loops :
               loops[i].latch = loops[j].latch /\ loops[i].header = loops[j].header => i = j
        /\ \A i \in DOMAIN loops :
               IsNatural(graph, loops[i].header, loops[i].latch, loops[i].blocks)

(* No way out of a loop is missing from its exits, in whatever order its   *)
(* blocks were found.                                                      *)
ExitsComplete ==
    treePhase = "done" => \A i \in DOMAIN loops : \A b \in loops[i].blocks :
        graph[b] \ loops[i].blocks \subseteq loops[i].exits

(* The tree is the nesting: of two loops with different headers that share *)
(* a block, one lies below a loop with the header of the other.  What lies *)
(* above a loop is in every set that holds its parent and the parents of   *)
(* its elements.                                                           *)
IsAncestor(i, j) ==
    \A S \in SUBSET DOMAIN loops :
        (\A k \in S \union {j} : parent[k] # NULL => parent[k] \in S) => i \in S
LiesBelow(i, j) == \E k \in DOMAIN loops :
    loops[k].header = loops[j].header /\ IsAncestor(k, i)
TreeIsNesting ==
    treePhase = "done" =>
        \A i, j \in DOMAIN loops :
            (/\ loops[i].header # loops[j].header
             /\ loops[i].blocks \intersect loops[j].blocks # {})
            => LiesBelow(i, j) \/ LiesBelow(j, i)

(* A loop that can run is in canonical form: one block enters it, and does *)
(* nothing else; and where the header has a single latch, only from        *)
(* outside the loop.                                                       *)
CanonicalLoops ==
    treePhase = "done" => \A e \in {c \in Closing(graph) : Reachable(graph, c[2])} :
        LET h == e[2]
        IN  \E p \in pred[h] :
            /\ p > N /\ succ[p] = {h}
            /\ \A q \in pred[h] \ {p} : Dominates(graph, h, q)
            /\ (\A f \in Closing(graph) : f[2] = h => f = e) =>
                   \A q \in pred[p] : q > N \/ ~Dominates(graph, h, q)

(* Canonicalization keeps the paths: with the preheaders skipped, every    *)
(* block goes where it went, and each set of predecessors mirrors the      *)
(* successors.                                                             *)
Skipped(S) == {b \in S : b =< N} \union UNION {succ[b] : b \in {p \in S : p > N}}
PathsKept ==
    /\ \A b \in Block : Skipped(succ[b]) = graph[b]
    /\ \A a, b \in AllBlocks : b \in succ[a] <=> a \in pred[b]

(* Every natural loop is collected once, with exactly its blocks, with no  *)
(* way out missing, and the tree is the nesting of the loops; at the end   *)
(* one block enters each loop and does nothing else, and the paths of the  *)
(* function are what they were (ltree.c, licm.c).                          *)
LoopsSound ==
    /\ TreeTypeOK /\ LoopsExact /\ ExitsComplete /\ TreeIsNesting
    /\ CanonicalLoops /\ PathsKept
=============================================================================
