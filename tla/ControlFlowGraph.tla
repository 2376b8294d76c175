-------------------------- MODULE ControlFlowGraph --------------------------
(***************************************************************************)
(* The life of the block graph of one function (src/hir/cfg/cfg.c):        *)
(* HIR_CFG_build links the blocks from the instruction that ends each of   *)
(* them, HIR_CFG_finalize_before_dom cuts the blocks without predecessors  *)
(* off, and HIR_CFG_squeeze_blocks merges straight-line pairs.  The passes *)
(* that run between them (SSA, constant folding) leave l, jmp, succ and    *)
(* pred alone.                                                             *)
(*                                                                         *)
(* A block is what its last instruction makes of it; the instructions of a *)
(* block are abstracted to `body`, the sequence of the original blocks     *)
(* whose instructions it holds.                                            *)
(***************************************************************************)
EXTENDS FlowGraph, Sequences

CONSTANT Programs   \* the functions given: a last instruction per block

(* The last instruction of a block: a return or exit, a jump to a label, a *)
(* jump through a label table, a conditional jump, or anything else.  Only *)
(* a block that begins with a label is a target; the entry begins with the *)
(* function header.                                                        *)
Label == Block \ {Entry}
Term ==
    [op : {"ret", "fall"}]
      \union [op : {"jmp"}, to : Label]
      \union [op : {"table"}, to : SUBSET Label]
      \union [op : {"if"}, true : Label, false : Label]

ASSUME ProgramsAssumption == Programs \subseteq [Block -> Term]

VARIABLES
    prog,       \* the last instruction of each block
    list,       \* fb->blocks
    l, jmp,     \* cb->l and cb->jmp
    succ, pred, \* cb->succ and cb->pred
    unused,     \* the blocks whose instructions are marked unused
    body,       \* the original blocks merged into a block
    phase, at   \* the pass that runs and its position in the list

buildVars == <<prog, list, l, jmp, succ, pred, unused, body, phase, at>>

BuildInit ==
    /\ prog \in Programs
    /\ list = [i \in Block |-> i]
    /\ l    = [b \in Block |-> NULL]
    /\ jmp  = [b \in Block |-> NULL]
    /\ succ = [b \in Block |-> {}]
    /\ pred = [b \in Block |-> {}]
    /\ unused = {}
    /\ body = [b \in Block |-> <<b>>]
    /\ phase = "link" /\ at = 1

(* The block that follows in the list; none follows the last one.          *)
Following(b) == IF b < N THEN b + 1 ELSE NULL

(* The switch of HIR_CFG_build.                                            *)
LinkBlock ==
    /\ phase = "link" /\ at \in Block
    /\ LET t == prog[at]
       IN  \/ t.op = "ret"   /\ UNCHANGED <<l, jmp, succ>>
           \/ t.op = "jmp"   /\ jmp' = [jmp EXCEPT ![at] = t.to]
                             /\ UNCHANGED <<l, succ>>
           \/ t.op = "table" /\ succ' = [succ EXCEPT ![at] = @ \union t.to]
                             /\ UNCHANGED <<l, jmp>>
           \/ t.op = "if"    /\ l'   = [l EXCEPT ![at] = t.true]
                             /\ jmp' = [jmp EXCEPT ![at] = t.false]
                             /\ UNCHANGED succ
           \/ t.op = "fall"  /\ l' = [l EXCEPT ![at] = Following(at)]
                             /\ UNCHANGED <<jmp, succ>>
    /\ at' = at + 1
    /\ UNCHANGED <<prog, list, pred, unused, body, phase>>

LinkDone ==
    /\ phase = "link" /\ at = N + 1
    /\ phase' = "edges" /\ at' = 1
    /\ UNCHANGED <<prog, list, l, jmp, succ, pred, unused, body>>

(* "Register successors and predecessors".                                 *)
EdgesOfBlock ==
    /\ phase = "edges" /\ at \in Block
    /\ LET s == succ[at] \union ({l[at], jmp[at]} \ {NULL})
       IN  /\ succ' = [succ EXCEPT ![at] = s]
           /\ pred' = [b \in Block |-> IF b \in s THEN pred[b] \union {at} ELSE pred[b]]
    /\ at' = at + 1
    /\ UNCHANGED <<prog, list, l, jmp, unused, body, phase>>

EdgesDone ==
    /\ phase = "edges" /\ at = N + 1
    /\ phase' = "clean" /\ at' = 2
    /\ UNCHANGED <<prog, list, l, jmp, succ, pred, unused, body>>

(* HIR_CFG_finalize_before_dom: one pass over the list, after its head.    *)
NoPred(b) == pred[b] = {}

PredAfterCut(b) == [s \in Block |-> IF s \in succ[b] THEN pred[s] \ {b} ELSE pred[s]]

CleanBlock ==
    /\ phase = "clean" /\ at \in Block
    /\ IF ~NoPred(at)
       THEN UNCHANGED <<l, jmp, succ, pred, unused>>
       ELSE /\ pred' = PredAfterCut(at)
            /\ succ' = [succ EXCEPT ![at] = {}]
            /\ l'    = [l EXCEPT ![at] = NULL]
            /\ jmp'  = [jmp EXCEPT ![at] = NULL]
            /\ unused' = unused \union {at}
    /\ at' = at + 1
    /\ UNCHANGED <<prog, list, body, phase>>

CleanDone ==
    /\ phase = "clean" /\ at = N + 1
    /\ phase' = "squeeze" /\ at' = 1
    /\ UNCHANGED <<prog, list, l, jmp, succ, pred, unused, body>>

(* HIR_CFG_squeeze_blocks: the only way on from cb, when it is the only    *)
(* way in to its target.                                                   *)
OnlyWayOn(cb) == IF l[cb] # NULL THEN l[cb] ELSE jmp[cb]

MergeableAnyPred(cb) ==
    /\ (l[cb] = NULL) # (jmp[cb] = NULL)
    /\ cb # OnlyWayOn(cb)
Mergeable(cb) ==
    /\ (l[cb] = NULL) # (jmp[cb] = NULL)
    /\ \E p \in Block : pred[OnlyWayOn(cb)] = {p}
    /\ cb # OnlyWayOn(cb)

(* list_remove                                                             *)
Position(s, b) == CHOOSE i \in 1..Len(s) : s[i] = b
Without(s, b) == [i \in 1..(Len(s) - 1) |-> IF i < Position(s, b) THEN s[i] ELSE s[i + 1]]

BodyAfterMerge(cb, nx) == [body EXCEPT ![cb] = @ \o body[nx], ![nx] = <<>>]

(* The iterator stays on cb, whose position drops if nx stood before it.   *)
Iterator(nx) == IF \E i \in 1..(at - 1) : list[i] = nx THEN at - 1 ELSE at

(* The block is merged and freed.                                          *)
Merge ==
    /\ phase = "squeeze" /\ at <= Len(list)
    /\ LET cb == list[at]
           nx == OnlyWayOn(cb)
       IN  /\ Mergeable(cb)
           /\ body' = BodyAfterMerge(cb, nx)
           /\ l'    = [l EXCEPT ![cb] = l[nx]]
           /\ jmp'  = [jmp EXCEPT ![cb] = jmp[nx]]
           /\ succ' = [succ EXCEPT ![cb] = succ[nx], ![nx] = {}]
           /\ pred' = [b \in Block |->
                        IF b = nx THEN {}
                        ELSE IF b \in succ[nx] THEN (pred[b] \ {nx}) \union {cb}
                        ELSE pred[b]]
           /\ list' = Without(list, nx)
           /\ at'   = Iterator(nx)
    /\ UNCHANGED <<prog, unused, phase>>

Advance ==
    /\ phase = "squeeze" /\ at <= Len(list) /\ ~Mergeable(list[at])
    /\ at' = at + 1
    /\ UNCHANGED <<prog, list, l, jmp, succ, pred, unused, body, phase>>

SqueezeDone ==
    /\ phase = "squeeze" /\ at = Len(list) + 1
    /\ phase' = "squeezed"
    /\ UNCHANGED <<prog, list, l, jmp, succ, pred, unused, body, at>>

BuildNext ==
    \/ LinkBlock  \/ LinkDone \/ EdgesOfBlock \/ EdgesDone
    \/ CleanBlock \/ CleanDone
    \/ Merge \/ Advance \/ SqueezeDone

BuildSpec == BuildInit /\ [][BuildNext]_buildVars
-----------------------------------------------------------------------------
(* What the instructions say, whatever the links do: the blocks control    *)
(* may pass to from the end of b.                                          *)
Destinations(b) ==
    LET t == prog[b]
    IN  CASE t.op = "ret"   -> {}
          [] t.op = "fall"  -> {b + 1} \intersect Block
          [] t.op = "jmp"   -> {t.to}
          [] t.op = "table" -> t.to
          [] t.op = "if"    -> {t.true, t.false}

Flow == [b \in Block |-> Destinations(b)]
Live == ReachableBlocks(Flow)

ListedBlocks == {list[i] : i \in 1..Len(list)}

(* Blocks, lists and links hold only blocks of the function.               *)
BuildTypeOK ==
    /\ prog \in [Block -> Term]
    /\ list \in Seq(Block)
    /\ l    \in [Block -> Block \union {NULL}]
    /\ jmp  \in [Block -> Block \union {NULL}]
    /\ succ \in Edges /\ pred \in Edges
    /\ unused \subseteq Block
    /\ body \in [Block -> Seq(Block)]
    /\ phase \in {"link", "edges", "clean", "squeeze", "squeezed"}
    /\ at \in 1..(N + 1)

(* The two halves of an edge are recorded together: cutting a block or     *)
(* merging two leaves no predecessor that does not know its successor, and *)
(* no edge to a block that has been freed.                                 *)
EdgesMirrored ==
    phase \in {"clean", "squeeze", "squeezed"} =>
        /\ pred = Mirror(succ)
        /\ \A b \in ListedBlocks : succ[b] \subseteq ListedBlocks /\ pred[b] \subseteq ListedBlocks

(* Instructions that can execute are never marked unused, although the     *)
(* marking looks only at the predecessors left at that moment.             *)
LiveNeverUnused ==
    phase \in {"clean", "squeeze", "squeezed"} => unused \intersect Live = {}

(* The graph of listed blocks runs the program: inside a block each        *)
(* original block passes control only to the one merged behind it, and is  *)
(* the only one to do so; the edges out of a live block go to the heads of *)
(* the blocks its last instruction names.                                  *)
Heads(S) == {body[b][1] : b \in S}
BlocksFollowFlow ==
    phase \in {"squeeze", "squeezed"} =>
        \A b \in ListedBlocks \intersect Live :
            LET s == body[b]
            IN  /\ s # <<>> /\ s[1] = b
                /\ \A i \in 1..(Len(s) - 1) :
                     /\ Flow[s[i]] = {s[i + 1]}
                     /\ \A p \in Live : s[i + 1] \in Flow[p] => p = s[i]
                /\ Heads(succ[b]) = Flow[s[Len(s)]]

(* Merging loses no code: each live block's instructions are in exactly    *)
(* one listed block, once.                                                 *)
CodeKeptOnce ==
    phase = "squeezed" => \A b \in Live :
        \E c \in ListedBlocks :
            /\ \E i \in 1..Len(body[c]) :
                 body[c][i] = b /\ \A j \in 1..Len(body[c]) : body[c][j] = b => j = i
            /\ \A d \in ListedBlocks \ {c} : \A i \in 1..Len(body[d]) : body[d][i] # b

(* At the end no straight-line pair is left to merge: one pass over the    *)
(* list is enough although a merge changes links behind the iterator.      *)
FullySqueezed == phase = "squeezed" => \A b \in ListedBlocks : ~Mergeable(b)

(* The graph of the listed blocks runs the program, after every step of    *)
(* the cut and of the merging: no edge is lost or left over, no code that  *)
(* can run is marked unused, merged code follows the only flow there is,   *)
(* is lost nowhere, and no straight-line pair is left.                     *)
FlowPreserved ==
    EdgesMirrored /\ LiveNeverUnused /\ BlocksFollowFlow /\ CodeKeptOnce /\ FullySqueezed
=============================================================================
