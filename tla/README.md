# Verification of CordellCompiler

CordellCompiler (`src/`) translates CPL, a small C-like language, to x86
assembly. It is one sequential process: there are no threads, and the only
persistent state is files. What is hard in it is hard for other reasons. Each
pass works in place on data the passes before it left behind, the fixed points
of the flow analyses must be reached and must be right on every graph, sets and
maps are iterated in hash order, and the containers underneath are hand written.
A wrong step in any of these is a program compiled wrongly, on one path of one
input. This directory models those parts in TLA+, checks them with TLC on all
small instances, and proves with TLAPS what is proved for every size.

## The system

| Part | Code | State | Operations |
|---|---|---|---|
| Preprocessor | `src/src/preproc` | include stack, macro table | include, define, conditional inclusion |
| Tokenizer, markup | `src/src/prep` | token list, scope marks | tokenize, mark types and variables |
| Symbol tables | `src/src/symtab` | variables, functions, types, arrays, sections, strings, aliases | add, copy, resolve |
| Parser | `src/src/ast` | AST, scope stack | one parse routine per construct, devirtualisation, generics |
| HIR generation | `src/src/hir/hirgen` | instruction list, break target | one lowering per construct |
| Control flow graph | `src/src/hir/cfg` | blocks, `l`, `jmp`, `succ`, `pred`, `dom`, `sdom`, `domf` | split, link, cut off, squeeze, dominators |
| SSA | `src/src/hir/ssa` | phi functions, current versions | insert phi, rename |
| Loops | `src/src/hir/loop` | loop tree, preheaders | find, canonicalise, hoist, count, unroll, delete |
| Function passes | `src/src/hir/func` | call graph, marks of the functions | last return, test, tail recursion, defer, inline, dead functions |
| Value DAG, constants, Z3 | `src/src/hir/dag`, `constfold`, `z3` | value nodes | fold, propagate, drop branches |
| LIR | `src/src/lir` | instruction list | generate, copy propagation, tail calls, planning |
| Liveness | `src/src/lir/dfg` | `def`, `use`, `in`, `out` | fixed point, deallocation points, order of phi moves |
| Register allocation | `src/src/lir/regalloc` | interference graph, colours | build, colour |
| Selectors, peephole, output | `src/src/lir/selector`, `peephole`, `src/src/asm` | instruction list | rewrite for a target, print |
| Static analysis | `src/src/csa` | none that compilation uses | report |
| Builder | `src/src/builder` | options, temporary files | run the passes in order |
| Containers | `src/std` | maps, sets, lists, queues, stacks, frame map, heap | the usual ones |

The passes interact by shared state only: `builder.c` calls them in one fixed
order and each finds the blocks, sets and symbol tables as the last one left
them.

- HIR (`builder.c:204-316`): generate, build the graph and the call graph, last
  returns, test entries, tail recursion, rebuild the graph, dominators, deferred
  calls, mark the loops, inline (and rebuild), preheaders,
  `HIR_CFG_finalize_before_dom`, dominators again, SSA, constants across calls,
  loop-invariant code motion, dead loops, unrolling.
- LIR (`builder.c:340-440`): generate, tail calls, copy propagation of variables,
  instruction selection, liveness, colours, order of the phi moves, memory
  selection, copy propagation of registers, saving of registers, peephole,
  validation of the memory, output.

Dominance data is computed three times. SSA reads the frontiers; liveness reads
the edges; the allocator reads the liveness sets; memory selection reads the
colours; everything lives in the containers and in the one heap.

### The components in detail

- **Control flow graph.** State: the block list of a function, the two links
  `l` and `jmp` of a block, its edge sets, and which instructions are unused.
  `HIR_CFG_build` derives the links from the last instruction of each block,
  `HIR_CFG_finalize_before_dom` cuts off blocks without predecessors in one
  pass, `HIR_CFG_squeeze_blocks` merges straight-line pairs while it iterates
  over the list it shortens. Hard: both halves of an edge, the links and the
  list must change together. Correct when the graph still runs the program.
- **Dominators.** State: `dom`, `sdom`, the tree (`domc`, `doms`), `domf`.
  In-place sweeps until nothing changes, then a tree and a recursion over it.
  Hard: the order of the sweep and the hash order of the sets must not matter.
  Correct when the sets are exactly the dominators and the frontiers are exact.
- **SSA.** State: the phi functions, one table of current versions shared by
  the whole recursion, the visitors of a block. Hard: a join is visited once
  per predecessor, in between the arms of other branches. Correct when every
  use reads the value of the last definition on every path.
- **Loops.** State: loop nodes, their block sets, exits, parents and preheaders,
  then the instructions. Hard: the exits depend on a hash order, two loops may
  share a header, a preheader changes the graph the other loops were found on;
  a count of iterations has a rounding, a width and a condition that may be
  tested at either end. Correct when the function does what it did.
- **HIR generation and function passes.** A tree becomes a list of
  instructions, then calls become bodies, loops or jumps, and constants cross
  calls. Hard: deferred calls must run at every exit and only there; the rounds
  of the propagation feed each other; a call is replaced by a sequence of
  stores. Correct when the program shows to the outside what its text means.
- **Liveness and phi moves.** State: `use`, `def`, `curr_in`, `curr_out` and the
  values of the last pass; the moves at the end of a block, sorted in place.
  Hard: the fixed point mixes values of two passes; the sort may give up midway.
- **Register allocation.** State: interference graph, degrees, stack, colours,
  then places. Correct when no write destroys a value that is still read.
- **Back end.** Instruction selection, memory selection, saved registers, tail
  calls, copy propagation and the peephole rules rewrite one list of
  instructions in turn. Hard: an instruction of the target has fixed registers,
  no two memory operands and an alignment to keep; a rule looks at a window and
  must be right in every context. Correct when the instructions do what the LIR
  of the function means.
- **Type table and static data.** Layouts, copies of types behind pointers,
  virtual slots, the values of initialisers. Hard: a type is copied by several
  declarations, each in its own order. Correct when objects have room, calls
  reach the override and a value lies where its field is read.
- **Containers.** State: hash table with its checksum, ring buffer, arena of
  blocks with its free lists. Hard: long sequences of legal calls. Correct when
  they answer as the abstract containers do and no two callers share memory.
- **The others** (preprocessor, tokenizer, the parser's descent, static analysis,
  printing) translate one representation into the next without state that
  outlives a call; see the last section.

## The modules

| Module | Models | Role |
|---|---|---|
| `FlowGraph` | - | reachability, dominance and frontiers, stated without an algorithm |
| `Dominance` | `hir/cfg/dom.c` | one action per sweep visit, tree link, recursive call and return |
| `ControlFlowGraph` | `hir/cfg/cfg.c` | link, edges, cut, squeeze, one action per block |
| `SsaConstruction` | `hir/ssa/phi.c`, `ssa.c` | insertion, the traversal as a stack of activations, then a run of the result |
| `LoopTree` | `hir/loop/ltree.c`, `_insert_preheader` of `licm.c` | collection, nesting, preheaders |
| `SsaCode` | `hir.h`, `cfg.h`, `hir_types.c`, `interval.c` | a function in SSA with its instructions, and what it does when it runs |
| `LoopPasses` | `hir/loop/iterations.c`, `dle.c`, `unroll.c`, `licm.c` | the count of iterations, and the passes over a function in SSA in the order of the builder |
| `HirGeneration` | `hir/hirgen` | from a syntax tree to the list of instructions |
| `SourcePrograms` | - | the programs, and what each means |
| `WholeProgram` | `hir/cfg/leader.c`, `funcs.c`, `hir/func/*.c`, `builder.c` | the passes over a whole program, then a run |
| `TailRecursion` | `hir/func/tre.c` | the pass, then a run of the code before and of the code after |
| `FunctionConstants` | `hir/constfold/funcfold.c` and its loop in `builder.c` | parameters, returned values, rounds |
| `LirBlocks` | `lir_types.c`, the read/write tables of `dfg.c` | instructions as the data flow sees them, and what live and clash mean |
| `Liveness` | `lir/dfg/dfg.c` | `use`/`def`, passes, comparison |
| `PhiMoves` | `LIR_RA_sort_phi_movs` in `dfg.c` | the sort of one group of moves |
| `RegisterAllocation` | `lir/regalloc`, the choice of a place in `mem.c` | graph, colours, then a run |
| `LirMachine` | `lir.h`, `lir.c`, `asm/x86_64_gnu_nasm` | the instructions of LIR and of the targets, and what each does |
| `Selection` | `lir/selector/*/inst.c`, `misc.c` | instruction selection for three targets |
| `Placement` | `lir/selector/*/mem.c`, `memsel.c`, `caller_saving.c`, `savereg.c` | places, scratch registers, saved registers, alignment of the stack |
| `CopyPropagation` | `lir/copyprop/copyprop.c` | facts at the start of each block, and the two uses of them |
| `BackEnd` | `lir/func/tco.c`, `builder.c` | the steps from LIR to placed instructions, one action per call of the builder |
| `BackEndFunctions`, `PeepholeFunctions` | - | the functions and windows the two are checked with |
| `Peephole` | `lir/peephole` | the generated rules, the passes over the blocks, the rounds |
| `TypeTable` | `symtab/typetb.c`, `ast/astgen/container`, `decl`, `func` | types, copies, layouts, virtual slots |
| `StaticData` | `asm/*/asmgen.c`, `decl_hirgen.c`, `arrtb.c`, `mem.c` | initialisers on their way to memory |
| `KeyValue`, `HashMap` | `std/map.c`, `std/set.c` | a partial function, and the table that implements it |
| `Fifo`, `RingQueue` | `std/queue.c` | a sequence, and the ring that implements it |
| `Heap` | `std/mm.c` | the arena, its blocks and free lists |
| `*Proofs` | - | theorems about the module they are named after; `FlowGraphProofs`: reachability and dominance, which the next three share; `HirGraphProofs`: about `ControlFlowGraph` and `SsaConstruction`; `FunctionPassesProofs`: about `FunctionConstants`, `TailRecursion` and `LoopTree`; `DataStructureProofs`: about the three containers |
| `MC*` | - | the instances TLC checks |

State variables bear the names of the C fields where TLA+ allows it (`l`,
`jmp`, `succ`, `domf`, `curr_in` as `currIn`), and the comment beside each says
which it is. Where an MC module brings several components together and two would
use one name, one of them has its name in front: `domSucc` and `domPhase` of
`Dominance` (and `doms` for `cb->dom`), `liveBb` of `Liveness`. An action is one turn of a C loop, one call, or one activation of a
recursive function; what such a step does to the state, guards and early returns
included, is one action. Recursive C functions are stacks of activations. A loop
over a map or a set, whose order is that of a hash, is a choice of any order.

Most passes are checked by what the program *does*: an abstract machine runs the
code before and the code after, on every path or every input, and the property
compares what is seen. `SsaConstruction`, `TailRecursion` and
`RegisterAllocation` run a reduced code (uses and definitions of one variable,
calls and their arguments, reads and writes); `LoopPasses`, `WholeProgram`,
`BackEnd` and `Peephole` run whole functions or programs over short words.

Where an MC module checks several components an initial state chooses the
component and its input, the variables of the others keep a constant, and each
property says which component it is about.

Some definitions have a neighbour in front of them with a longer name and the
same parameters that nothing uses: `NewDomWithoutSelf` before `NewDom`. These
are faulty variants of the definition, as a plausible bug would make it. Putting
one in place of the original must break the property `PROJECT.json` pairs it
with, which shows that the property can fail.

## The runs

| Run | Instance | What it shows |
|---|---|---|
| `hir_graph` | all functions of 4 blocks; all plain functions of 4 blocks; 2000 functions with loops over integers of 3 bits; whole programs in families: control, logic, switch, defer, inline, reach, cold | the graph keeps the program's flow through cutting and merging; phi functions are on the iterated frontier and every use reads the last definition; no loop pass shows in what a function does; a program does what its text means, before and after each inlining |
| `function_passes` | tail calls in bodies of up to 3 ends and 4 entries; all reachable graphs of 5 blocks, and of 4 with a dead loop behind a return; 3 functions of one parameter with up to 2 calls, or with 3 that reach them all; dominance: all graphs of 4 blocks without linked orphans, the entry alone with three ways on | the loop does what the recursion did in one activation; natural loops, their nesting and their preheaders are right, and no path is changed; what is folded is what every call passes, nothing is left, the rounds end; at no moment does a dominator set lose a dominator, at the end it holds nothing else, immediate dominators and frontiers are exact, the loop ends |
| `lir_passes` | groups of up to 4 moves over 4 registers; functions of the back end for three targets, words of 2 to 5 bits; windows of up to 4 instructions, and of one in front of branches and in a loop, up to 4 rounds | the sorted sequence does what the moves do at once, unless they form a circle; what the back end emits does what the LIR means; no rule and no pass of the peephole changes what a function shows, and when the rounds end there is nothing left to rewrite, also where the limit ends them |
| `register_allocation` | 3 variables, 2 registers, 3 or 4 instructions; liveness: 1 variable on all graphs of 3 blocks, 2 variables in 2 blocks of 2 instructions | on every path every read finds its value; the edges are the clashes; memory only when crowded; the fixed point of the liveness analysis is reached and is exactly what is live |
| `data_structures` | 4 keys in tables of 4 and 8; rings from 2 cells with up to 5 items; an arena of 12 units and 3 callers; containers of 2 fields or methods, with any number of bases declared before them | each answers as its abstract specification, or keeps its invariants; objects have room, values lie where they are read, calls reach the override |
| `ssa_tail`, `tail_swap`, `function_constants_two`, `licm_memory`, `peephole_store`, `peephole_window`, `like_c` | one program or a few each | the seven findings below |

Where a run holds several components an initial state chooses one of them, and
the others stand finished: `function_passes`, `lir_passes`, `hir_graph`,
`data_structures` and `register_allocation` are each several checks in one.

Why the bounds are enough. Four blocks hold a loop with an exit, two branches,
a join of joins, an irreducible loop and an unreachable block; five hold two
nested loops with a branch in the inner one. Merging and cutting look at a
block and its neighbours only. Integers of three bits hold every rounding, wrap
and sign that the count of iterations tells apart, with 256 runs of the body at
most. Two variables compete for a register only in pairs, so three variables and
two registers give all of: a colour shared, a colour refused, memory. Four moves
hold two chains, a chain and a circle, or a fan. The back end's rewrites look at
one instruction and its target. The rules of the peephole look at two
instructions and some at three: every window of two is there, and of three those
over the moves, additions and subtractions that can match more than one rule.
One rule looks at four: of four there are the windows of its shape with all
registers. Four rounds are enough, because a fifth changes no function of the
instance; with three `Settles` fails. Four
colliding keys in four slots cross the load limit, wrap around the end of the
table, are moved by a resize and by the removal of any of them. Every bound is a
CONSTANT of the module or a named set of the MC module.

`CHECK_DEADLOCK FALSE` stands in every configuration because every instance
stops: a pass is finite and a history of calls is over when its bound is reached.

Preconditions on the inputs, in the MC modules:
- the entry of a function is no jump target (`Label`): hirgen begins every
  function with its header and not with a label;
- `DomGraphs`: a block without predecessors has no successors when the
  dominators are computed for SSA. `HIR_CFG_finalize_before_dom` makes this so but
  for the case under *Limits*;
- `PlainPrograms` (`Given` of `SsaConstruction`): the arm visited first never leads back to a branch that
  defines a variable. Loops of hirgen have their definitions in the body and
  their branch in the header, so they are plain; `ssa_tail` is what happens else;
- `SafeFunctions`: no argument of a tail call reads a parameter an earlier one
  has changed; `tail_swap` is what happens else. The rest of `Safe` is what hirgen
  guarantees of a body: a block runs into its end, all ends return a value or none
  does, a returned result has a call in front of it;
- `DirectPrograms`: functions called by name, of one parameter, which return
  something they know where there are three calls;
  `function_constants_two` shows two;
- loops without memory and without division for code motion; `licm_memory`
  shows them;
- phi moves with at most one place that has no register, see *Limits*;
- no store to a global in the peephole's windows but one that is read again;
  `peephole_store` is what happens else;
- no window of the peephole that is `LosesNext`: x := y, x := x - y, x := x,
  y := x, word for word; `peephole_window` is what happens else;
- no branch of the peephole that is `LosesFlags`: a register is set to zero,
  xored with itself, subtracted from itself or counted down by one, the next
  instruction compares it with zero, and nothing reads the register after that;
  see *Limits*;
- like_c containers whose fields need no padding (`Looser` without `"like c"`);
  `like_c` is what happens else. No like_c union (`"like c union"`), no pointer
  indexed while its container is open (`"index"`), no base of which a copy
  exists (`"derive"`), and of the bases of a container at most one with virtual
  methods (`"bases"`): see *Limits*.

Fairness. The compiler is one process that runs until it is done, so a step that
can be taken is taken: in `MCFunctionPasses` weak fairness of the
dominance passes and of the rounds of `FunctionConstants`, in
`MCRegisterAllocation` of the liveness analysis and of the allocator; the function it compiles may stop at any moment.

## What is proved

TLAPS proves the following for every value of the constants: any number of
blocks, variables, registers, moves, functions, keys, slots and bytes.

- `DominanceProofs`. `OnlyShrinks`; `HoldsOnlyDominators`: when the sweeps stop,
  every set holds only true dominators. The invariant is `SweepInv`: the entry
  has itself alone, every block has itself, every set includes what a visit would
  give it (`AboveNewDom`, a post-fixed point), and blocks visited since the last
  change are settled. The last two make a sweep without a change a solution, and
  `SolutionHoldsOnlyDominators` turns a solution of the equations into dominance
  by closed sets. `KeepsDominators`, `ImmediateDominators` and
  `FrontiersAreExact` need in addition that orphans are isolated, which is what
  the cut before is for. `SdomInv` says what the tree links mean while they are
  made; the frontier is exact because the walk up the tree from a predecessor
  of a join is complete (`Complete`), each step of it is one of the definition
  (`Local`), and a block once left is not met again (`Upper`).
- `LivenessProofs`. `SetsOnlyGrow`, and `FixpointIsExact`: when two passes agree,
  `curr_in` and `curr_out` are exactly what is live. `Gathered` says what `use` and
  `def` hold in mid-block, `OnlyLive` bounds the sets from above, `Growing` keeps
  them below what a visit gives, `Pass` relates the blocks already done in this
  pass to the values of the last one, which is what makes the comparison a proof
  of a solution.
- `PhiMovesProofs`. `NeverReadAfterOverwrite`: no move is emitted before a read
  of what it overwrites, from `OrderInv` (nothing is taken twice, and the
  pending reads are safe from what has been taken). `LeavesOrderedGroups`: a
  group in order is taken from front to back and left as it is.
  `DoesWhatPhisAsk`: the contents of the registers after the moves are those of
  making all of them at once, by following one register from its move to the end.
- `RegisterAllocationProofs`. `GraphIsExact`, and `NoValueIsLost`: along every
  path of every function an instruction that reads a variable finds the value
  last written to it. `Walking` says which clashes the graph already has,
  `Coloring` that neighbours which have a colour differ, from which
  `PlacesDiffer` (two variables that clash are never in one place, bound ones
  and those in memory included) gives `Running`: what is live is intact.
  `SpillsOnlyWhenCrowded`: a variable without colour has as many neighbours as
  there are registers.
- `HirGraphProofs`, SSA. `PhisAreExact`: when the insertion ends the phi functions
  stand exactly on the iterated frontier, on every graph; `PhiInv` keeps them below
  every set closed under frontiers. `UsesAreRight`: on every path through the
  renamed function a use reads, through the copies, what the last definition made,
  for every function that is `Given`: nothing leads to the entry, which defines
  the variable first, and the jmp arm of a branch that defines it never leads back
  to that branch (finding 1 is what happens else). A block has one version at its
  start, `InVer`: that of its phi function, or of the end of the nearest block
  above it that defines or joins the variable. Every edge into a block without a
  phi function comes from a block with that same version at its end, because no
  frontier reaches it (`EdgeVersion`). `CodeInv` says that a visited block is
  renamed by these versions and has its copies, and that a revisit changes
  neither; `StackInv`, that each activation still holds the version at the end of
  its block or has only arms left that were visited from it, and that every edge
  from a visited block has been followed or is on the stack. When the stack is
  empty every edge has been followed, and `Running` carries the value along.
- `FunctionPassesProofs`, constants across calls. `FoldsWhatCallsPass`, for functions of at most one
  parameter called by name. What is known of a value only grows
  (`GrowthKeeps`) and a known value stays what it is (`ValueStays`), so what an
  early call was compared with still holds when the last call has been seen.
  `Counting` ties the arguments seen to the calls, `StillLoaded` keeps the one
  parameter at its position until it is folded, `Round` says what a round that
  changed nothing has looked at.
- `HirGraphProofs`, the block graph. `FlowIsPreserved`: for every function and any number
  of blocks, linking, cutting and squeezing keep the program's flow. A live block
  other than the entry has a live predecessor, which is not cut, so it is not cut
  either (`NoPredIsDead`). A merged block has one successor and is its one
  predecessor (`MergedPair`), so both are live or neither is. Every block lies
  once in the bodies of the listed blocks (`Kept`), so what leads to the head of a
  body leads there from the end of another. A merge makes no block behind the
  iterator mergeable, because the successors of what was merged keep their number
  of predecessors (`Passed`). `ProgramsAssumption` says that a program gives
  each block one of the ends of `Term`.
- `FunctionPassesProofs`, tail calls. `TailCallsKeepBehaviour` and `TailCallsStayFlat`: for
  every function with `Safe` code, of any number of blocks and any depth of calls,
  the loop shows what the recursion showed, takes no branch the recursion did not
  take, and needs one activation where every self call is in tail position. A
  moment of a run is its waiting activations, the one on top, the branches taken
  and the log; `Move` is a step from one to the next. The target is a simulation
  (`Sim`): its waiting activations are those of the source without the ones whose
  call became a jump, in their order (`Matches`). Such an activation is `Pending`:
  only the end of the function is behind its call, so it hands on what it is
  given, and while the target returns once the source unwinds through all of
  them (`Unwinding`, `CatchUp`). Between the call and the jump the target is
  `Storing`; that the stores leave what the call would have passed is
  `StoresPass`, and needs `NotReadLater`. The source run is over when the target
  starts. That it still is on its way to its end from the moment the target
  simulates is `Reach`: its end is in every set that holds the moment and is
  closed under moves, which takes the place of an induction over the run.
- `FunctionPassesProofs`, loops. `LoopsAreSound`: for functions of any number of
  blocks, whatever the order in which blocks, edges and predecessors are taken, the
  loops collected are the natural loops, no way out is missing, the tree is their
  nesting, one preheader enters each loop that can run and no path is changed.
  `Walking` says that whatever precedes a block of the open loop was visited or is
  still to be by the activation for that block, and that every set which is closed
  as the loop must be holds what was visited; with nothing left to visit the loop
  is the least such set (`WalkEnds`). Two loops with different headers that share a
  block are nested, because the headers dominate it and so one dominates the
  other; a parent is one of the smallest loops strictly around, so that climbing
  from the inner loop arrives at a loop with the header of the outer. For the
  preheaders, `Canon` says at every moment which graph the sets are: the numbers
  of the new blocks have no gap, every new block has a header of its own and took
  over all predecessors outside of one of its loops, and with the new blocks
  skipped the edges are those of before. The theorem assumes `Live`: a block no path leads
  to leads nowhere but to itself. Within a dead cycle of several blocks every
  block counts as dominated by all of them, so each of its edges is taken for one
  that closes a loop; see *Limits*.
- `DataStructureProofs`, the ring. `ImplementsFifo`: every push and pop is one of
  a plain sequence, the copy of a resize from a wrapped ring included.
- `DataStructureProofs`, the map. `AlwaysSound`, `EntriesStayReachable`,
  `ProbesEnd` and `IsKeyValue`: the map implements a partial function, for every
  hash function. From the slot a key hashes to, every slot up to the one it lies
  in is used; a removal breaks this while the entries behind the hole are put in
  again, and `Partly` is the same with those entries pending. `ClusterEnds` gives
  the free slot at which both end. The checksum is the sum over the entries,
  whatever the order in which they came.
- `DataStructureProofs`, the heap. `HeapStaysSound`. The invariant checked by TLC
  walks the free lists from their heads, and a walk cannot be followed through a
  call that changes a link. `HeapInv` says instead that the lists are chains:
  every free block has a distance from the head of its class, the first has none,
  and the link leads one further (`Chained`); `ListsFollow` gets the walk back
  from it. With it go the tiling of the arena, `allocated` as the sum over the
  blocks in use, and that the callers' blocks are in use and apart. `Loose` is a
  heap with one block taken out of the lists, between the two halves of a split
  or a merge; `OthersKept` and `UseChanges` say that a call changes one summand.

Each component has `TypeCorrect` or the shape of its state in its invariant.
Induction over a number goes through the least element of a set of naturals
(`LeastNat` and its kin), which the prover gets from well-foundedness.

The assumptions are those of the modules, each evaluated by TLC on its instance:
at least one block (`NAssumption`), flow graphs over the blocks
(`FlowGraphsAssumption` of `Dominance`), in `LoopTree` with no edge into the entry
(`GraphsAssumption`), finitely many variables, at least one register, programs
that are programs (`ProgramsAssumption`), layouts that are layouts, a first
capacity above two and keys that are numbers (`MapAssumption`), an arena larger
than one header (`HeapAssumption`). The theorems on tail calls, on renaming and on
constants name theirs: every function is `Safe`, is `Given`, is `Simple`; those on
loops that every graph is `Alive`.

Only model-checked:
- that sweeps, passes and rounds end, and that allocation colours every node:
  liveness under fairness;
- the other properties that compare two runs of a program: loop passes,
  whole programs, the back end and the peephole. Their machines and generators
  are recursive or work on the bits of a word, and what they compute is an
  induction over data;
- the type table and the static data: a layout is a fold over the members, a cell a
  recursion into nested types, and the rounding of `ALIGN` works on bits.

## Findings

Each is a run that TLC must find violated, with the sentence of the source it
contradicts in `PROJECT.json`.

1. `ssa_tail`: after tail recursion elimination a function can have a header
   that defines a variable, whose first arm comes back to it. The second arm is
   then renamed with the phi's version and not the one defined after it
   (`ssa.c:187`). The compiler emits this code.
2. `tail_swap`: the stores that replace a tail call run one after the other;
   `return bar(y, x)` in `bar(x, y)` gives both parameters the old `y`
   (`tre.c:100`).
3. `function_constants_two`: the position of an argument is counted over the
   loads still there, so after a parameter was folded, the ones behind it take
   the arguments before theirs (`funcfold.c:104`).
4. `licm_memory`: code motion takes loads, stores to globals and divisions out of
   a loop that writes memory or does not run (`licm.c:212`).
5. `peephole_store`: the cleanup drops a store to a global that the function
   itself does not read again (`x86_64_gnu_nasm.c:179`).
6. `peephole_window`: the rule over four instructions takes two out, counting
   both from the first of the window after one is gone already; so the last of
   the window stays and the instruction behind it is lost
   (`peephole_generated.c:604`), a return for instance. Even as it is written
   down the rule would lose the value of the first register.
7. `like_c`: the size of a like_c container leaves out the padding its fields are
   accessed with (`typetb.c:240`), so the last field lies beyond the object.

## Limits of the code met on the way

They are outside the instances above and have no run of their own. Those with a
name can be seen by adding it to the set of families or groups in the MC module.

Graph and loops:
- `finalize_before_dom` goes over the list once (`cfg.c:162`). A loop left by
  `break` behind a `return` keeps its links, because its header loses its last
  predecessor after it was visited. The dominator sets of such a graph are those
  of a graph with a second entry (`LoopTree` models it: `ComputedDominator`).
- The loops are marked before that pass (`builder.c:234` and `249`). What hirgen
  puts behind a `break` is unreachable and leads into the rest of the loop, so
  the header does not dominate the latch and the loop is not found.
- `_get_loop_blocks` never takes a block out of the exits again (`ltree.c:36`): a
  loop with a branch in its body has a block of its own among its exits, although
  `dle.c` takes for granted that one way out means one exit.
- An endless loop behind a `return` that leads back out (it holds a `break`) keeps
  full dominator sets, so its edge out is taken for a back edge too and a loop is
  collected whose header never lists its own exits.
- Dead loops are those with "no interaction with outer data" (`loop.h:131`), but
  `dle.c` does not look at the values a loop leaves for the code behind it.

Functions and constants:
- A `break` before a deferred call's exit does not run the call (`defer.c:72`,
  family `break`); a deferred call of an inlined body stays with the wrong exit
  (`defer.c:40`, `inline.c:130`).
- Two functions that inline each other are expanded once per build (`inline.c:71`,
  family `mutual`).
- The mark of duplicated functions is never set on (`fb->used` is 0 when the pass
  looks), so they are never removed; the list of cold instructions is never
  cleared between functions.
- Calls through a pointer are not registered by `funcfold.c:49`, so a parameter
  passed one constant by name and another through a pointer is folded.

LIR and back end:
- A variable in memory and a constant have the same "register" -1 (`dfg.c:248`).
  A group of phi moves with two such places is rejected halfway although it was
  right, and `builder.c:417` drops the error: a move is lost.
- A tail call becomes a jump although the frame or a saved register of the
  caller is still to be put back (`tco.c:70`, functions of group 8).
- Copy propagation drops every write of a variable that is not read, of globals
  too (`copyprop.c:56`, group 11).
- Rules that reuse the flags of an instruction (`mov r, 0; cmp r, 0` becomes
  `xor r, r`, and the like) leave a write whose value nothing reads, and the
  cleanup, which knows nothing of flags, drops it (`x86_64_gnu_nasm.c:172`): the
  branch behind it then reads older flags. `LosesFlags` names these functions
  exactly, they are part 6 of `PeepholeFunctions`.
- `_jumps_pass` says that it changed something wherever a jump leads to the
  block behind it and that block still has its label, also when it takes out
  nothing (`x86_64_gnu_nasm.c:19`); the peephole then runs all of its 64 rounds.
  `Twice` has that shape: both ways of a branch lead to one block, and only one
  of them is behind it. The instance stops at four rounds, and `Settles` says that nothing was
  left to rewrite.
- `NotOfNot`, `ByOne` and `JumpToNext` are modelled but cannot match what the
  passes before leave: selection turns `LIR_NOT` into other instructions
  (`inst.c:231`), puts a divisor in a register (`inst.c:304`), and a jump and the
  label behind it are never in one block. No instance fires them. Nor is a loop
  without instructions among the peephole's functions.
- More than six arguments together with saved registers, the unsigned division
  of a narrow word (done as a signed one), and constants that do not fit their
  narrow word come out wrong and are excluded.

Types and data:
- `TPTB_add_copy` copies the body of a type at once, so a copy made before the
  type is complete keeps the old body (`typetb.c:410`, `Looser = {"index"}`).
- Two bases that both have virtual methods give the same slot to two methods
  (`contdef_pars.c:38`, `Looser = {"bases"}`), although containers.md:313 says that
  such methods 'have strict slot indices'.
- `@[abstract]` on a method of a plain container is dropped: whether a method is
  abstract is taken from its container being an interface (`funcdef_pars.c:157`),
  while containers.md:289 lets it declare an inherited slot. The model does as
  the code does.
- The size of a union that is like_c is rounded to a multiple of -1, which gives
  0 or 1 (`typetb.c:238`, `Looser = {"like c", "like c union"}`).
- A base is looked up by name at the end of the scopes (`ast/astgen/misc.c:17`,
  `Looser = {"derive"}`).
- An initialiser with a union or a virtual table inside a nested object puts
  values behind where the fields are read.

Containers:
- `map_decompress` clears the flag and leaves the layout; only its unit test
  calls it. Iterators over a map that is changed are not modelled.
- A shrinking `mm_realloc` can leave two free neighbours unmerged. Nothing is
  wrong with such a heap, but it is the reason why the invariant does not say
  that free blocks are apart.

## The plan

Done, in this order: dominators; the block graph; SSA; tail recursion; the loop
tree; phi moves; constants across calls; liveness; register allocation; the
containers; the loop passes; whole programs; the type table and static data; the
back end and the peephole. Then the proofs: dominators and frontiers, liveness,
phi moves, allocation, constants across calls, the containers, the block graph,
tail recursion, SSA, the loop tree.

Next, the most important first.

1. The frame map (`std/stackmap.c` with the frame of `mem.c`): slots do not
   overlap, the frame covers them. Abstract specification: a set of disjoint
   intervals, proved for frames of any size.
2. Fewer exclusions in `WholeProgram` and the back end: overload resolution,
   counters over a variable, more than six arguments across saved registers.
3. `Preprocessor` (the stack of conditions, the table of macros) and
   `SymbolTables` (copies of variables and the alias map).

## What is not modelled, and why

Whole parts:
- The preprocessor, the tokenizer and the parser's descent are syntax directed:
  what they should produce is written down nowhere but in themselves. The same
  holds for devirtualisation and generics.
- Strings, formatting, logging, lists and stacks: no property is about them.
- The Z3 pass hands formulas to an external solver; the static analysis reports
  and changes nothing; instruction planning is never called.
- The value DAG of one function.

Left out inside the parts that are modelled:
- *SSA*: one variable at a time (each is renamed on its own); blocks that end in
  a table jump and have neither `l` nor `jmp` (`cfg.c:122`, `ssa.c:238`).
- *Whole programs*: overload resolution and default arguments, indices, members,
  references and dereferences as expressions, counters over a variable,
  arguments taken from the stack, globals. Each statement stands on a line of its
  own, a program ends with an exit. The heuristics that choose a call to inline
  are a free choice, so every choice they could make is covered. The removal of
  duplicated functions is dead in the builder.
- *Tail recursion*: pointers to parameters (`tre.c:94`): a callee that was
  handed the address of a parameter shares it with the next turn of the loop.
- *Types and data*: no union inside a nested object, no table inside a nested
  object, one-dimensional arrays, the initialised object last. The data writers
  of the other two targets are copies of the one modelled.
- *Loops*: `dle.c:111` takes the last of the exits of a loop, see *Limits*.
- *Back end*: alignment fixes a call already has (`_has_stack_alignment_fix`,
  `mem.c:488`), table jumps where registers are saved (`caller_saving.c:219`),
  functions that are their body only (`tco.c:64`). Strings, arrays, floating point, vector instructions and naked
  functions. Slots of the frame are whole words and their map (`stackmap.c:86`)
  is not modelled. Comparisons are with zero. `LIR_clear_global_variables` is
  not modelled. An instruction's arguments stand as reads of variables. What the
  flags hold behind a dropped write is not compared. A run of more than 2^Fuel
  instructions counts as endless.
- *Heap*: requests of no size, pointers from elsewhere and the magic word: early
  returns that change nothing.
