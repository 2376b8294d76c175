------------------------------- MODULE LoopPasses -------------------------------
(* The loop passes over one SSA function, in the order of the builder      *)
(* (src/builder/builder.c): HIR_LTREE_licm until nothing moves any more,   *)
(* HIR_LOOP_perform_dle, HIR_LTREE_unroll.  First what a pass does to one  *)
(* loop: the count of iterations (src/hir/loop/iterations.c) with the      *)
(* elimination of dead loops (src/hir/loop/dle.c) and full unrolling       *)
(* (src/hir/loop/unroll.c), which use it, and the motion of invariant code *)
(* (src/hir/loop/licm.c).  A loop is a record of its header, latch,        *)
(* preheader, blocks, exits, children.                                     *)
(***************************************************************************)
EXTENDS SsaCode

CONSTANT MaxInstructions    \* UNROLL_MAX_INSTRUCTIONS
-----------------------------------------------------------------------------
(* HIR_LOOP_analyze_iterations: how often the body of a loop runs.  The    *)
(* definitions of an SSA function are found by the variable; a counter is  *)
(* a phi of the header whose next value is the counter plus or minus a     *)
(* step.                                                                   *)
UnknownCount == [status |-> "unknown", count |-> -2, ids |-> {}]
InfiniteCount(ids) == [status |-> "infinite", count |-> -1, ids |-> ids]
FiniteCount(n, ids) == [status |-> "finite", count |-> n, ids |-> ids]

(* _gather_function_definitions                                            *)
Writes(i) == i.op \in WriteOps \union {"phi"} /\ IsVar(i.dst)
DefPairs(fn) == UNION {{<<b, k>> : k \in {j \in DOMAIN fn.code[b] : Writes(fn.code[b][j])}} :
                           b \in Listed(fn)}
DefinedOnce(fn) == \A p, q \in DefPairs(fn) :
    p # q => fn.code[p[1]][p[2]].dst # fn.code[q[1]][q[2]].dst
Definitions(fn) ==
    LET At(p) == fn.code[p[1]][p[2]]
    IN  [v \in {At(p).dst : p \in DefPairs(fn)} |->
            LET p == CHOOSE q \in DefPairs(fn) : At(q).dst = v
            IN  [i |-> At(p), block |-> p[1]]]

(* _find_source_subj: through the plain copies.  What is asked on the way  *)
(* counts as a dependency.                                                 *)
RECURSIVE Copies(_, _)
Copies(x, defs) ==
    IF ~IsVar(x) THEN <<x>>
    ELSE IF x \in DOMAIN defs /\ defs[x].i.op = "store"
         THEN <<x>> \o Copies(defs[x].i.args[1], defs)
         ELSE <<x>>
Source(x, defs) == Last(Copies(x, defs))
Asked(x, defs) == VarsOf(Copies(x, defs))

(* _get_constant_value: what the constant propagation has found.           *)
IsKnown(x, defs) == Source(x, defs)[1] = "lit"
Known(x, defs) == Source(x, defs)[2]

(* _gather_loop_iterator_info; <<>> where it gives up.                     *)
Base(u, i, defs) ==
    IF Source(u.args[1], defs) = i THEN <<Source(u.args[1], defs), u.args[2]>>
    ELSE IF u.op = "add" THEN <<Source(u.args[2], defs), u.args[1]>>
    ELSE <<Source(u.args[1], defs), u.args[2]>>
Iterator(phi, loop, defs) ==
    LET initial == SelectSeq(phi.list, LAMBDA e : e[1] = loop.preheader)
        next == SelectSeq(phi.list, LAMBDA e : e[1] = loop.latch)
        updated == Source(next[1][2], defs)
        u == defs[updated]
        base == Base(u.i, phi.dst, defs)
        steps == IsKnown(base[2], defs)
        sign == IF u.i.op = "sub" THEN -1 ELSE 1
    IN  IF \/ Len(phi.list) # 2 \/ Len(initial) # 1 \/ Len(next) # 1
           \/ updated \notin DOMAIN defs \/ u.i.op \notin {"add", "sub"}
           \/ u.block \notin loop.blocks \/ base[1] # phi.dst
        THEN <<>>
        ELSE <<[counter |-> phi.dst, next |-> next[1][2],
                known |-> IsKnown(initial[1][2], defs),
                initial |-> IF IsKnown(initial[1][2], defs) THEN Known(initial[1][2], defs) ELSE 0,
                stepKnown |-> steps,
                step |-> IF steps THEN sign * Known(base[2], defs) ELSE 0,
                update |-> u.block,
                ids |-> {phi.dst, initial[1][2]} \union Asked(next[1][2], defs)
                        \union Asked(u.i.args[1], defs) \union VarsOf(<<base[2]>>)
                        \union (IF u.i.op = "add" THEN VarsOf(<<u.i.args[2]>>) ELSE {})]>>

(* HIR_LOOP_get_cond_blocks, _gather_iteration_condition                   *)
InvertedNot(op) == op
Inverted(op) == CASE op = "lwr" -> "lge" [] op = "lre" -> "lrg" [] op = "lrg" -> "lre"
                  [] op = "lge" -> "lwr" [] op = "cmp" -> "nmp" [] op = "nmp" -> "cmp"
Swapped(op) == CASE op = "lwr" -> "lrg" [] op = "lre" -> "lge" [] op = "lrg" -> "lwr"
                 [] op = "lge" -> "lre" [] OTHER -> op
CondBlocks(fn, loop) ==
    {b \in loop.blocks : Len(fn.exit[b].to) = 2 /\ ~(SuccSet(fn, b) \subseteq loop.blocks)}
PostTested(loop, b) == b = loop.latch /\ b # loop.header
Condition(fn, loop, b, it, defs) ==
    LET tested == Source(IF PostTested(loop, b) THEN it.next ELSE it.counter, defs)
        test == Source(fn.exit[b].test, defs)
        cmp == defs[test].i
        straight == Source(cmp.args[1], defs) = tested
        bound == IF straight THEN cmp.args[2] ELSE cmp.args[1]
        Stays(op) == IF fn.succ[b][1] \in loop.blocks THEN op ELSE Inverted(op)
        ids == Asked(fn.exit[b].test, defs) \union it.ids \union
               Asked(IF PostTested(loop, b) THEN it.next ELSE it.counter, defs)
    IN  IF test = tested
        THEN <<[op |-> Stays("nmp"), known |-> TRUE, bound |-> 0, post |-> PostTested(loop, b),
                ids |-> ids]>>
        ELSE IF \/ ~IsVar(test) \/ test \notin DOMAIN defs \/ cmp.op \notin Comparisons
                \/ defs[test].block # b
                \/ ~straight /\ Source(cmp.args[2], defs) # tested
        THEN <<>>
        ELSE <<[op |-> Stays(IF straight THEN cmp.op ELSE Swapped(cmp.op)),
                known |-> IsKnown(bound, defs),
                bound |-> IF IsKnown(bound, defs) THEN Known(bound, defs) ELSE 0,
                post |-> PostTested(loop, b),
                ids |-> ids \union VarsOf(<<bound>>) \union Asked(cmp.args[1], defs)
                        \union (IF straight THEN {} ELSE Asked(cmp.args[2], defs))]>>

(* _calculate_iteration_count                                              *)
InRange(n) == n >= Low /\ n =< High
CeilDiv(a, b) == (a + b - 1) \div b
Trips(op, start, bound, step) ==
    CASE op \in {"lwr", "lre"} /\ step > 0 ->
             CeilDiv(bound - start + (IF op = "lre" THEN 1 ELSE 0), step)
      [] op \in {"lrg", "lge"} /\ step < 0 ->
             CeilDiv(start - bound + (IF op = "lge" THEN 1 ELSE 0), -step)
      [] op = "nmp" -> LET n == (bound - start) \div step
                       IN  IF n * step = bound - start /\ n > 0 THEN n ELSE -1
      [] op = "cmp" -> 1
      [] OTHER -> -1
Counted(it, c, header) ==
    LET start == it.initial + (IF c.post THEN it.step ELSE 0)
        extra == IF c.post THEN 1 ELSE 0
        trips == Trips(c.op, start, c.bound, it.step)
    IN  CASE \/ ~it.known \/ ~c.known \/ ~InRange(c.bound)
             \/ ~c.post /\ it.update = header
             \/ c.post /\ ~it.stepKnown
             \/ ~InRange(start) -> UnknownCount
          [] ~Holds(c.op, start, c.bound) -> FiniteCount(extra, c.ids)
          [] ~it.stepKnown -> UnknownCount
          [] it.step = 0 -> InfiniteCount(c.ids)
          [] trips = -1 \/ ~InRange(start + trips * it.step) -> UnknownCount
          [] OTHER -> FiniteCount(trips + extra, c.ids)

(* _can_count_loop_iterations                                              *)
CanCount(fn, loop) ==
    LET conds == CondBlocks(fn, loop)
    IN  /\ loop.children = {} /\ Cardinality(conds) =< 1
        /\ conds \subseteq {loop.header, loop.latch}
        /\ \A b \in loop.blocks \ conds : SuccSet(fn, b) \subseteq loop.blocks

(* _analyze_constant_condition                                             *)
ConstantCondition(fn, loop, defs) ==
    IF CondBlocks(fn, loop) = {} THEN InfiniteCount({})
    ELSE LET b == CHOOSE c \in CondBlocks(fn, loop) : TRUE
             t == fn.exit[b].test
             ids == VarsOf(<<t>>)
         IN  IF ~IsKnown(t, defs) THEN UnknownCount
             ELSE IF (fn.succ[b][1] \in loop.blocks) = (Known(t, defs) # 0) THEN InfiniteCount(ids)
             ELSE FiniteCount(IF PostTested(loop, b) THEN 1 ELSE 0, ids)

(* The phis of the header in turn: the last one that gives a count.        *)
WithCondition(it, c, loop) == IF c = <<>> THEN UnknownCount ELSE Counted(it, c[1], loop.header)
CountOf(fn, loop, it, defs, conds) ==
    IF it = <<>> \/ conds = {} THEN UnknownCount
    ELSE WithCondition(it[1], Condition(fn, loop, CHOOSE b \in conds : TRUE, it[1], defs), loop)
IfKnown(a, otherwise) == IF a.status = "unknown" THEN otherwise ELSE a
LastKnown(fn, loop, defs, conds) ==
    FoldLeft(LAMBDA r, phi : IfKnown(CountOf(fn, loop, Iterator(phi, loop, defs), defs, conds), r),
             UnknownCount, SelectSeq(fn.code[loop.header], LAMBDA i : i.op = "phi"))
Counts(fn, loop, defs) ==
    IfKnown(LastKnown(fn, loop, defs, CondBlocks(fn, loop)), ConstantCondition(fn, loop, defs))

Analysis(fn, loop) ==
    IF ~DefinedOnce(fn) \/ ~CanCount(fn, loop) THEN UnknownCount
    ELSE Counts(fn, loop, Definitions(fn))
-----------------------------------------------------------------------------
(* _count_commands: nothing in the loop but what the count is made of.     *)
CountOps == {"preamble", "store", "add", "sub"} \union Comparisons
Useless(i, ids) ==
    \/ i.op = "test"
    \/ i.op = "phi" /\ i.dst \in ids
    \/ i.op \in CountOps /\ \A v \in Direct(i) : ~IsGlobal(v) /\ v \in ids
NoCommands(fn, loop, ids) ==
    \A b \in loop.blocks : \A k \in DOMAIN Instructions(fn, b) :
        Useless(Instructions(fn, b)[k], ids)

(* _cond_used_after_loop                                                   *)
RECURSIVE After(_, _, _)
After(fn, loop, S) ==
    LET T == S \union (UNION {SuccSet(fn, b) : b \in S} \ loop.blocks)
    IN  IF T = S THEN S ELSE After(fn, loop, T)
Uses(i) ==
    VarsOf([k \in DOMAIN i.list |-> IF i.op = "phi" THEN i.list[k][2] ELSE i.list[k]])
        \union (IF i.op \in WriteOps \union {"phi", "preamble"} THEN Rhs(i) ELSE Direct(i))
UsedAfter(fn, loop) ==
    UNION {UNION {Uses(Instructions(fn, b)[k]) : k \in DOMAIN Instructions(fn, b)} :
               b \in After(fn, loop, loop.exits \ loop.blocks)}

(* _mark_loop_dead: the preheader's link goes to the exit; its jump does   *)
(* not.                                                                    *)
DeadAs(fn, loop, a) ==
    /\ a.status = "finite" /\ loop.exits # {}
    /\ NoCommands(fn, loop, a.ids)
    /\ a.ids \intersect UsedAfter(fn, loop) = {}
IsDead(fn, loop) == DeadAs(fn, loop, Analysis(fn, loop))
ExitOf(loop) == CHOOSE e \in loop.exits : e \notin loop.blocks
MarkDead(fn, loop) == [fn EXCEPT !.succ[loop.preheader] = <<ExitOf(loop)>>]
-----------------------------------------------------------------------------
(* _is_valid_loop: one straight line of blocks from the header to the      *)
(* latch, entered at the header only, within the budget.                   *)
Inside(fn, loop, b) == CHOOSE s \in SuccSet(fn, b) : s \in loop.blocks
Sorted(fn, loop) == SelectSeq(fn.blocks, LAMBDA b : b \in loop.blocks)
Straight(fn, loop) ==
    LET line == Sorted(fn, loop)
    IN  /\ line[1] = loop.header /\ Last(line) = loop.latch
        /\ \A k \in 1 .. Len(line) - 1 :
            /\ Inside(fn, loop, line[k]) = line[k + 1]
            /\ PredSet(fn, line[k + 1]) = {line[k]}
        /\ \A b \in loop.blocks \ CondBlocks(fn, loop) : Len(fn.succ[b]) = 1
InstructionCount(fn, loop) ==   \* the label and the jump of a block as well
    FoldLeft(LAMBDA n, b : n + Len(fn.code[b]) + 2, 0, Sorted(fn, loop))
Exiting(fn, loop) == CHOOSE b \in CondBlocks(fn, loop) : TRUE
WithinBudget(fn, loop, a) ==
    /\ a.status = "finite" /\ loop.children = {}
    /\ Cardinality(CondBlocks(fn, loop)) = 1
    /\ Straight(fn, loop)
    /\ a.count =< MaxInstructions \div InstructionCount(fn, loop)
                      - (IF PostTested(loop, Exiting(fn, loop)) THEN 0 ELSE 1)
CanUnroll(fn, loop) == WithinBudget(fn, loop, Analysis(fn, loop))

(* _get_dead_comparison: the comparison of the test, used by nothing else. *)
DeadComparison(fn, loop, i) ==
    LET c == CHOOSE b \in CondBlocks(fn, loop) : TRUE
        comparison == Source(fn.exit[c].test, Definitions(fn))
    IN  /\ i.op \in Comparisons /\ i.dst = comparison
        /\ \A b \in Listed(fn) :
            /\ b = c \/ fn.exit[b].test # i.dst
            /\ \A k \in DOMAIN fn.code[b] :
                 LET j == fn.code[b][k]
                 IN  j = i \/ i.dst \notin Direct(j) \union Uses(j)

(* _rename_subject                                                         *)
Renamed(x, versions) == IF x \in DOMAIN versions THEN versions[x] ELSE x
RenameAll(seq, versions) == [k \in DOMAIN seq |-> Renamed(seq[k], versions)]
RenameUses(i, versions) ==
    [i EXCEPT !.args = RenameAll(@, versions),
              !.list = IF i.op = "phi"
                       THEN [k \in DOMAIN @ |-> <<@[k][1], Renamed(@[k][2], versions)>>]
                       ELSE RenameAll(@, versions)]

(* _copy_iteration, one instruction: a write gets a new version; a copy    *)
(* for a phi of the header becomes, at the end of its block, the version   *)
(* the next iteration starts from.                                         *)
CopyInstruction(u, i) ==
    IF i.op \in {"phi"} \/ i = u.comparison THEN u
    ELSE IF i.op = "preamble" /\ i.dst \in DOMAIN u.versions
    THEN [u EXCEPT !.incoming = (i.dst :> Renamed(i.args[1], u.versions)) @@ @]
    ELSE LET copy == RenameUses(i, u.versions)
             new == <<i.dst[1], u.fresh>>
         IN  IF i.op \in WriteOps /\ ~IsGlobal(i.dst)
             THEN [u EXCEPT !.code = Append(@, [copy EXCEPT !.dst = new]),
                            !.versions = (i.dst :> new) @@ @, !.fresh = @ + 1]
             ELSE [u EXCEPT !.code = Append(@, copy)]
EndBlock(u) == [u EXCEPT !.versions = u.incoming @@ @, !.incoming = <<>>]
CopyBlock(fn, u, b) == EndBlock(FoldLeft(CopyInstruction, u, fn.code[b]))
CopyBlocks(fn, u, line) == FoldLeft(LAMBDA v, b : CopyBlock(fn, v, b), u, line)

RECURSIVE CopyIterations(_, _, _, _)
CopyIterations(fn, u, line, n) ==
    IF n = 0 THEN u ELSE CopyIterations(fn, CopyBlocks(fn, u, line), line, n - 1)

(* _unroll_loop: the header holds the copies and goes to the exit; the     *)
(* other blocks leave the list, and the rest of the function uses the last *)
(* versions.                                                               *)
Entering(fn, loop) ==
    LET phis == {fn.code[loop.header][k] : k \in
                    {j \in DOMAIN fn.code[loop.header] : fn.code[loop.header][j].op = "phi"}}
        From(phi) == SelectSeq(phi.list, LAMBDA e : e[1] = loop.preheader)[1][2]
    IN  [v \in {phi.dst : phi \in phis} |->
            From(CHOOSE phi \in phis : phi.dst = v)]
FromHeader(i, loop) ==
    IF i.op # "phi" THEN i
    ELSE [i EXCEPT !.list = [k \in DOMAIN @ |->
              IF @[k][1] = loop.latch THEN <<loop.header, @[k][2]>> ELSE @[k]]]
Outside(fn, loop, b, exit, versions) ==
    LET kept == SelectSeq(fn.code[b], LAMBDA i :
            ~(b = loop.preheader /\ i.op = "preamble" /\ i.dst \in DOMAIN versions))
        Of(i) == IF b = exit THEN FromHeader(RenameUses(i, versions), loop)
                 ELSE RenameUses(i, versions)
    IN  [k \in DOMAIN kept |-> Of(kept[k])]
Replace(fn, loop, all, exit) ==
    [fn EXCEPT
        !.blocks = SelectSeq(@, LAMBDA b : b \notin loop.blocks \ {loop.header}),
        !.code = [b \in DOMAIN @ |->
            IF b = loop.header THEN all.code
            ELSE IF b \in loop.blocks THEN <<>> ELSE Outside(fn, loop, b, exit, all.versions)],
        !.exit = [b \in DOMAIN @ |->
            IF b = loop.header THEN [test |-> NoVar, to |-> <<exit>>]
            ELSE IF b \in loop.blocks THEN [test |-> NoVar, to |-> <<>>]
            ELSE [@[b] EXCEPT !.test = Renamed(@, all.versions)]],
        !.succ = [b \in DOMAIN @ |-> IF b = loop.header THEN <<exit>>
                                     ELSE IF b \in loop.blocks THEN <<>> ELSE @[b]]]
FirstCopy(fn, loop, fresh, dead) ==
    [code |-> <<>>, versions |-> Entering(fn, loop), incoming |-> <<>>, fresh |-> fresh,
     comparison |-> IF dead = <<>> THEN [op |-> "none"] ELSE dead[1]]
Copied(fn, loop, fresh, c) ==
    LET dead == SelectSeq(Text(fn), LAMBDA i : DeadComparison(fn, loop, i))
        body == CopyIterations(fn, FirstCopy(fn, loop, fresh, dead), Sorted(fn, loop),
                               Analysis(fn, loop).count)
    IN  IF PostTested(loop, c) THEN body ELSE CopyBlock(fn, body, loop.header)
UnrollAt(fn, loop, fresh, c) ==
    Replace(fn, loop, Copied(fn, loop, fresh, c),
            CHOOSE s \in SuccSet(fn, c) : s \notin loop.blocks)
Unroll(fn, loop, fresh) == UnrollAt(fn, loop, fresh, Exiting(fn, loop))
-----------------------------------------------------------------------------
(* Loop invariant code motion (src/hir/loop/licm.c): which instructions of *)
(* a loop HIR_LTREE_licm takes for invariant, and their move to the        *)
(* preheader.  The sets the code builds up in hash order only grow, so the *)
(* order does not show.  Instructions carry a number `n`.                  *)
(* HIR_compute_homes: the first instruction in the list, phis and their    *)
(* copies aside, in which a variable stands; 0 where there is none.        *)
HomesOf(fn) ==
    LET text == SelectSeq(Text(fn), LAMBDA i : i.op \notin {"phi", "preamble"})
        vars == UNION {Direct(text[k]) : k \in DOMAIN text}
    IN  [v \in vars |-> text[CHOOSE k \in DOMAIN text :
            /\ v \in Direct(text[k])
            /\ \A j \in 1 .. k - 1 : v \notin Direct(text[j])]]

InLoop(fn, loop) == UNION {Range(Instructions(fn, b)) : b \in loop.blocks}
WithBases(S) == S \union {BaseOf(v) : v \in S}
CanBeDef(i) == i.op \in WriteOps \ {"scall"} /\ IsVar(i.dst)     \* _hir_can_be_licm_def

(* _hir_rhs_depends_on_any_vid_from_set: what the operands reach through   *)
(* the homes that lie in the loop.                                         *)
RECURSIVE Reached(_, _, _)
Reached(S, homes, within) ==
    LET T == S \union UNION {Rhs(homes[v]) : v \in
                 {u \in S : u \in DOMAIN homes /\ homes[u] \in within}}
    IN  IF T = S THEN WithBases(S) ELSE Reached(T, homes, within)

(* _get_inductive_variables                                                *)
Mentioned(i) == IF i.op = "phi" THEN {i.dst, BaseOf(i.dst)} ELSE WithBases(Direct(i))
RECURSIVE Spread(_, _, _)
Spread(ind, defs, reach) ==
    LET new == {i \in defs : /\ WithBases({i.dst}) \intersect ind = {}
                             /\ reach[i] \intersect ind # {}}
    IN  IF new = {} THEN ind
        ELSE Spread(ind \union WithBases({i.dst : i \in new}), defs, reach)
Inductive(within, reach) ==
    LET defs == {i \in within : CanBeDef(i)}
        kept == UNION {Mentioned(i) : i \in within \ defs}
        own == {i.dst : i \in {j \in defs : WithBases({j.dst}) \intersect reach[j] # {}}}
    IN  Spread(kept \union WithBases(own), defs, reach)

(* _get_invariant_defs                                                     *)
HomeStays(v, homes, within, inv) == v \in DOMAIN homes /\ homes[v] \in within \ inv
RECURSIVE Invariants(_, _, _, _, _)
Invariants(inv, ind, homes, within, reach) ==
    LET new == {i \in within \ inv :
                   /\ CanBeDef(i)
                   /\ reach[i] \intersect ind = {}
                   /\ \A v \in Rhs(i) : ~HomeStays(v, homes, within, inv)}
    IN  IF new = {} THEN inv ELSE Invariants(inv \union new, ind, homes, within, reach)

(* _licm_process: the invariants leave in the order of the list and go     *)
(* behind what the preheader holds.                                        *)
Hoistable(fn, loop, homes) ==
    LET within == InLoop(fn, loop)
        reach == [i \in within |-> Reached(Rhs(i), homes, within)]
    IN  Invariants({}, Inductive(within, reach), homes, within, reach)
MoveOrderBack(fn, inv) == Reverse(SelectSeq(Text(fn), LAMBDA i : i \in inv))
MoveOrder(fn, inv) == SelectSeq(Text(fn), LAMBDA i : i \in inv)
Hoist(fn, loop, inv) ==
    [fn EXCEPT !.code = [b \in DOMAIN @ |->
        IF b = loop.preheader THEN @[b] \o MoveOrder(fn, inv)
        ELSE SelectSeq(@[b], LAMBDA i : i \notin inv)]]
-----------------------------------------------------------------------------
(* The passes as a state machine                                           *)
CONSTANTS
    Programs,   \* functions in SSA, their loops (children first), the
                \* arguments they are run with
    Fuel        \* blocks after which a run counts as endless

VARIABLES
    orig,       \* the program before the passes, fixed
    shown,      \* what its runs show, by the arguments, fixed
    fn,         \* the function
    homes,      \* arg->home, by variable
    stage,       \* "licm", "dle", "collect", "unroll", "done"
    todo,       \* the loops the pass has still to visit
    moved,      \* HIR_LTREE_licm's changed
    chosen      \* the loops collected for unrolling

vars == <<orig, shown, fn, homes, stage, todo, moved, chosen>>

Init ==
    /\ orig \in Programs
    /\ shown = [a \in orig.args |-> Behaviour(orig.fn, Targets(orig.fn), a, Fuel)]
    /\ fn = orig.fn /\ homes = HomesOf(orig.fn)
    /\ stage = "licm" /\ todo = orig.loops /\ moved = FALSE /\ chosen = <<>>

Motion ==
    /\ stage = "licm" /\ todo # <<>>
    /\ LET inv == Hoistable(fn, Head(todo), homes)
       IN  fn' = Hoist(fn, Head(todo), inv) /\ moved' = (moved \/ inv # {})
    /\ todo' = Tail(todo)
    /\ UNCHANGED <<orig, shown, homes, stage, chosen>>

Again ==
    /\ stage = "licm" /\ todo = <<>> /\ moved
    /\ todo' = orig.loops /\ moved' = FALSE
    /\ UNCHANGED <<orig, shown, fn, homes, stage, chosen>>

NextPass(from, to) ==
    /\ stage = from /\ todo = <<>> /\ ~moved
    /\ stage' = to /\ todo' = orig.loops
    /\ UNCHANGED <<orig, shown, fn, homes, moved, chosen>>

Eliminate ==
    /\ stage = "dle" /\ todo # <<>>
    /\ fn' = IF IsDead(fn, Head(todo)) THEN MarkDead(fn, Head(todo)) ELSE fn
    /\ todo' = Tail(todo)
    /\ UNCHANGED <<orig, shown, homes, stage, moved, chosen>>

(* The loops to unroll are chosen before the first is unrolled.            *)
Collect ==
    /\ stage = "collect" /\ todo # <<>>
    /\ chosen' = IF CanUnroll(fn, Head(todo)) THEN Append(chosen, Head(todo)) ELSE chosen
    /\ todo' = Tail(todo)
    /\ UNCHANGED <<orig, shown, fn, homes, stage, moved>>

Fresh == 100 * (1 + Len(orig.loops) - Len(chosen))  \* above every version in use
UnrollNext ==
    /\ stage = "unroll" /\ chosen # <<>>
    /\ fn' = Unroll(fn, Head(chosen), Fresh)
    /\ chosen' = Tail(chosen)
    /\ UNCHANGED <<orig, shown, homes, stage, todo, moved>>

BeginUnroll ==
    /\ stage = "collect" /\ todo = <<>>
    /\ stage' = "unroll"
    /\ UNCHANGED <<orig, shown, fn, homes, todo, moved, chosen>>

Done ==
    /\ stage = "unroll" /\ chosen = <<>>
    /\ stage' = "done"
    /\ UNCHANGED <<orig, shown, fn, homes, todo, moved, chosen>>

Next ==
    \/ Motion \/ Again \/ NextPass("licm", "dle") \/ Eliminate
    \/ NextPass("dle", "collect") \/ Collect \/ BeginUnroll \/ UnrollNext \/ Done

Spec == Init /\ [][Next]_vars
-----------------------------------------------------------------------------
(* A variable is written in one place, and the phis of a block name its    *)
(* predecessors.                                                           *)
StillSsa ==
    /\ DefinedOnce(orig.fn) => DefinedOnce(fn)
    /\ \A b \in After(fn, [blocks |-> {}], {fn.blocks[1]}) : \A k \in DOMAIN fn.code[b] :
        fn.code[b][k].op = "phi" =>
            \A j \in DOMAIN fn.code[b][k].list : fn.code[b][k].list[j][1] \in PredSet(fn, b)

(* After every step of every pass a run of the function shows the outside  *)
(* what the program as written shows it, whether it follows the jumps of   *)
(* the code or the links of the graph.                                     *)
KeepsBehaviour ==
    fn # orig.fn => \A a \in orig.args : \A next \in {Targets(fn), fn.succ} :
        Behaviour(fn, next, a, Fuel) = shown[a]

(* A loop that is said to run without end does.                            *)
InfiniteNeverLeaves ==
    stage \in {"licm", "dle"} => \A k \in DOMAIN todo :
        Analysis(fn, todo[k]).status = "infinite" =>
            \A a \in orig.args : shown[a].end = "endless"
=============================================================================
