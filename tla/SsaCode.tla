-------------------------------- MODULE SsaCode --------------------------------
(* The HIR of one function after SSA renaming (include/hir/hir.h), as the  *)
(* loop passes see it, and what it does when it runs.                      *)
(*                                                                         *)
(* A variable is <<base, version>>, a constant <<"lit", n>>.  An           *)
(* instruction has the variable it writes, its direct operands and the     *)
(* variables of its argument list or phi set.  A block ends in the jump    *)
(* `exit`, a test and its targets, and has the links `l` and `jmp` of the  *)
(* graph, in the order of the targets.  All integers have one width.  A    *)
(* definition in front of another with the same parameters and used by     *)
(* none is a faulty variant named in PROJECT.json.                         *)
(***************************************************************************)
EXTENDS Integers, Sequences, FiniteSets, SequencesExt

CONSTANT Half       \* the integers of the function: two's complement
Low == -Half
High == Half - 1

NoVar == <<"none", 0>>
Lit(n) == <<"lit", n>>
IsVar(x) == x[1] \notin {"lit", "none"}
BaseOf(v) == <<v[1], 0>>            \* _gather_base_vid
IsGlobal(v) == v[1] = "glb"
Mem == <<"mem", 0>>                 \* what the pointers of the function lead to
Glb == <<"glb", 0>>

Comparisons == {"lwr", "lre", "lrg", "lge", "cmp", "nmp"}
Arithmetic == {"add", "sub", "mul", "div"}
WriteOps == {"store", "load", "scall"} \union Comparisons \union Arithmetic

VarsOf(seq) == {seq[k] : k \in {j \in DOMAIN seq : IsVar(seq[j])}}
Rhs(i) == VarsOf(i.args)                        \* iterate_hir_args(.., 1)
Direct(i) == Rhs(i) \union ({i.dst} \ {NoVar})  \* iterate_hir_args(.., 0)

TestOf(fn, b) == [op |-> "test", dst |-> fn.exit[b].test, args |-> <<>>, list |-> <<>>]
Instructions(fn, b) ==
    IF IsVar(fn.exit[b].test) THEN Append(fn.code[b], TestOf(fn, b)) ELSE fn.code[b]

SuccSet(fn, b) == {fn.succ[b][k] : k \in DOMAIN fn.succ[b]}
Listed(fn) == {fn.blocks[k] : k \in DOMAIN fn.blocks}
PredSet(fn, b) == {p \in Listed(fn) : b \in SuccSet(fn, p)}
Text(fn) == FoldLeft(LAMBDA text, b : text \o Instructions(fn, b), <<>>, fn.blocks)
-----------------------------------------------------------------------------
(* Running: arithmetic wraps, a variable that nothing has written holds    *)
(* Unwritten, and so does all that is computed from it.                    *)
Unwritten == High + 1
Wrap(x) == Low + ((x - Low) % (High - Low + 1))
Holds(op, a, b) ==
    CASE op = "lwr" -> a < b  [] op = "lre" -> a =< b [] op = "lrg" -> a > b
      [] op = "lge" -> a >= b [] op = "cmp" -> a = b  [] op = "nmp" -> a # b
Compute(op, a, b) ==
    CASE op = "store" -> a
      [] Unwritten \in {a, b} -> Unwritten
      [] op = "add" -> Wrap(a + b)
      [] op = "sub" -> Wrap(a - b)
      [] op = "mul" -> Wrap(a * b)
      [] op = "div" -> a \div b
      [] op \in Comparisons -> IF Holds(op, a, b) THEN 1 ELSE 0

Value(env, x) == IF x[1] = "lit" THEN x[2]
                 ELSE IF x \in DOMAIN env THEN env[x] ELSE Unwritten

(* One instruction.  A call shows its arguments, the global and the memory *)
(* to the outside, and counts the memory up; a division by zero traps.     *)
(* The copies for the phis of a successor happen at the end of the block,  *)
(* at once.                                                                *)
Execute(m, i) ==
    LET a == IF i.args = <<>> THEN Unwritten ELSE Value(m.env, i.args[1])
        b == IF Len(i.args) < 2 THEN 0 ELSE Value(m.env, i.args[2])
        Seen == [k \in DOMAIN i.list |-> Value(m.env, i.list[k])]
                    \o <<Value(m.env, Glb), Value(m.env, Mem)>>
    IN  CASE m.trap \/ i.op \in {"phi", "pos", "dead"} -> m
          [] i.op = "preamble" -> [m EXCEPT !.moves = Append(@, i)]
          [] i.op = "load" -> [m EXCEPT !.env = (i.dst :> m.env[Mem]) @@ @]
          [] i.op = "call" -> [m EXCEPT !.out = @ \o Seen, !.env[Mem] = Wrap(@ + 1)]
          [] i.op = "scall" -> [m EXCEPT !.out = @ \o Seen,
                                         !.env = (i.dst :> m.env[Mem]) @@ [@ EXCEPT ![Mem] = Wrap(@ + 1)]]
          [] i.op = "div" /\ b = 0 -> [m EXCEPT !.trap = TRUE]
          [] OTHER -> [m EXCEPT !.env = (i.dst :> Compute(i.op, a, b)) @@ @]

RunBlock(fn, b, env, out) ==
    LET m == FoldLeft(Execute, [env |-> env, out |-> out, moves |-> <<>>, trap |-> FALSE],
                      fn.code[b])
        Copied == [v \in {m.moves[k].dst : k \in DOMAIN m.moves} |->
                      Value(m.env, (CHOOSE i \in Range(m.moves) : i.dst = v).args[1])]
    IN  [m EXCEPT !.env = Copied @@ @]

(* The run along the jumps, or along the links of the graph.               *)
RECURSIVE Run(_, _, _, _, _, _)
Run(fn, next, b, env, out, fuel) ==
    LET m == RunBlock(fn, b, env, out)
        t == Value(m.env, fn.exit[b].test)
        to == next[b]
    IN  CASE m.trap -> [out |-> m.out, end |-> "trap"]
          [] fuel = 0 -> [out |-> <<>>, end |-> "endless"]
          [] to = <<>> -> [out |-> Append(m.out, t), end |-> "exit"]
          [] OTHER -> Run(fn, next, IF Len(to) = 1 \/ t # 0 THEN to[1] ELSE to[2],
                          m.env, m.out, fuel - 1)

Targets(fn) == [b \in DOMAIN fn.exit |-> fn.exit[b].to]
Behaviour(fn, next, args, fuel) ==
    Run(fn, next, fn.blocks[1], args @@ (Mem :> 0 @@ Glb :> 0), <<>>, fuel)
=============================================================================
