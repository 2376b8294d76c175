---------------------------- MODULE HirGeneration ----------------------------
(* From the syntax tree of a program to the list of HIR instructions       *)
(* (src/hir/hirgen): the statements that steer control, calls, functions   *)
(* inside functions, lazy logic, and the sections that @[cold] moves away. *)
(*                                                                         *)
(* A program is [defs |-> the sequence of its functions, top |-> the outer *)
(* ones in the order of the text, sup |-> whether cold sections are        *)
(* supported, ...].  A label, a temporary or a hidden variable is new      *)
(* wherever it is made: its name is the path of its node in the tree.      *)
(* Every number is a full word.                                            *)
(***************************************************************************)
EXTENDS Integers, Sequences, SequencesExt

(* Where the generator stands: function, node, target of a break and       *)
(* whether the instructions go to the cold list.                           *)
Place(p, f) == [prog |-> p, fn |-> f, path |-> <<>>, brk |-> <<>>, cold |-> FALSE]
At(c, i) == [c EXCEPT !.path = Append(@, i)]

Label(c, k) == [fn |-> c.fn, name |-> Append(c.path, k), copy |-> <<>>]
Stack(c, name) == [fn |-> c.fn, tmp |-> FALSE, name |-> name, copy |-> <<>>]
Tmp(c) == [fn |-> c.fn, tmp |-> TRUE, name |-> c.path, copy |-> <<>>]
Nowhere == [fn |-> 0, tmp |-> TRUE, name |-> <<>>, copy |-> <<>>]

Const(v) == [k |-> "const", v |-> v]
Var(x) == [k |-> "var", v |-> x]

(* HIR_append_block: a cold instruction waits in the list of its own.      *)
Instr(c, op, to, args, labels, fn) ==
    [op |-> op, to |-> to, args |-> args, labels |-> labels, fn |-> fn,
     cold |-> c.prog.sup /\ c.cold, unused |-> FALSE]
Op(c, op) == <<Instr(c, op, Nowhere, <<>>, <<>>, 0)>>
On(c, op, args) == <<Instr(c, op, Nowhere, args, <<>>, 0)>>
Set(c, op, to, args) == <<Instr(c, op, to, args, <<>>, 0)>>
Mark(c, l) == <<Instr(c, "mklb", Nowhere, <<>>, <<l>>, 0)>>
Jump(c, l) == <<Instr(c, "jmp", Nowhere, <<>>, <<l>>, 0)>>
Branch(c, v, l, r) == <<Instr(c, "if", Nowhere, <<v>>, <<l, r>>, 0)>>
Name(c, op, to, args, f) == <<Instr(c, op, to, args, <<>>, f)>>

(* Variables are marked as used before they become arguments.              *)
Uses(c, args) == LET vs == SelectSeq(args, LAMBDA a : a.k = "var")
                 IN  [i \in DOMAIN vs |-> On(c, "vruse", <<vs[i]>>)[1]]

(* One after another; halved, which keeps the recursion of TLC short.      *)
RECURSIVE Joined(_)
Joined(ss) ==
    LET n == Len(ss)
    IN  IF n = 0 THEN <<>> ELSE IF n = 1 THEN ss[1]
        ELSE Joined(SubSeq(ss, 1, n \div 2)) \o Joined(SubSeq(ss, n \div 2 + 1, n))
-----------------------------------------------------------------------------
(* The dispatch of a switch: the cases are sorted by value.                *)
Sorted(cases) == SortSeq(cases, LAMBDA a, b : a.v < b.v)

Test(c, op, cond, v, yes, no) ==
    Set(c, op, Tmp(c), <<cond, Const(v)>>) \o Branch(c, Var(Tmp(c)), yes, no)

Straight(cs, cond, def, c) ==
    Joined([i \in DOMAIN cs |->
        Test(At(c, i), "icmp", cond, cs[i].v, cs[i].l, Label(At(c, i), 1))
        \o Mark(c, Label(At(c, i), 1))])
    \o Jump(c, def)

Middle(left, right) == (left + right) \div 2

RECURSIVE Binary(_, _, _, _, _, _)
Binary(cs, cond, left, right, def, c) ==
    IF left > right THEN Jump(c, def)
    ELSE LET m == Middle(left, right)
             more == Label(c, 1)   lower == Label(c, 2)
             above == Label(c, 3)  equal == Label(c, 4)
         IN  Test(At(c, 5), "ilwr", cond, cs[m].v, lower, more)
             \o Mark(c, lower) \o Binary(cs, cond, left, m - 1, def, At(c, 6))
             \o Mark(c, more) \o Test(At(c, 7), "ilrg", cond, cs[m].v, above, equal)
             \o Mark(c, above) \o Binary(cs, cond, m + 1, right, def, At(c, 8))
             \o Mark(c, equal) \o Jump(c, cs[m].l)

(* The table holds a label for every value between the least and the       *)
(* greatest case; the values no case names go to the default.              *)
Table(cs, def) ==
    Joined([i \in DOMAIN cs |->
        <<cs[i].l>> \o IF i = Len(cs) THEN <<>>
                       ELSE [j \in 1 .. cs[i + 1].v - 1 - cs[i].v |-> def]])

Tabled(cs, cond, def, c) ==
    LET index == At(c, 3)
    IN  Test(At(c, 1), "ilwr", cond, cs[1].v, def, Label(c, 1)) \o Mark(c, Label(c, 1))
        \o Test(At(c, 2), "ilrg", cond, cs[Len(cs)].v, def, Label(c, 2)) \o Mark(c, Label(c, 2))
        \o Set(c, "isub", Tmp(index), <<cond, Const(cs[1].v)>>)
        \o <<Instr(c, "jmptab", Nowhere, <<Var(Tmp(index))>>, Table(cs, def), 0)>>

(* _select_the_best_switch_type: the cases come in the order of the text.  *)
Best(cs) ==
    LET n == Len(cs)
        gap == IF n = 0 THEN 0 ELSE cs[n].v - cs[1].v
    IN  IF n < 5 THEN "straight"
        ELSE IF gap < 3 * n THEN "table"
        ELSE IF n < 10 THEN "straight" ELSE "binary"
-----------------------------------------------------------------------------
RECURSIVE Expr(_, _), Exprs(_, _), Stmt(_, _), Block(_, _), Function(_, _)

(* HIR_generate_elem: the instructions and the operand they leave.         *)
Made(code, v) == [code |-> code, v |-> v]

Load(e, c) ==
    IF e.e = "const" THEN Made(<<>>, Const(e.v))
    ELSE IF e.e = "var" THEN Made(<<>>, Var(Stack(c, e.x)))
    ELSE Made(Name(c, "ref", Tmp(c), <<>>, e.f), Var(Tmp(c)))

Arithmetic(e, l, r, c) ==
    Made(l.code \o r.code \o Set(c, e.e, Tmp(c), <<l.v, r.v>>), Var(Tmp(c)))

(* What follows the test of an operand of "or" or "and": code is the other *)
(* operand's, when it is not made before.                                  *)
Sides(e, c, res, code, v) ==
    LET way(side) == IF (e.e = "or") = (side = "other") THEN Label(c, 4) ELSE Label(c, 3)
    IN  Mark(c, way("other")) \o code \o Set(c, "store", res, <<v>>) \o Jump(c, Label(c, 5))
        \o Mark(c, way("short"))
        \o Set(c, "store", res, <<Const(IF e.e = "or" THEN 1 ELSE 0)>>)
        \o Jump(c, Label(c, 5)) \o Mark(c, Label(c, 5))

(* A lazy "and" declares its result once more.                             *)
Again(e, c, res) == IF e.e = "and" THEN Set(c, "vardecl", res, <<>>) ELSE <<>>

Lazy(e, l, r, c) ==
    LET res == Stack(c, c.path)
    IN  Made(Set(c, "vardecl", res, <<>>) \o l.code \o Branch(c, l.v, Label(c, 3), Label(c, 4))
             \o Sides(e, c, res, r.code \o Again(e, c, res), r.v),
             Var(res))

Strict(e, l, r, c) ==
    Made(l.code \o r.code \o Branch(c, l.v, Label(c, 3), Label(c, 4))
         \o Sides(e, c, Tmp(c), <<>>, r.v),
         Var(Tmp(c)))

Operand(e, c) ==
    LET l == Expr(e.args[1], At(c, 1))
        r == Expr(e.args[2], At(c, 2))
    IN  IF e.e \notin {"or", "and"} THEN Arithmetic(e, l, r, c)
        ELSE IF e.lazy THEN Lazy(e, l, r, c)
        ELSE Strict(e, l, r, c)

(* x += e leaves x.                                                        *)
Update(x, e, c) ==
    LET upd == Expr(e, At(c, 1))
    IN  upd.code \o Set(c, "iadd", Tmp(c), <<Var(Stack(c, x)), upd.v>>)
        \o Set(c, "store", Stack(c, x), <<Var(Tmp(c))>>)

(* The arguments, each marked as used once it is made.                     *)
Exprs(es, c) ==
    LET made == [i \in DOMAIN es |-> Expr(es[i], At(c, i))]
    IN  Made(Joined([i \in DOMAIN es |-> made[i].code \o Uses(c, <<made[i].v>>)]),
             [i \in DOMAIN es |-> made[i].v])

(* The arguments a call leaves out are the defaults of the function.       *)
Complete(p, e) ==
    LET defaults == p.defs[e.f].defaults
    IN  IF e.e = "via" THEN e.args ELSE e.args \o SubSeq(defaults, Len(e.args) + 1, Len(defaults))

(* A call by name, or through the variable e.x.                            *)
Call(e, c, ret) ==
    LET args == Exprs(Complete(c.prog, e), c)
        callee == IF e.e = "via" THEN <<Var(Stack(c, e.x))>> ELSE <<>>
        op == IF e.e = "via" THEN "ufcll" ELSE IF c.prog.defs[e.f].external THEN "ecll" ELSE "fcll"
    IN  Made(args.code \o Name(c, op, IF ret THEN Tmp(c) ELSE Nowhere, callee \o args.v,
                               IF e.e = "via" THEN 0 ELSE e.f),
             Var(Tmp(c)))

(* A system call that reads gives a value, one that writes none.           *)
Syscall(es, c, ret) ==
    LET args == Exprs(es, c)
    IN  Made(args.code \o Set(c, "sysc", IF ret THEN Tmp(c) ELSE Nowhere, args.v), Var(Tmp(c)))

(* The code of a function inside another is jumped over where it stands.   *)
Inside(f, c) == Jump(c, Label(c, 9)) \o Function(f, c) \o Mark(c, Label(c, 9))

Lambda(f, c) == Made(Inside(f, c) \o Name(c, "ref", Tmp(c), <<>>, f), Var(Tmp(c)))

Expr(e, c) ==
    IF e.e \in {"const", "var", "fn"} THEN Load(e, c)
    ELSE IF e.e \in {"call", "via"} THEN Call(e, c, TRUE)
    ELSE IF e.e = "read" THEN Syscall(<<>>, c, TRUE)
    ELSE IF e.e = "lambda" THEN Lambda(e.f, c)
    ELSE IF e.e = "update" THEN Made(Update(e.x, e.args[1], c), Var(Stack(c, e.x)))
    ELSE Operand(e, c)
-----------------------------------------------------------------------------
Assign(x, e, c) ==
    LET src == Expr(e, At(c, 1)) IN src.code \o Set(c, "store", Stack(c, x), <<src.v>>)

Declare(x, e, c) == Set(c, "vardecl", Stack(c, x), <<>>) \o Assign(x, e, c)

(* An expression whose value nobody takes.                                 *)
Drop(e, c) == LET v == Expr(e, c) IN v.code \o On(c, "vruse", <<v.v>>)

(* HIR_generate_position: a new line is marked.  The mark of the first     *)
(* statement of a scope stands before the scope, that of a branch in it.   *)
Position(c) == Op(c, "setpos")
Scope(body, c) == Position(c) \o Op(c, "mkscope") \o Block(body, c) \o Op(c, "endscope")
Branched(body, c) == Op(c, "mkscope") \o Position(c) \o Block(body, c) \o Op(c, "endscope")

(* @[hot] moves the other branch away, @[cold] the first one.              *)
If(s, c) ==
    LET cond == Expr(s.e, At(c, 1))
        end == Label(c, 3)
        branch(l, body, i, cold) ==
            LET d == [c EXCEPT !.cold = cold]
            IN  Mark(d, l) \o Branched(body, At(d, i)) \o Jump(d, end)
    IN  cond.code \o Branch(c, cond.v, Label(c, 1), IF s.else = <<>> THEN end ELSE Label(c, 2))
        \o branch(Label(c, 1), s.body, 4, s.mark = "cold")
        \o (IF s.else = <<>> THEN <<>> ELSE branch(Label(c, 2), s.else, 5, s.mark = "hot"))
        \o Mark(c, end)

While(s, c) ==
    LET cond == Expr(s.e, At(c, 1))
    IN  Mark(c, Label(c, 1)) \o cond.code \o Branch(c, cond.v, Label(c, 2), Label(c, 3))
        \o Mark(c, Label(c, 2)) \o Branched(s.body, [At(c, 4) EXCEPT !.brk = Label(c, 3)])
        \o Jump(c, Label(c, 1)) \o Mark(c, Label(c, 3))

(* The hidden counter of @[counter(n, step)] is set before the loop and    *)
(* stepped down at its end; a loop without one goes round for ever.        *)
Counter(c) == Stack(c, c.path)
CounterData(s, c) ==
    IF s.n = 0 THEN <<>>
    ELSE Set(c, "vardecl", Counter(c), <<>>) \o Set(c, "store", Counter(c), <<Const(s.n)>>)

Round(s, c) ==
    IF s.n = 0 THEN Jump(c, Label(c, 1))
    ELSE Set(c, "isub", Tmp(c), <<Var(Counter(c)), Const(s.step)>>)
         \o Set(c, "store", Counter(c), <<Var(Tmp(c))>>)
         \o Branch(c, Var(Counter(c)), Label(c, 1), Label(c, 3))

Loop(s, c) ==
    CounterData(s, c) \o Mark(c, Label(c, 1)) \o Jump(c, Label(c, 2))
    \o Mark(c, Label(c, 2)) \o Branched(s.body, [At(c, 4) EXCEPT !.brk = Label(c, 3)])
    \o Round(s, c) \o Mark(c, Label(c, 3))

(* The bodies of the cases come first, then what chooses among them.       *)
Dispatch(type, cs, cond, def, c) ==
    LET sorted == Sorted(cs)
        kind == IF type = "auto" THEN Best(cs) ELSE type
    IN  IF kind = "straight" THEN Straight(sorted, cond, def, c)
        ELSE IF kind = "table" THEN Tabled(sorted, cond, def, c)
        ELSE Binary(sorted, cond, 1, Len(sorted), def, c)

Switch(s, c) ==
    LET clb(i) == Label(c, 10 + i)
        end == Label(c, 2)
        defaults == {i \in DOMAIN s.cases : s.cases[i].default}
        def == IF defaults = {} THEN end ELSE clb(CHOOSE i \in defaults : TRUE)
        named == SelectSeq([i \in DOMAIN s.cases |-> i], LAMBDA i : i \notin defaults)
        body(i) ==
            LET d == [At(c, 10 + i) EXCEPT !.brk = end, !.cold = @ \/ s.cases[i].cold]
            IN  Mark(d, clb(i)) \o Scope(s.cases[i].body, d)
                \o (IF s.nofall /\ ~s.cases[i].fall THEN Jump(d, end) ELSE <<>>)
        cond == Expr(s.e, At(c, 3))
    IN  Jump(c, Label(c, 1)) \o Joined([i \in DOMAIN s.cases |-> body(i)])
        \o Jump(c, end) \o Mark(c, Label(c, 1)) \o cond.code
        \o Dispatch(s.type, [i \in DOMAIN named |-> [v |-> s.cases[named[i]].v, l |-> clb(named[i])]],
                    cond.v, def, At(c, 4))
        \o Mark(c, end)

Break(c) == Op(c, "break") \o Jump(c, c.brk)

Return(e, c) == LET v == Expr(e, At(c, 1)) IN v.code \o On(c, "fret", <<v.v>>)

Exit(e, c) == LET v == Expr(e, At(c, 1)) IN v.code \o On(c, "exitop", <<v.v>>)

Defer(call, c) == Op(c, "defer_start") \o Call(call, At(c, 1), FALSE).code \o Op(c, "defer_end")

Stmt(s, c) ==
    CASE s.s = "if" -> If(s, c)
      [] s.s = "while" -> While(s, c)
      [] s.s = "loop" -> Loop(s, c)
      [] s.s = "switch" -> Switch(s, c)
      [] s.s = "break" -> Break(c)
      [] s.s = "return" -> Return(s.e, c)
      [] s.s = "exit" -> Exit(s.e, c)
      [] s.s = "defer" -> Defer(s.e, c)
      [] s.s = "call" -> Call(s.e, c, FALSE).code
      [] s.s = "write" -> Syscall(s.args, c, FALSE).code
      [] s.s = "set" -> Assign(s.x, s.e, c)
      [] s.s = "declare" -> Declare(s.x, s.e, c)
      [] s.s = "update" -> Update(s.x, s.e, c)
      [] s.s = "function" -> Inside(s.f, c)
      [] s.s = "drop" -> Drop(s.e, c)

(* Every statement stands on a line of its own.                            *)
Block(ss, c) ==
    Joined([i \in DOMAIN ss |->
        (IF i = 1 THEN <<>> ELSE Position(c))
        \o (IF ss[i].s = "scope" THEN Scope(ss[i].body, At(c, i)) ELSE Stmt(ss[i], At(c, i)))])
-----------------------------------------------------------------------------
(* The parameters take the arguments by position.                          *)
ArgumentLoad(f, c) ==
    LET params == c.prog.defs[f].params
    IN  Joined([i \in DOMAIN params |->
            Set(c, "vardecl", Stack(c, params[i]), <<>>)
            \o Set(c, "fargld", Stack(c, params[i]), <<Const(i)>>)])

(* HIR_dump_cold: the cold instructions follow the others, behind an       *)
(* instruction that keeps the function from running into them.             *)
Dumped(code, stop) ==
    LET cold == SelectSeq(code, LAMBDA i : i.cold)
        hot == SelectSeq(code, LAMBDA i : ~i.cold)
    IN  IF cold = <<>> THEN code
        ELSE hot \o stop \o [i \in DOMAIN cold |-> [cold[i] EXCEPT !.cold = FALSE]]

(* A function: its frame opens a scope for the parameters, its body        *)
(* another one.                                                            *)
Body(f, c, open, close, stop) ==
    LET d == [c EXCEPT !.fn = f, !.path = <<>>]
    IN  Name(d, open, Nowhere, <<>>, f) \o Op(d, "mkscope") \o ArgumentLoad(f, d)
        \o Dumped(Scope(d.prog.defs[f].body, d), On(d, stop, <<Const(0)>>))
        \o Op(d, "endscope") \o Name(d, close, Nowhere, <<>>, f)

Function(f, c) == Body(f, c, "fdcl", "fend", "fret")
Start(f, c) == Body(f, c, "strt", "stend", "exitop")

(* HIR_generate: the outer functions one after another.                    *)
Generated(p) ==
    Joined([i \in DOMAIN p.top |->
        LET f == p.top[i] IN IF p.defs[f].start THEN Start(f, Place(p, f)) ELSE Function(f, Place(p, f))])
=============================================================================
