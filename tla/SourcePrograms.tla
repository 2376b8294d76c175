---------------------------- MODULE SourcePrograms ----------------------------
(* The programs WholeProgram is checked with, each with the inputs it is   *)
(* run on, and what each means: the events it shows to the outside when it *)
(* reads the numbers of an input one after another, read off its syntax    *)
(* tree.  A family aims at one part of the generator or of the passes.  A  *)
(* run ends when the input is used up.                                     *)
EXTENDS Integers, Sequences, FiniteSets, SequencesExt

C(v) == [e |-> "const", v |-> v]
V(k) == [e |-> "var", x |-> <<0, k>>]
Read == [e |-> "read"]
Op2(op, a, b) == [e |-> op, args |-> <<a, b>>]
LogicOf(op, lazy, a, b) == [e |-> op, lazy |-> lazy, args |-> <<a, b>>]
Call(f, args) == [e |-> "call", f |-> f, args |-> args]
Via(k, args) == [e |-> "via", x |-> <<0, k>>, args |-> args]
Fn(f) == [e |-> "fn", f |-> f]
Lambda(f) == [e |-> "lambda", f |-> f]
Stepped(k, e) == [e |-> "update", x |-> <<0, k>>, args |-> <<e>>]

Write(args) == [s |-> "write", args |-> args]
W(v) == Write(<<C(v)>>)
Set(k, e) == [s |-> "set", x |-> <<0, k>>, e |-> e]
Declare(k, e) == [s |-> "declare", x |-> <<0, k>>, e |-> e]
Update(k, e) == [s |-> "update", x |-> <<0, k>>, e |-> e]
Marked(mark, e, b, else) == [s |-> "if", e |-> e, body |-> b, else |-> else, mark |-> mark]
If(e, b, else) == Marked("", e, b, else)
While(e, b) == [s |-> "while", e |-> e, body |-> b]
Counted(n, step, b) == [s |-> "loop", n |-> n, step |-> step, body |-> b]
Break == [s |-> "break"]
Loop(b) == Counted(0, 1, b \o <<If(Read, <<Break>>, <<>>)>>)
Return(e) == [s |-> "return", e |-> e]
Exit(e) == [s |-> "exit", e |-> e]
Defer(e) == [s |-> "defer", e |-> e]
Act(e) == [s |-> "call", e |-> e]
Drop(e) == [s |-> "drop", e |-> e]
Scope(b) == [s |-> "scope", body |-> b]
Local(f) == [s |-> "function", f |-> f]

Case(v, b, fall) == [v |-> v, body |-> b, default |-> FALSE, fall |-> fall, cold |-> FALSE]
Otherwise(b, fall) == [Case(0, b, fall) EXCEPT !.default = TRUE]
Switch(type, nofall, e, cases) ==
    [s |-> "switch", type |-> type, nofall |-> nofall, e |-> e, cases |-> cases]

Def(params, body) ==
    [params |-> params, defaults |-> <<>>, body |-> body, start |-> FALSE, global |-> FALSE,
     external |-> FALSE, inline |-> "auto", test |-> FALSE]
Params(n) == [i \in 1 .. n |-> <<0, i>>]
Main(body) == [Def(<<>>, Append(body, Exit(C(0)))) EXCEPT !.start = TRUE]

(* The last function is the one the program starts with.                   *)
Program(defs, inputs) ==
    [defs |-> defs, top |-> [i \in DOMAIN defs |-> i], sup |-> FALSE, test |-> FALSE, table |-> {},
     inputs |-> inputs]

Bits(n) == [1 .. n -> {0, 1}]
Body(b) == Program(<<Main(<<Declare(1, C(5))>> \o b \o <<Write(<<V(1)>>)>>)>>, Bits(5))
-----------------------------------------------------------------------------
(* Statements that steer control, one inside another, with a break in the  *)
(* innermost one that can be left.                                         *)
Around(b) ==
    {If(Read, b, <<>>), If(Read, b, <<W(3)>>), If(Read, <<W(4)>>, b), Scope(b)}
Breakable(b) ==
    {While(Read, b), Loop(b), Counted(2, 1, b), Counted(4, 2, b),
     Switch("auto", FALSE, Read, <<Case(0, b, FALSE), Otherwise(<<W(5)>>, FALSE)>>),
     Switch("auto", TRUE, Read, <<Otherwise(<<W(6)>>, FALSE), Case(1, b, FALSE)>>)}

Inmost == {<<Update(1, C(1)), Write(<<V(1)>>)>>}
Leaving == {<<If(Read, <<W(7), Break>>, <<>>), W(8)>>, <<W(9), Break>>}
Shapes(bs) == UNION {Around(b) \union Breakable(b) : b \in bs}
ControlPrograms ==
    {Body(<<o>>) : o \in Shapes({<<i, W(1)>> : i \in Shapes(Inmost) \union UNION {Breakable(b) : b \in Leaving}})}
    \union {Body(<<o>>) : o \in UNION {Breakable(<<i, W(1)>>) : i \in UNION {Around(b) : b \in Leaving}}}

Sides == {C(0), C(2), Read}
Logics(as, bs) == {LogicOf(op, lazy, a, b) : op \in {"or", "and"}, lazy \in BOOLEAN, a \in as, b \in bs}
LogicPrograms ==
    {Body(<<Set(1, e)>>) : e \in Logics(Sides, Sides \union {Stepped(1, C(1))})
                               \union Logics(Logics({Read}, {Read}), {Read})}
    \union {Body(<<w>>) : w \in UNION {{While(e, <<W(2)>>), If(e, <<W(2)>>, <<W(3)>>)} :
                                        e \in Logics({Read}, {Read, C(2)})}}
-----------------------------------------------------------------------------
(* Every way a switch chooses, with its default in every place.            *)
Values == {<<3>>, <<2, 0>>, <<5, 1, 3>>, <<1, 2, 3, 4, 6>>, <<9, 0, 36, 18, 27>>,
           <<40, 4, 8, 12, 0, 20, 16, 32, 28, 36, 24>>}
Near(vs) == UNION {{vs[i] - 1, vs[i], vs[i] + 1} : i \in DOMAIN vs}
CaseBody(i) == IF i % 3 = 0 THEN <<W(i), If(Read, <<Break>>, <<>>)>> ELSE <<W(i)>>
CasesOf(vs) == [i \in DOMAIN vs |-> Case(vs[i], CaseBody(i), i % 2 = 1)]
Defaults(vs) ==
    {CasesOf(vs)} \union {SubSeq(CasesOf(vs), 1, k) \o <<Otherwise(<<W(50)>>, TRUE)>> \o SubSeq(CasesOf(vs), k + 1, Len(vs)) :
                            k \in {0, 1, Len(vs)}}
SwitchPrograms ==
    UNION {{Program(<<Main(<<Declare(1, Read), Switch(type, nofall, V(1), cs), W(60)>>)>>,
                    {<<v, 0, b>> : v \in Near(vs), b \in {1}} \union {<<v, 1, 1>> : v \in Near(vs)}) :
                type \in {"auto", "straight", "table", "binary"}, nofall \in BOOLEAN, cs \in Defaults(vs)} :
           vs \in Values}
-----------------------------------------------------------------------------
(* Deferred calls.  Function 1 shows its argument; the ends of function 2  *)
(* come before and behind what it defers.                                  *)
Show == Def(Params(1), <<Write(<<C(90), V(1)>>)>>)
Early == {<<>>, <<If(Read, <<Return(C(3))>>, <<>>)>>, <<If(Read, <<Exit(C(4))>>, <<W(5)>>)>>,
          <<If(Read, <<Return(C(3))>>, <<Return(V(1))>>)>>}
Middle == {<<Update(1, C(1))>>, <<While(Read, <<W(6)>>)>>, <<Scope(<<Defer(Call(1, <<C(7)>>)), W(8)>>)>>,
           <<Counted(2, 1, <<W(6)>>)>>, <<Set(1, LogicOf("or", TRUE, Read, C(2)))>>,
           <<Switch("auto", FALSE, Read, <<Case(0, <<W(6)>>, FALSE), Otherwise(<<W(7)>>, FALSE)>>)>>}
Ends == {<<Return(V(1))>>, <<Drop(V(1))>>, <<Return(Call(1, <<C(2)>>))>>, <<Exit(V(1))>>}
Deferring ==
    {<<Defer(Call(1, <<V(1)>>))>> \o m \o b \o <<Return(V(1))>> : m \in Middle, b \in Early}
    \union {a \o <<Defer(Call(1, <<V(1)>>)), Update(1, C(1))>> \o b \o e : a \in Early, b \in Early, e \in Ends}
    \union {<<Defer(Call(1, <<V(1)>>)), Defer(Call(1, <<C(1)>>))>> \o b \o e : b \in Early, e \in Ends}
DeferPrograms ==
    {Program(<<Show, Def(Params(1), b),
               Main(<<Declare(1, Read), Defer(Call(1, <<C(70)>>)),
                      IF how = "value" THEN Set(1, Call(2, <<V(1)>>)) ELSE Act(Call(2, <<V(1)>>)),
                      W(60)>>)>>, {<<0>> \o i : i \in Bits(3)}) :
        b \in Deferring, how \in {"value"}}

(* A block nothing leads to follows a break: what is deferred before it is *)
(* no longer seen to dominate what comes after.                            *)
BreakPrograms ==
    {Program(<<Show, Main(<<Declare(1, Read), Defer(Call(1, <<C(70)>>)), w, W(60)>>)>>, Bits(5)) :
        w \in Breakable(<<If(Read, <<Break>>, <<>>), W(8)>>)}
-----------------------------------------------------------------------------
(* Bodies that may replace calls: they leave early, go round, call others  *)
(* and themselves.                                                         *)
Leaf == {<<Return(Op2("iadd", V(1), V(2)))>>,
         <<If(V(1), <<Return(V(2))>>, <<>>), W(1), Drop(V(1))>>,
         <<While(Read, <<Update(1, V(2))>>), Return(V(1))>>,
         <<Switch("table", TRUE, V(1), <<Case(0, <<Return(C(8))>>, FALSE), Case(2, <<W(2)>>, FALSE)>>),
           Return(LogicOf("and", TRUE, V(2), Read))>>,
         <<If(Read, <<Scope(<<Declare(3, V(2)), Return(V(3))>>)>>, <<Exit(V(1))>>), Return(C(0))>>}
Calling == {<<Return(Call(1, <<V(1), C(2)>>))>>,
            <<Declare(3, Call(1, <<V(1), C(2)>>)), Act(Call(1, <<V(3), V(1)>>)), Drop(V(3))>>,
            <<While(Read, <<Update(1, Call(1, <<C(0), V(1)>>))>>), Return(V(1))>>,
            <<If(Read, <<Return(Call(2, <<Call(1, <<V(1), C(1)>>)>>))>>, <<>>), Return(V(1))>>,
            <<Defer(Call(1, <<C(1), V(1)>>)), If(Read, <<Return(C(2))>>, <<>>), Return(V(1))>>}
Callers == {<<Set(1, Op2("iadd", Call(2, <<V(1)>>), Call(2, <<C(0)>>)))>>,
            <<Set(1, Call(1, <<Call(2, <<V(1)>>), Call(1, <<C(0), V(1)>>)>>))>>,
            <<While(Read, <<Act(Call(2, <<V(1)>>))>>)>>,
            <<If(LogicOf("or", TRUE, Call(2, <<C(0)>>), Read), <<W(30)>>, <<W(31)>>)>>}
InlinePrograms ==
    {Program(<<Def(Params(2), a), [Def(Params(1), b) EXCEPT !.inline = how],
               Main(<<Declare(1, Read)>> \o m \o <<Write(<<V(1)>>)>>)>>,
             {<<n>> \o i : n \in {2}, i \in {<<0, 1, 0, 1>>, <<1, 0, 0, 1>>, <<1, 1, 0, 0>>, <<0, 0, 1, 1>>}}) :
        a \in Leaf, b \in Calling, m \in Callers, how \in {"always", "auto"}}
-----------------------------------------------------------------------------
(* Functions reached by name, by address, from a table and from outside,   *)
(* inside functions and as tests; arguments left out.                      *)
One(n) == Def(Params(1), <<Write(<<C(n), V(1)>>), Return(Op2("iadd", V(1), C(n)))>>)
Outside == [Def(Params(1), <<>>) EXCEPT !.external = TRUE, !.inline = "never"]
Optional == [Def(Params(2), <<Return(Op2("isub", V(1), V(2)))>>) EXCEPT !.defaults = <<C(3), C(4)>>]
ReachPrograms ==
    LET main(b) == Main(<<Declare(1, Read)>> \o b \o <<Write(<<V(1)>>)>>)
        program(defs, top) == [Program(defs, Bits(2)) EXCEPT !.top = top]
        outer == Def(Params(1), <<Local(1), If(Read, <<Return(Call(1, <<V(1)>>))>>, <<>>), Return(V(1))>>)
        maker == Def(<<>>, <<Declare(1, Lambda(1)), Act(Via(1, <<C(3)>>)), Return(V(1))>>)
        fns == <<One(10), One(20), Optional, Outside>>
    IN  {program(<<One(10), outer, main(<<Set(1, Call(2, <<V(1)>>))>>)>>, <<2, 3>>),
         program(<<One(10), [outer EXCEPT !.inline = "never"], main(<<Set(1, Call(2, <<V(1)>>))>>)>>, <<2, 3>>),
         program(<<One(10), maker, main(<<Declare(2, Call(2, <<>>)), Set(1, Via(2, <<V(1)>>))>>)>>, <<2, 3>>),
         program(<<One(10), main(<<Declare(2, Lambda(1)), Set(1, Via(2, <<V(1)>>))>>)>>, <<2>>)}
        \union {program(Append(fns, main(b)), <<1, 2, 3, 5>>) :
                   b \in {<<Declare(2, Fn(1)), Set(1, Via(2, <<V(1)>>))>>,
                          <<Declare(2, Fn(1)), If(V(1), <<Set(2, Fn(2))>>, <<>>), Act(Via(2, <<C(1)>>))>>,
                          <<Set(1, Call(3, <<V(1)>>)), Set(1, Call(3, <<>>)), Set(1, Call(3, <<V(1), C(1)>>))>>,
                          <<Set(1, Call(4, <<V(1)>>)), Act(Call(4, <<Call(2, <<C(2)>>)>>))>>}}
        \union {[program(Append(fns, main(<<Drop(V(1))>>)), <<1, 2, 3, 5>>) EXCEPT !.table = {2},
                    !.defs[1].global = TRUE]}
        \union {[program(<<One(10), [Def(<<>>, <<Act(Call(1, <<C(1)>>))>>) EXCEPT !.test = TRUE],
                          [Def(<<>>, <<Defer(Call(1, <<C(2)>>)), If(Read, <<Return(C(0))>>, <<>>), W(2)>>)
                              EXCEPT !.test = TRUE]>> \o m,
                         [i \in 1 .. 3 + Len(m) |-> i]) EXCEPT !.test = t] :
                   m \in {<<main(<<Act(Call(1, <<C(3)>>))>>)>>}, t \in BOOLEAN}
        \union {[program(<<One(10), [Def(<<>>, <<Act(Call(1, <<C(1)>>))>>) EXCEPT !.test = TRUE]>>, <<1, 2>>)
                    EXCEPT !.test = TRUE]}
-----------------------------------------------------------------------------
(* Cold sections, in the function the program starts with.                 *)
Inner == {<<W(1)>>, <<If(Read, <<W(1)>>, <<W(2)>>)>>, <<While(Read, <<W(1)>>)>>, <<Exit(C(9))>>}
Moved(b) == {Marked(mark, Read, b, else) : mark \in {"hot", "cold"}, else \in {<<>>, <<W(3)>>, <<While(Read, <<W(4)>>)>>}}
            \union {Switch("auto", TRUE, Read, <<[Case(1, b, FALSE) EXCEPT !.cold = TRUE], Otherwise(<<W(5)>>, FALSE)>>)}
ColdStatements == UNION {Moved(b) : b \in Inner}
ColdPrograms ==
    {[Body(<<w>>) EXCEPT !.sup = TRUE] :
        w \in ColdStatements \union {While(Read, <<s, W(8)>>) : s \in ColdStatements}
              \union UNION {Moved(<<s, W(8)>>) : s \in UNION {Moved(b) : b \in {<<W(1)>>}}}}
-----------------------------------------------------------------------------
(* Two functions that call each other, with a variable of their own.       *)
MutualPrograms ==
    {Program(<<[Def(Params(1), <<If(Read, <<Return(Op2("iadd", Call(2, <<Op2("iadd", V(1), C(1))>>), V(1)))>>, <<>>),
                                 Return(V(1))>>) EXCEPT !.inline = "always"],
               [Def(Params(1), <<If(Read, <<Return(Op2("iadd", Call(1, <<Op2("iadd", V(1), C(2))>>), V(1)))>>, <<>>),
                                 Return(V(1))>>) EXCEPT !.inline = "always"],
               Main(<<Declare(1, Call(2, <<C(1)>>)), Write(<<V(1)>>)>>)>>, Bits(4))}
-----------------------------------------------------------------------------
(* The meaning.  A state is [p |-> the program, env |-> the variables,     *)
(* in |-> the input left, log |-> the events, defers |-> the calls put     *)
(* off, st |-> how the last step ended, val |-> the value it left].        *)

Event(what, f, args) == [what |-> what, f |-> f, args |-> args]

(* A function as a value, and what a function of the outside returns.      *)
Address(f) == 1000 + f
External(args) == 7 + Len(args)

Truth(b) == IF b THEN 1 ELSE 0
Computed(op, a, b) ==
    CASE op = "iadd" -> a + b
      [] op = "isub" -> a - b
      [] op = "icmp" -> Truth(a = b)
      [] op = "ilwr" -> Truth(a < b)
      [] op = "ilrg" -> Truth(a > b)

Left(s, v) == [s EXCEPT !.val = v]
Shown(s, what, f, args) == [s EXCEPT !.log = Append(@, Event(what, f, args))]

RECURSIVE Eval(_, _), Evals(_, _, _, _), Do(_, _), DoAll(_, _, _), Cases(_, _, _), Times(_, _, _),
          Whiles(_, _), Invoke(_, _, _), Deferred(_)

(* The values of es from the i-th on, after those in vs.                   *)
Evals(es, i, vs, s) ==
    IF s.st # "on" \/ i > Len(es) THEN [s |-> s, vs |-> vs]
    ELSE LET t == Eval(es[i], s) IN Evals(es, i + 1, Append(vs, t.val), t)

Given(s, e) ==
    LET d == s.p.defs[e.f].defaults
    IN  IF e.e = "via" THEN e.args ELSE e.args \o SubSeq(d, Len(e.args) + 1, Len(d))

(* Lazy logic leaves its second operand alone when the first one decides.  *)
Logic(e, l) ==
    LET decided == (l.val # 0) = (e.e = "or")
        r == IF decided /\ e.lazy THEN l ELSE Eval(e.args[2], l)
    IN  IF decided THEN Left(r, Truth(e.e = "or")) ELSE r

Changed(s, x, v) == [s EXCEPT !.env = (x :> v) @@ @, !.val = v]

Eval(e, s) ==
    IF s.st # "on" THEN s
    ELSE CASE e.e = "const" -> Left(s, e.v)
           [] e.e = "var" -> Left(s, s.env[e.x])
           [] e.e \in {"fn", "lambda"} -> Left(s, Address(e.f))
           [] e.e = "read" -> IF s.in = <<>> THEN [s EXCEPT !.st = "stop"]
                              ELSE [s EXCEPT !.val = Head(s.in), !.in = Tail(s.in)]
           [] e.e \in {"call", "via"} ->
                LET a == Evals(Given(s, e), 1, <<>>, s)
                IN  IF a.s.st # "on" THEN a.s
                    ELSE Invoke(IF e.e = "call" THEN e.f ELSE s.env[e.x] - 1000, a.vs, a.s)
           [] e.e \in {"or", "and"} ->
                LET l == Eval(e.args[1], s) IN IF l.st # "on" THEN l ELSE Logic(e, l)
           [] e.e = "update" ->
                LET r == Eval(e.args[1], s) IN IF r.st # "on" THEN r ELSE Changed(r, e.x, r.env[e.x] + r.val)
           [] OTHER ->
                LET a == Evals(e.args, 1, <<>>, s)
                IN  IF a.s.st # "on" THEN a.s ELSE Left(a.s, Computed(e.e, a.vs[1], a.vs[2]))

(* The calls put off are made at the exit of their function, the last one  *)
(* first, and see the variables as they are there.                         *)
Deferred(s) ==
    IF s.defers = <<>> THEN s
    ELSE LET t == Eval(s.defers[Len(s.defers)], s)
         IN  IF t.st # "on" THEN t ELSE Deferred([t EXCEPT !.defers = Front(s.defers)])

(* A function that ends without a return leaves its last expression.       *)
Invoke(f, args, s) ==
    LET def == s.p.defs[f]
        names == {def.params[i] : i \in DOMAIN def.params}
        env == [x \in names |-> args[CHOOSE i \in DOMAIN def.params : def.params[i] = x]]
        body == DoAll(def.body, 1, [s EXCEPT !.env = env, !.defers = <<>>])
        end == Deferred([body EXCEPT !.st = "on"])
        back(t, st) == [s EXCEPT !.log = t.log, !.in = t.in, !.val = body.val, !.st = st]
    IN  IF def.external THEN Left(Shown(s, "external", f, args), External(args))
        ELSE IF body.st = "stop" THEN back(body, "stop")
        ELSE IF end.st = "stop" THEN back(end, "stop")
        ELSE IF body.st = "exit" THEN back(Shown(end, "exit", 0, <<body.val>>), "stop")
        ELSE back(end, "on")

DoAll(ss, i, s) ==
    IF i > Len(ss) \/ s.st # "on" THEN s ELSE DoAll(ss, i + 1, Do(ss[i], s))

Broken(s) == IF s.st = "break" THEN [s EXCEPT !.st = "on"] ELSE s

Cases(w, i, s) ==
    LET t == DoAll(w.cases[i].body, 1, s)
    IN  IF i > Len(w.cases) THEN s
        ELSE IF t.st # "on" THEN Broken(t)
        ELSE IF w.nofall /\ ~w.cases[i].fall THEN t
        ELSE Cases(w, i + 1, t)

(* The case a switch enters; past the last one it does nothing.            *)
Chosen(w, v) ==
    LET named == {i \in DOMAIN w.cases : ~w.cases[i].default /\ w.cases[i].v = v}
        defaults == {i \in DOMAIN w.cases : w.cases[i].default}
    IN  IF named # {} THEN CHOOSE i \in named : TRUE
        ELSE IF defaults # {} THEN CHOOSE i \in defaults : TRUE
        ELSE Len(w.cases) + 1

(* The body n times, or for ever when n < 0.                               *)
Times(body, n, s) ==
    LET t == DoAll(body, 1, s)
    IN  IF n = 0 THEN s ELSE IF t.st # "on" THEN Broken(t) ELSE Times(body, n - 1, t)

Whiles(w, s) ==
    LET c == Eval(w.e, s)
        t == DoAll(w.body, 1, c)
    IN  IF c.st # "on" \/ c.val = 0 THEN c
        ELSE IF t.st # "on" THEN Broken(t)
        ELSE Whiles(w, t)

Do(w, s) ==
    CASE w.s = "if" ->
            LET c == Eval(w.e, s)
            IN  IF c.st # "on" THEN c ELSE DoAll(IF c.val # 0 THEN w.body ELSE w.else, 1, c)
      [] w.s = "while" -> Whiles(w, s)
      [] w.s = "loop" -> Times(w.body, IF w.n = 0 THEN -1 ELSE w.n \div w.step, s)
      [] w.s = "switch" ->
            LET c == Eval(w.e, s)
            IN  IF c.st # "on" \/ Chosen(w, c.val) > Len(w.cases) THEN c
                ELSE Cases(w, Chosen(w, c.val), c)
      [] w.s = "break" -> [s EXCEPT !.st = "break"]
      [] w.s \in {"return", "exit"} ->
            LET v == Eval(w.e, s) IN IF v.st # "on" THEN v ELSE [v EXCEPT !.st = w.s]
      [] w.s = "defer" -> [s EXCEPT !.defers = Append(@, w.e)]
      [] w.s = "write" ->
            LET a == Evals(w.args, 1, <<>>, s)
            IN  IF a.s.st # "on" THEN a.s ELSE Shown(a.s, "write", 0, a.vs)
      [] w.s \in {"set", "declare"} ->
            LET v == Eval(w.e, s) IN IF v.st # "on" THEN v ELSE Changed(v, w.x, v.val)
      [] w.s = "update" ->
            LET v == Eval(w.e, s) IN IF v.st # "on" THEN v ELSE Changed(v, w.x, v.env[w.x] + v.val)
      [] w.s \in {"call", "drop"} -> Eval(w.e, s)
      [] w.s = "scope" -> DoAll(w.body, 1, s)
      [] w.s = "function" -> s

Started(p, input) ==
    [p |-> p, env |-> <<>>, in |-> input, log |-> <<>>, defers |-> <<>>, st |-> "on", val |-> 0]

(* The events of the program.  A test build calls every test in the order  *)
(* of the text and leaves with status 0.                                   *)
Meaning(p, input) ==
    LET tests == SelectSeq(p.top, LAMBDA f : p.defs[f].test)
        calls == [i \in DOMAIN tests |-> [s |-> "call", e |-> [e |-> "call", f |-> tests[i], args |-> <<>>]]]
        all == DoAll(calls, 1, Started(p, input))
        main == CHOOSE f \in DOMAIN p.defs : p.defs[f].start
    IN  IF ~p.test THEN Invoke(main, <<>>, Started(p, input)).log
        ELSE IF all.st = "stop" THEN all.log
        ELSE Append(all.log, Event("exit", 0, <<0>>))
=============================================================================
