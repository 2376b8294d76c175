------------------------------ MODULE MCHirGraph ------------------------------
(* TLC instance of the passes over the HIR: the way of a whole program     *)
(* from its text to the inlined functions (WholeProgram), and of one       *)
(* function the construction and the merging of blocks (ControlFlowGraph), *)
(* the insertion and renaming of SSA (SsaConstruction), and what is done   *)
(* to its loops (LoopPasses).  An initial state chooses the pass and its   *)
(* input; the variables of the other passes stay at NoValue, those of      *)
(* SsaConstruction at an empty function.                                   *)
EXTENDS SsaCode, ControlFlowGraph, SsaConstruction

CONSTANTS
    Passes,         \* the passes to run: "whole", "build", "ssa", "rewrite"
    LoopFunctions,  \* the functions given to LoopPasses
    MaxInstructions, Fuel,  \* of LoopPasses
    Families        \* the families of SourcePrograms given to WholeProgram

NoValue == "no value"

VARIABLES
    pass,
    orig, shown, fn, homes, stage, todo, moved, chosen,  \* LoopPasses
    text, step, hot, order, instrs, used, next, copies   \* WholeProgram

graphVars == <<list, l, jmp, unused, body>>
rewriteVars == <<orig, shown, fn, homes, stage, todo, moved, chosen>>
wholeVars == <<text, step, hot, order, instrs, used, next, copies>>
BuildIdle ==
    list = NoValue /\ l = NoValue /\ jmp = NoValue /\ unused = NoValue /\ body = NoValue
SsaIdle ==
    /\ func = NoValue /\ succs = NoValue /\ domf = NoValue /\ ssaPhase = NoValue
    /\ defs = {} /\ phi = {} /\ visitors = NoValue /\ sarg = NoValue
    /\ code = [b \in Block |-> <<>>] /\ preamble = [b \in Block |-> <<>>]
    /\ vers = Base /\ lastId = Base /\ stack = <<>>
    /\ current = NoValue /\ env = <<>> /\ actual = NoValue /\ stale = FALSE
RewriteIdle ==
    /\ orig = NoValue /\ shown = NoValue /\ fn = NoValue /\ homes = NoValue
    /\ stage = NoValue /\ todo = NoValue /\ moved = NoValue /\ chosen = NoValue
WholeIdle ==
    /\ text = NoValue /\ step = NoValue /\ hot = NoValue /\ order = NoValue
    /\ instrs = NoValue /\ used = NoValue /\ next = NoValue /\ copies = NoValue
-----------------------------------------------------------------------------
(* Every function of N blocks, up to the order of the two labels of a      *)
(* conditional jump, on which no pass depends.  The label table of a       *)
(* switch names every label.                                               *)
Labels == 2 .. N
TermPrograms(n) ==
    [1 .. n -> [op : {"ret", "fall"}]
        \union [op : {"jmp"}, to : Labels]
        \union {[op |-> "table", to |-> Labels]}
        \union {t \in [op : {"if"}, true : Labels, false : Labels] : t.true =< t.false}]
BuildPrograms == IF "build" \in Passes THEN TermPrograms(N) ELSE {}

(* All blocks reachable, numbered in the order of a first mention.         *)
Numbered(g) == \A b \in DOMAIN g \ {1} :
    \E p \in 1 .. b - 1 : /\ b \in g[p]
                          /\ \A q \in 1 .. p - 1 : g[q] \subseteq 1 .. b

(* The functions in which the entry defines the variable.                  *)
Bodies == {<<"use">>, <<"use", "def">>, <<"def", "use">>}
Ends == [l : {NULL}, jmp : {NULL} \union 2 .. N]
        \union {e \in [l : 2 .. N, jmp : 2 .. N] : e.l # e.jmp}
Links(s) == [b \in DOMAIN s |-> {s[b].l, s[b].jmp} \ {NULL}]
Shapes(n) == {s \in [1 .. n -> Ends] : Numbered(Links(s))}
AllPrograms(n) ==
    {[l |-> [b \in 1 .. n |-> s[b].l], jmp |-> [b \in 1 .. n |-> s[b].jmp], code |-> c] :
        s \in Shapes(n), c \in {d \in [1 .. n -> Bodies] : d[1] = <<"def", "use">>}}
PlainPrograms == IF "ssa" \in Passes THEN {p \in AllPrograms(N) : Given(p)} ELSE {}

(* foo(n) { a = n + 1; if a > 10; { return a; } return foo(a); } after     *)
(* tail recursion elimination: the header defines a, its jmp arm goes      *)
(* back, its l arm returns a.                                              *)
TailRecursive ==
    {[l |-> <<0, 4, 0, 0>>, jmp |-> <<2, 3, 2, 0>>,
      code |-> <<<<"def">>, <<"def", "use">>, <<"use">>, <<"use">>>>]}
-----------------------------------------------------------------------------
(* Functions with loops as hirgen, tail recursion elimination, loop        *)
(* canonicalization and SSA renaming leave them: a `while`, a `loop` with  *)
(* a counter annotation and a tail recursive function, with one loop or    *)
(* two; and their parts.                                                   *)
i0 == <<"i", 0>>    i1 == <<"i", 1>>    i2 == <<"i", 2>>    i3 == <<"i", 3>>
s1 == <<"s", 1>>    s2 == <<"s", 2>>    s3 == <<"s", 3>>    s4 == <<"s", 4>>
j1 == <<"j", 1>>    j2 == <<"j", 2>>    j3 == <<"j", 3>>    p1 == <<"p", 1>>
T(n) == <<"t" \o ToString(n), 0>>

I(op, dst, args) == [op |-> op, dst |-> dst, args |-> args, list |-> <<>>]
Call(vs) == [op |-> "call", dst |-> NoVar, args |-> <<>>, list |-> vs]
Phi(v, vs) == [op |-> "phi", dst |-> v, args |-> <<>>, list |-> vs]
Pos == I("pos", NoVar, <<>>)    \* HIR_SETPOS, in front of every statement
Set(v, x) == I("store", v, <<x>>)
Copy(v, x) == I("preamble", v, <<x>>)
GoTo(b) == [test |-> NoVar, to |-> <<b>>]
If(t, a, b) == [test |-> t, to |-> <<a, b>>]
Return(x) == [test |-> x, to |-> <<>>]

Function(blocks, lines, exit) ==
    [blocks |-> blocks, exit |-> exit, succ |-> [b \in DOMAIN exit |-> exit[b].to],
     code |-> [b \in DOMAIN lines |-> [k \in DOMAIN lines[b] |->
                  [n |-> 100 * b + k] @@ lines[b][k]]]]
Loop(before, header, latch, blocks, exits, children) ==
    [preheader |-> before, header |-> header, latch |-> latch, blocks |-> blocks,
     exits |-> exits, children |-> children]
-----------------------------------------------------------------------------
(* One loop: 1 the entry, 2 the preheader, 3 the header, 4 the body, 5 the *)
(* rest.  The body sums up in s2, or leaves s alone.                       *)
Body(kind) ==
    CASE kind = "none" -> <<Pos>>
      [] kind = "empty" -> <<>>
      [] kind = "see" -> <<Pos, Call(<<i1>>)>>
      [] kind = "sum" -> <<Pos, I("add", T(1), <<s1, i1>>), Set(s2, T(1))>>
      [] kind = "invariant" -> <<Pos, I("mul", T(1), <<p1, Lit(3)>>), I("add", T(2), <<T(1), p1>>),
                                 I("add", T(3), <<s1, T(2)>>), Set(s2, T(3))>>
      [] kind = "constant" -> <<Pos, Call(<<s1>>), Pos, Set(s2, p1)>>
      [] kind = "load" -> <<Pos, I("load", T(1), <<p1>>), I("add", T(2), <<s1, T(1)>>),
                            Pos, Call(<<>>), Set(s2, T(2))>>
      [] kind = "global" -> <<Pos, I("store", Glb, <<Lit(1)>>), Pos, Call(<<>>), Pos,
                              I("store", Glb, <<Lit(2)>>)>>
      [] kind = "divide" -> <<Pos, I("div", T(1), <<Lit(3), p1>>),
                              I("add", T(2), <<s1, T(1)>>), Set(s2, T(2))>>
Sums(kind) == kind \in {"sum", "invariant", "constant", "load", "divide"}
If2(c, seq) == IF c THEN seq ELSE <<>>

Counting(c) ==
    LET sums == Sums(c.body)
        test == I(c.op, T(9), IF c.swap THEN <<c.bound, i1>> ELSE <<i1, c.bound>>)
        phis == <<Phi(i1, <<<<2, i0>>, <<4, i2>>>>)>>
                    \o If2(sums, <<Phi(s1, <<<<2, <<"s", 0>>>>, <<4, s2>>>>)>>)
        seen == CASE c.after = "i" -> <<Call(<<IF c.shape = "counted" THEN i2 ELSE i1>>)>>
                  [] c.after = "s" -> <<Call(<<IF c.shape = "counted" THEN s2 ELSE s1>>)>>
                  [] c.after = "test" -> <<Call(<<T(9)>>)>>
                  [] OTHER -> <<>>
    IN  Function(<<1, 2, 3, 4, 5>>,
            <<<<I("store", p1, <<<<"p", 0>>>>), Set(i0, c.init)>> \o If2(sums, <<Set(<<"s", 0>>, Lit(0))>>),
              <<Copy(i1, i0)>> \o If2(sums, <<Copy(s1, <<"s", 0>>)>>),
              phis \o If2(c.shape # "counted", <<test>>),
              Body(c.body) \o <<I(c.addop, T(8), IF c.first THEN <<c.step, i1>> ELSE <<i1, c.step>>),
                                Set(i2, T(8)), Copy(i1, i2)>>
                           \o If2(sums, <<Copy(s1, s2)>>),
              <<Pos>> \o seen>>,
            <<GoTo(2), GoTo(3),
              CASE c.shape = "while" -> If(T(9), 4, 5)
                [] c.shape = "recursive" -> If(T(9), 5, 4)
                [] c.shape = "counted" -> GoTo(4),
              IF c.shape = "counted" THEN If(i2, 3, 5) ELSE GoTo(3),
              Return(Lit(0))>>)
CountingLoop == Loop(2, 3, 4, {3, 4}, {5}, {})

Args(set) == {<<"p", 0>> :> v : v \in set}
Single(c) == [fn |-> Counting(c), loops |-> <<CountingLoop>>, args |-> Args(c.p)]
-----------------------------------------------------------------------------
(* Two loops, one in the other: i counts to 2, j up to twice i, or to p    *)
(* where the bound does not change.  What is computed where:               *)
(*   3 outer header, 4 outer body, 5 inner preheader, 6 inner header,      *)
(*   7 inner body, 8 behind the inner loop, 9 the rest.                    *)
Nested(c) ==
    LET bound == IF c.inner = "twice" THEN I("mul", T(1), <<i1, Lit(2)>>)
                 ELSE I("mul", T(1), <<p1, Lit(2)>>)
        work == CASE c.work = "outer" -> <<I("mul", T(2), <<i1, Lit(3)>>), I("add", T(3), <<T(2), p1>>)>>
                  [] c.work = "none" -> <<I("mul", T(2), <<p1, p1>>), I("add", T(3), <<T(2), Lit(1)>>)>>
                  [] c.work = "inner" -> <<I("add", T(2), <<j2, Lit(1)>>), I("add", T(3), <<T(2), p1>>)>>
    IN  Function(<<1, 2, 3, 4, 5, 6, 7, 8, 9>>,
            <<<<Set(p1, <<"p", 0>>), Set(i0, Lit(0)), Set(<<"s", 0>>, Lit(0))>>,
              <<Copy(i1, i0), Copy(s1, <<"s", 0>>)>>,
              <<Phi(i1, <<<<2, i0>>, <<8, i2>>>>), Phi(s1, <<<<2, <<"s", 0>>>>, <<8, s4>>>>),
                Phi(<<"j", 5>>, <<<<8, j2>>>>),
                I("lwr", T(9), <<i1, Lit(c.times)>>)>>,
              <<Pos, Set(j1, Lit(0))>>,
              <<Copy(j2, j1), Copy(s2, s1)>>,
              <<Phi(j2, <<<<5, j1>>, <<7, j3>>>>), Phi(s2, <<<<5, s1>>, <<7, s3>>>>),
                bound, I("lwr", T(10), <<j2, T(1)>>)>>,
              <<Pos>> \o work
                \o <<I("add", T(4), <<s2, T(3)>>), Set(s3, T(4)), Pos,
                     I("add", T(5), <<j2, Lit(1)>>), Set(j3, T(5)), Copy(j2, j3), Copy(s2, s3)>>,
              <<Pos, I("mul", T(6), <<p1, p1>>), I("add", T(7), <<s2, T(6)>>), Set(s4, T(7)),
                Pos, I("add", T(8), <<i1, Lit(1)>>), Set(i2, T(8)), Copy(<<"j", 5>>, j2), Copy(i1, i2), Copy(s1, s4)>>,
              <<Pos, Call(<<s1, i1>>)>>>>,
            <<GoTo(2), GoTo(3), If(T(9), 4, 9), GoTo(5), GoTo(6), If(T(10), 7, 8), GoTo(6),
              GoTo(3), Return(s1)>>)
Double(c) == [fn |-> Nested(c), args |-> Args(c.p),
              loops |-> <<Loop(5, 6, 7, {6, 7}, {8}, {}),
                          Loop(2, 3, 8, {3, 4, 6, 7, 8}, {9}, {6})>>]
-----------------------------------------------------------------------------
(* The loops of LoopPasses.  Counted: every comparison, from where it      *)
(* leaves at once to where the counter wraps round, with the counter shown *)
(* behind the loop.                                                        *)
Kind == [shape |-> "while", init |-> Lit(0), bound |-> Lit(2), step |-> Lit(1),
         addop |-> "add", first |-> FALSE, op |-> "lwr", swap |-> FALSE,
         body |-> "sum", after |-> "s", p |-> {0}]
Counted ==
    {[Kind EXCEPT !.init = x[1], !.bound = Lit(x[2]), !.step = Lit(x[3]), !.addop = x[4],
                  !.op = x[5], !.after = "i", !.p = {0, 3}] :
        x \in {Lit(Low), Lit(0), Lit(2), <<"p", 0>>} \X {Low, -1, 0, High} \X (1 .. 3)
              \X {"add", "sub"} \X Comparisons}
(* The condition and the step written either way round, the branch either  *)
(* way, what is computed used behind the loop or not.                      *)
Turned ==
    {[Kind EXCEPT !.shape = x[1][1], !.step = x[1][2], !.addop = x[2][1], !.first = x[2][2],
                  !.op = x[3], !.swap = x[4], !.body = x[5][1], !.after = x[5][2], !.p = {1, 2}] :
        x \in {<<"while", Lit(1)>>, <<"while", p1>>, <<"recursive", Lit(1)>>, <<"recursive", Lit(0)>>}
              \X {<<"add", TRUE>>, <<"add", FALSE>>, <<"sub", FALSE>>} \X Comparisons \X BOOLEAN
              \X {<<"see", "i">>, <<"none", "test">>, <<"none", "nothing">>,
                  <<"invariant", "s">>, <<"constant", "s">>}}
(* Loops tested at their end.                                              *)
PostTest ==
    {[Kind EXCEPT !.shape = "counted", !.addop = "sub", !.op = "cmp", !.init = Lit(x[1]),
                  !.step = Lit(x[2]), !.body = x[3], !.after = x[4]] :
        x \in (Low .. High) \X (-2 .. 3) \X {"empty", "see", "constant"} \X {"i", "nothing"}}
    \union {[Kind EXCEPT !.shape = "counted", !.addop = "sub", !.op = "cmp", !.init = Lit(n),
                         !.body = "constant"] : n \in Low .. High}
Nests == [inner : {"twice", "once"}, work : {"outer", "inner", "none"}, times : 0 .. 2, p : {{0, 1}}]
CountingLoops ==
    {Single(c) : c \in Counted \union Turned \union PostTest} \union {Double(c) : c \in Nests}

(* Loops with a load through a pointer, a store to a global, a division.   *)
EffectLoops == {Single([Kind EXCEPT !.body = k]) : k \in {"load", "global", "divide"}}
-----------------------------------------------------------------------------
(* The programs given to WholeProgram.                                     *)
Source == INSTANCE SourcePrograms
FamilyOf(name) ==
    CASE name = "control" -> Source!ControlPrograms
      [] name = "logic"   -> Source!LogicPrograms
      [] name = "switch"  -> Source!SwitchPrograms
      [] name = "defer"   -> Source!DeferPrograms
      [] name = "inline"  -> Source!InlinePrograms
      [] name = "reach"   -> Source!ReachPrograms
      [] name = "cold"    -> Source!ColdPrograms
      [] name = "break"   -> Source!BreakPrograms
      [] name = "mutual"  -> Source!MutualPrograms
TextPrograms == UNION {FamilyOf(name) : name \in Families}
-----------------------------------------------------------------------------
Whole == INSTANCE WholeProgram WITH Sources <- TextPrograms, source <- text,
             stage <- step, list <- hot, code <- instrs, todo <- next
Rewrite == INSTANCE LoopPasses WITH Programs <- LoopFunctions

NoGraph == prog = NoValue /\ succ = NoValue /\ pred = NoValue /\ phase = NoValue /\ at = NoValue
Init ==
    /\ pass \in Passes
    /\ \/ pass = "whole" /\ Whole!Init /\ NoGraph /\ BuildIdle /\ SsaIdle /\ RewriteIdle
       \/ pass = "build" /\ BuildInit /\ WholeIdle /\ SsaIdle /\ RewriteIdle
       \/ pass = "ssa" /\ SsaInit /\ NoGraph /\ WholeIdle /\ BuildIdle /\ RewriteIdle
       \/ pass = "rewrite" /\ Rewrite!Init /\ NoGraph /\ WholeIdle /\ BuildIdle /\ SsaIdle

sharedVars == <<prog, succ, pred, phase, at>>
Next ==
    \/ /\ pass = "whole" /\ Whole!Next
       /\ UNCHANGED <<pass, sharedVars, graphVars, ssaVars, rewriteVars>>
    \/ pass = "build" /\ BuildNext /\ UNCHANGED <<pass, wholeVars, ssaVars, rewriteVars>>
    \/ /\ pass = "ssa" /\ SsaNext
       /\ UNCHANGED <<pass, sharedVars, wholeVars, graphVars, rewriteVars>>
    \/ /\ pass = "rewrite" /\ Rewrite!Next
       /\ UNCHANGED <<pass, sharedVars, wholeVars, graphVars, ssaVars>>

Spec == Init /\ [][Next]_<<pass, sharedVars, wholeVars, graphVars, ssaVars, rewriteVars>>
-----------------------------------------------------------------------------
(* Building: FlowPreserved of ControlFlowGraph.  SSA: PhisExact and        *)
(* UsesSeeLastDefinition of SsaConstruction.                               *)

(* Rewriting: after every step of motion, elimination and unrolling a run  *)
(* of the function shows the outside what the program as written shows,    *)
(* along its jumps and along the links of its graph, and a variable is     *)
(* written in one place.                                                   *)
LoopsKeepBehaviour == pass = "rewrite" => Rewrite!StillSsa /\ Rewrite!KeepsBehaviour

(* Rewriting: a loop that is said to run without end does.                 *)
InfiniteNeverLeaves == pass = "rewrite" => Rewrite!InfiniteNeverLeaves

(* The whole program (hirgen, cg.c, defer.c, inline.c, test.c): the        *)
(* instructions, run one after another, show to the outside what the       *)
(* program means, on every input: after the generator and the passes on    *)
(* whole functions, and after every call that is replaced by a body.       *)
RunsLikeTheSource ==
    (pass = "whole" /\ step \in {"inline", "done"}) =>
        \A i \in text.inputs : Whole!Behaviour(i) = Source!Meaning(text, i)
=============================================================================
