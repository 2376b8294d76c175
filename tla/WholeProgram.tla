----------------------------- MODULE WholeProgram -----------------------------
(* What the builder does to a whole program before it looks at single      *)
(* variables (src/builder.c, src/hir/cfg, src/hir/func): the generated     *)
(* list is split into functions, a trailing value becomes a return, a test *)
(* build gets an entry of its own, functions nobody reaches are dropped,   *)
(* deferred calls move to the exits and calls are replaced by bodies.      *)
(*                                                                         *)
(* Whether a call is worth inlining is left open: the choice is free where *)
(* neither @[always] nor @[never] settles it.                              *)
(***************************************************************************)
EXTENDS HirGeneration, FiniteSets

CONSTANT Sources    \* the programs

VARIABLES
    source,     \* the program
    stage,      \* how far the builder is
    list,       \* hirctx.hot
    order,      \* cctx->funcs
    code,       \* the instructions of each function
    used,       \* fb->used
    todo,       \* the function and the instruction inlining has come to
    copies      \* how many bodies were copied
vars == <<source, stage, list, order, code, used, todo, copies>>
-----------------------------------------------------------------------------
(* The basic blocks of a list of instructions.                             *)
IsJump(i) == i.op \in {"jmp", "jmptab", "if"}
IsTerm(i) == i.op \in {"fret", "exitop"}
IsSyst(i) == i.op \in {"mkscope", "endscope", "fend", "stend"}
IsCall(i) == i.op \in {"fcll", "ecll"}

Leaders(l) ==
    {1} \union {i \in DOMAIN l : l[i].op = "mklb"}
    \union {i \in 2 .. Len(l) : IsJump(l[i - 1]) /\ ~l[i - 1].unused}

(* A block runs to the next leader or to an instruction that leaves the    *)
(* function; what follows such an instruction is in no block.              *)
End(l, leaders, i) ==
    CHOOSE j \in i .. Len(l) :
        /\ j = Len(l) \/ j + 1 \in leaders \/ (j > i /\ IsTerm(l[j]))
        /\ \A k \in i .. j - 1 : k + 1 \notin leaders /\ ~(k > i /\ IsTerm(l[k]))

Blocks(l) ==
    LET leaders == Leaders(l)
        final == CHOOSE i \in leaders : \A j \in leaders : j <= i
        starts == leaders \union (IF End(l, leaders, final) < Len(l) THEN {Len(l)} ELSE {})
        sorted == SelectSeq([i \in DOMAIN l |-> i], LAMBDA i : i \in starts)
    IN  [k \in DOMAIN sorted |-> [from |-> sorted[k], to |-> End(l, leaders, sorted[k])]]

Labelled(l, bs, label) ==
    {b \in DOMAIN bs : l[bs[b].from].op = "mklb" /\ l[bs[b].from].labels = <<label>>}

Succ(l, bs, b) ==
    LET exit == l[bs[b].to]
    IN  IF exit.op \in {"fret", "exitop", "fend", "stend"} THEN {}
        ELSE IF IsJump(exit)
             THEN UNION {Labelled(l, bs, exit.labels[i]) : i \in DOMAIN exit.labels}
        ELSE {b + 1} \intersect DOMAIN bs

(* The edges out of the blocks, and the blocks they lead into.             *)
Edges(l, bs) == [b \in DOMAIN bs |-> Succ(l, bs, b)]
Pred(succ, b) == {p \in DOMAIN succ : b \in succ[p]}
IsExit(succ, b) == succ[b] = {} /\ (b = 1 \/ Pred(succ, b) # {})

(* The dominators: a block nothing leads to has no other than itself.      *)
RECURSIVE Avoiding(_, _, _)
Avoiding(succ, seen, d) ==
    LET more == (UNION {succ[b] : b \in seen} \ seen) \ {d}
    IN  IF more = {} THEN seen ELSE Avoiding(succ, seen \union more, d)

Dom(succ, b) ==
    LET roots == {r \in DOMAIN succ : r = 1 \/ Pred(succ, r) = {}}
    IN  {d \in DOMAIN succ : b \notin Avoiding(succ, roots \ {d}, d)}
-----------------------------------------------------------------------------
(* HIR_CFG_split_by_functions: the open functions are on a stack and every *)
(* instruction belongs to the innermost one.                               *)
Opens(i) == i.op \in {"fdcl", "strt"}
Closes(i) == i.op \in {"fend", "stend"}

(* The depth of the functions at i, counted at the marks; the function at  *)
(* i is the last one opened at that depth.                                 *)
Depth(marks, i) ==
    Cardinality({j \in marks : j <= i /\ Opens(list[j])})
    - Cardinality({j \in marks : j < i /\ Closes(list[j])})
Owner(marks, i) ==
    LET same == {j \in marks : j <= i /\ Opens(list[j]) /\ Depth(marks, j) = Depth(marks, i)}
    IN  list[CHOOSE j \in same : \A k \in same : k <= j].fn

Split ==
    LET marks == {i \in DOMAIN list : Opens(list[i]) \/ Closes(list[i])}
        opening == SelectSeq(list, Opens)
        part(f) == SelectSeq([i \in DOMAIN list |-> i], LAMBDA i : Owner(marks, i) = f)
    IN  [order |-> [k \in DOMAIN opening |-> opening[k].fn],
         code |-> [f \in {opening[k].fn : k \in DOMAIN opening} |->
                      LET at == part(f) IN [n \in DOMAIN at |-> list[at[n]]]]]

(* HIR_FUNC_set_last_return: the value the last exit leaves is returned.   *)
Returned(l, bs, succ) ==
    LET ends == {b \in DOMAIN bs : IsExit(succ, b) /\ l[bs[b].to].op # "fret"}
        last == CHOOSE b \in ends : \A e \in ends : e <= b
        i == CHOOSE i \in 1 .. bs[last].to :
                 ~IsSyst(l[i]) /\ \A j \in i + 1 .. bs[last].to : IsSyst(l[j])
    IN  IF ends = {} \/ l[i].op # "vruse" THEN l ELSE [l EXCEPT ![i].op = "fret"]

LastReturn(l) == LET bs == Blocks(l) IN Returned(l, bs, Edges(l, bs))

(* HIR_FUNC_generate_test_function: a function that calls every test       *)
(* stands in for the entry, or is a new one when there is none.            *)
Entry(p) == {f \in DOMAIN p.defs : p.defs[f].start}
TestEntry(p, f) ==
    LET c == Place(p, f)
        tests == SelectSeq(order, LAMBDA t : p.defs[t].test)
    IN  Name(c, "fdcl", Nowhere, <<>>, f) \o Op(c, "mkscope")
        \o [i \in DOMAIN tests |-> Name(c, "fcll", Nowhere, <<>>, tests[i])[1]]
        \o On(c, "exitop", <<Const(0)>>) \o Op(c, "endscope") \o Name(c, "fend", Nowhere, <<>>, f)

(* The call graph: what a function calls by name or takes the address of.  *)
CallsOf(l) ==
    LET bs == Blocks(l)
    IN  {l[i].fn : i \in {j \in UNION {bs[b].from .. bs[b].to : b \in DOMAIN bs} :
                             (IsCall(l[j]) \/ l[j].op = "ref") /\ ~l[j].unused}}

RECURSIVE Marked(_, _)
Marked(edges, alive) ==
    LET more == UNION {edges[f] : f \in alive \intersect DOMAIN edges}
    IN  IF more \subseteq alive THEN alive ELSE Marked(edges, alive \union more)

(* Functions the outside can reach stay, and so does what they reach.      *)
EntryFunctions(p) ==
    {f \in DOMAIN code : f \notin DOMAIN p.defs}
    \union {f \in DOMAIN p.defs : p.defs[f].start \/ p.defs[f].global}
    \union {f \in DOMAIN p.defs : p.test /\ p.defs[f].test} \union p.table

Alive(p) ==
    LET edges == [f \in DOMAIN code |-> CallsOf(code[f])]
    IN  Marked(edges, EntryFunctions(p)) \intersect DOMAIN code
-----------------------------------------------------------------------------
(* HIR_FUNC_set_defer_calls.  The regions of a list, in its order.         *)
Regions(l, bs) ==
    LET opening == SelectSeq([i \in DOMAIN l |-> i], LAMBDA i : l[i].op = "defer_start")
        close(i) == CHOOSE j \in i .. Len(l) :
                        l[j].op = "defer_end" /\ \A k \in i .. j - 1 : l[k].op # "defer_end"
        home(i) == CHOOSE b \in DOMAIN bs : i \in bs[b].from .. bs[b].to
    IN  [k \in DOMAIN opening |->
            [from |-> opening[k], to |-> close(opening[k]), home |-> home(opening[k])]]

Inner(l, r) == SubSeq(l, r.from + 1, r.to - 1)

\* wrong: the first deferred call runs first
DueAtInOrder(l, rs, b, dom) ==
    Joined([k \in DOMAIN rs |->
        IF rs[k].home <= b /\ rs[k].home \in dom THEN Inner(l, rs[k]) ELSE <<>>])

(* What an exit gets: the regions whose block dominates it, last first.    *)
DueAt(l, rs, b, dom) ==
    Joined([k \in DOMAIN rs |->
        LET r == rs[Len(rs) + 1 - k]
        IN  IF r.home <= b /\ r.home \in dom THEN Inner(l, r) ELSE <<>>])

(* _get_last_valid_instruction, where the copies follow.                   *)
Anchor(l, rs, i) ==
    LET put == UNION {rs[k].from .. rs[k].to : k \in DOMAIN rs}
        passed(j) == j \in put \/ IsSyst(l[j]) \/ IsTerm(l[j])
    IN  CHOOSE j \in 1 .. i : ~passed(j) /\ \A k \in j + 1 .. i : passed(k)

Moved(l, bs, succ, rs) ==
    LET put == UNION {rs[k].from .. rs[k].to : k \in DOMAIN rs}
        exits == {b \in DOMAIN bs : IsExit(succ, b)}
        at == [b \in exits |-> Anchor(l, rs, bs[b].to)]
        due == [b \in exits |-> DueAt(l, rs, b, Dom(succ, b))]
        behind(i) == LET here == {b \in exits : at[b] = i}
                     IN  IF here = {} THEN <<>> ELSE due[CHOOSE b \in here : TRUE]
    IN  Joined([i \in DOMAIN l |-> <<[l[i] EXCEPT !.unused = @ \/ i \in put]>> \o behind(i)])

SetDefers(l) == LET bs == Blocks(l) IN Moved(l, bs, Edges(l, bs), Regions(l, bs))
-----------------------------------------------------------------------------
(* HIR_FUNC_perform_inline.  Labels and temporaries of a copied body get   *)
(* names of their own; variables keep theirs.                              *)
Renamed(x, n) == IF x = Nowhere \/ ~x.tmp THEN x ELSE [x EXCEPT !.copy = Append(@, n)]
RenamedLabel(l, n) == [l EXCEPT !.copy = Append(@, n)]
RenamedArg(a, n) == IF a.k = "var" THEN Var(Renamed(a.v, n)) ELSE a

Copied(i, n) ==
    [i EXCEPT !.to = Renamed(@, n),
              !.args = [k \in DOMAIN @ |-> RenamedArg(@[k], n)],
              !.labels = [k \in DOMAIN @ |-> RenamedLabel(@[k], n)]]

(* _inline_arguments: a parameter takes the argument at its place.         *)
InlineArguments(body, args) ==
    LET loads == SelectSeq(body, LAMBDA i : i.op = "fargld" /\ ~i.unused)
    IN  [k \in 1 .. IF Len(loads) < Len(args) THEN Len(loads) ELSE Len(args) |->
            [loads[k] EXCEPT !.op = "store", !.args = <<args[k]>>]]

ExitLabel(f, n) == [fn |-> f, name |-> <<>>, copy |-> <<n>>]
Away(i, l) == [i EXCEPT !.op = "jmp", !.to = Nowhere, !.args = <<>>, !.labels = <<l>>]

(* One instruction of the body; depth counts the scopes open before it,    *)
(* from -1.                                                                *)
InlineInstruction(i, depth, call, n) ==
    IF i.op = "mkscope" THEN IF depth < 0 THEN <<>> ELSE <<i>>
    ELSE IF i.op = "endscope" THEN IF depth - 1 < 0 THEN <<>> ELSE <<i>>
    ELSE IF i.op # "fret" THEN <<Copied(i, n)>>
    ELSE (IF call.to = Nowhere THEN <<>> ELSE <<[Copied(i, n) EXCEPT !.op = "store", !.to = call.to]>>)
         \o <<Away(i, ExitLabel(call.fn, n))>>

(* _inline_function: the body starts at the second scope of the function.  *)
InlineFunction(body, call, n) ==
    LET live == SelectSeq(body, LAMBDA i : ~i.unused)
        scopes == SelectSeq([i \in DOMAIN live |-> i], LAMBDA i : live[i].op = "mkscope")
        rest == SubSeq(live, scopes[2], Len(live) - 1)
        count(op, k) == Cardinality({j \in 1 .. k - 1 : rest[j].op = op})
        depth(k) == count("mkscope", k) - count("endscope", k) - 1
    IN  Joined([k \in DOMAIN rest |-> InlineInstruction(rest[k], depth(k), call, n)])
        \o <<[Away(call, ExitLabel(call.fn, n)) EXCEPT !.op = "mklb"]>>

Inlined(l, i, body, n) ==
    SubSeq(l, 1, i - 1) \o InlineArguments(body, l[i].args) \o InlineFunction(body, l[i], n)
    \o <<[l[i] EXCEPT !.unused = TRUE]>> \o SubSeq(l, i + 1, Len(l))
-----------------------------------------------------------------------------
Init ==
    /\ source \in Sources
    /\ stage = "text"
    /\ list = <<>> /\ order = <<>> /\ code = <<>>
    /\ used = {} /\ todo = <<1, 0>> /\ copies = 0

Generate ==
    /\ stage = "text"
    /\ list' = Generated(source)
    /\ stage' = "list"
    /\ UNCHANGED <<source, order, code, used, todo, copies>>

SplitByFunctions ==
    /\ stage = "list"
    /\ \E s \in {Split} : order' = s.order /\ code' = s.code
    /\ list' = <<>>
    /\ stage' = "split"
    /\ UNCHANGED <<source, used, todo, copies>>

SetLastReturn ==
    /\ stage = "split"
    /\ code' = [f \in DOMAIN code |-> LastReturn(code[f])]
    /\ stage' = IF source.test THEN "tests" ELSE "reload"
    /\ UNCHANGED <<source, list, order, used, todo, copies>>

GenerateTestFunction ==
    /\ stage = "tests"
    /\ \/ \E f \in Entry(source) :
            code' = [code EXCEPT ![f] = TestEntry(source, f)] /\ UNCHANGED order
       \/ /\ Entry(source) = {}
          /\ LET f == Len(source.defs) + 1
             IN  /\ code' = [g \in DOMAIN code \union {f} |-> IF g = f THEN TestEntry(source, f) ELSE code[g]]
                 /\ order' = Append(order, f)
    /\ stage' = "reload"
    /\ UNCHANGED <<source, list, used, todo, copies>>

(* RELOAD_CFG: what is left of a function nobody reaches is not built.     *)
Reload ==
    /\ stage \in {"reload", "inlined"}
    /\ used' = Alive(source)
    /\ stage' = IF stage = "reload" THEN "defer" ELSE "done"
    /\ UNCHANGED <<source, list, order, code, todo, copies>>

SetDeferCalls ==
    /\ stage = "defer"
    /\ code' = [f \in DOMAIN code |-> SetDefers(code[f])]
    /\ stage' = "inline"
    /\ UNCHANGED <<source, list, order, used, todo, copies>>

(* The next call of a function that has code, from the last one on.        *)
Calls(k, i) ==
    LET l == code[order[k]]
        bs == Blocks(l)
        inside == UNION {bs[b].from .. bs[b].to : b \in DOMAIN bs}
    IN  {j \in inside : j > i /\ IsCall(l[j]) /\ ~l[j].unused
                        /\ l[j].fn \in DOMAIN code \ {order[k]}}

Inlining(f) == IF f \in DOMAIN source.defs THEN source.defs[f].inline ELSE "never"

NextCall ==
    /\ stage = "inline" /\ todo[1] <= Len(order)
    /\ \E calls \in {Calls(todo[1], todo[2])} :
        IF calls = {} THEN /\ todo' = <<todo[1] + 1, 0>>
                           /\ UNCHANGED <<code, copies>>
        ELSE \E i \in {CHOOSE i \in calls : \A j \in calls : i <= j} :
                LET f == order[todo[1]]
                    call == code[f][i]
                IN  \/ /\ Inlining(call.fn) # "always"
                       /\ todo' = <<todo[1], i>>
                       /\ UNCHANGED <<code, copies>>
                    \/ /\ Inlining(call.fn) # "never"
                       /\ \E new \in {Inlined(code[f], i, code[call.fn], copies + 1)} :
                            /\ code' = [code EXCEPT ![f] = new]
                            /\ todo' = <<todo[1], i + Len(new) - Len(code[f])>>
                       /\ copies' = copies + 1
    /\ UNCHANGED <<source, stage, list, order, used>>

InlineDone ==
    /\ stage = "inline" /\ todo[1] > Len(order)
    /\ stage' = "inlined"
    /\ UNCHANGED <<source, list, order, code, used, todo, copies>>

Next ==
    \/ Generate \/ SplitByFunctions \/ SetLastReturn \/ GenerateTestFunction
    \/ Reload \/ SetDeferCalls \/ NextCall \/ InlineDone

Spec == Init /\ [][Next]_vars
-----------------------------------------------------------------------------
(* The instructions run one after another.  A machine is [frames |-> the   *)
(* open calls, the innermost first, in |-> the input left, log |-> the     *)
(* events, on |-> whether it still runs].                                  *)
Frame(f, args, to) == [f |-> f, at |-> 1, vars |-> <<>>, args |-> args, to |-> to]

Evaluate(m, a) ==
    IF a.k = "const" THEN a.v
    ELSE IF a.v \in DOMAIN m.frames[1].vars THEN m.frames[1].vars[a.v] ELSE 0
Values(m, as) == [i \in DOMAIN as |-> Evaluate(m, as[i])]

Onward(m) == [m EXCEPT !.frames[1].at = @ + 1]
Put(m, x, v) == IF x = Nowhere THEN m ELSE [m EXCEPT !.frames[1].vars = (x :> v) @@ @]
Seen(m, what, f, args) ==
    [m EXCEPT !.log = Append(@, [what |-> what, f |-> f, args |-> args])]
Halt(m) == [m EXCEPT !.on = FALSE]

Goto(m, l, label) ==
    LET marks == {i \in DOMAIN l : l[i].op = "mklb" /\ l[i].labels = <<label>>}
    IN  IF marks = {} THEN Halt(Seen(m, "lost", 0, <<>>))
        ELSE [m EXCEPT !.frames[1].at = CHOOSE i \in marks : TRUE]

CalledAt(m, i, f, args) ==
    IF f \in DOMAIN source.defs /\ source.defs[f].external
    THEN Onward(Put(Seen(m, "external", f, args), i.to, 7 + Len(args)))
    ELSE IF f \notin used THEN Halt(Seen(m, "undefined", f, args))
    ELSE [m EXCEPT !.frames = <<Frame(f, args, i.to)>> \o <<Onward(m).frames[1]>> \o Tail(@)]

Back(m, v) ==
    LET out == [m EXCEPT !.frames = Tail(@)]
    IN  IF out.frames = <<>> THEN Halt(out) ELSE Put(out, m.frames[1].to, v)

Truth(b) == IF b THEN 1 ELSE 0

Executed(m, l, i) ==
    LET v == Values(m, i.args)
    IN  IF i.unused THEN Onward(m)
        ELSE CASE i.op = "store" -> Onward(Put(m, i.to, v[1]))
               [] i.op = "iadd" -> Onward(Put(m, i.to, v[1] + v[2]))
               [] i.op = "isub" -> Onward(Put(m, i.to, v[1] - v[2]))
               [] i.op = "icmp" -> Onward(Put(m, i.to, Truth(v[1] = v[2])))
               [] i.op = "ilwr" -> Onward(Put(m, i.to, Truth(v[1] < v[2])))
               [] i.op = "ilrg" -> Onward(Put(m, i.to, Truth(v[1] > v[2])))
               [] i.op = "ref" -> Onward(Put(m, i.to, 1000 + i.fn))
               [] i.op = "fargld" -> Onward(Put(m, i.to, m.frames[1].args[v[1]]))
               [] i.op = "jmp" -> Goto(m, l, i.labels[1])
               [] i.op = "if" -> Goto(m, l, i.labels[IF v[1] # 0 THEN 1 ELSE 2])
               [] i.op = "jmptab" ->
                    IF v[1] + 1 \in DOMAIN i.labels THEN Goto(m, l, i.labels[v[1] + 1])
                    ELSE Halt(Seen(m, "lost", 0, <<>>))
               [] i.op \in {"fcll", "ecll"} -> CalledAt(m, i, i.fn, v)
               [] i.op = "ufcll" -> CalledAt(m, i, v[1] - 1000, Tail(v))
               [] i.op = "sysc" ->
                    IF i.to = Nowhere THEN Onward(Seen(m, "write", 0, v))
                    ELSE IF m.in = <<>> THEN Halt(m)
                    ELSE Onward(Put([m EXCEPT !.in = Tail(@)], i.to, Head(m.in)))
               [] i.op = "fret" -> Back(m, v[1])
               [] i.op = "fend" -> Back(m, 0)
               [] i.op = "exitop" -> Halt(Seen(m, "exit", 0, v))
               [] i.op = "stend" -> Halt(Seen(m, "lost", 0, <<>>))
               [] OTHER -> Onward(m)

(* At most 2^k steps.                                                      *)
RECURSIVE Run(_, _)
Run(m, k) ==
    IF ~m.on THEN m
    ELSE IF k > 0 THEN LET half == Run(m, k - 1) IN Run(half, k - 1)
    ELSE LET l == code[m.frames[1].f] IN Executed(m, l, l[m.frames[1].at])

(* The events of the code; it starts at its only entry.                    *)
Behaviour(input) ==
    LET entry == CHOOSE f \in EntryFunctions(source) :
                     f \notin DOMAIN source.defs \/ source.defs[f].start
        m == [frames |-> <<Frame(entry, <<>>, Nowhere)>>, in |-> input, log |-> <<>>, on |-> TRUE]
        end == Run(m, 9)
    IN  IF end.on THEN (Seen(end, "endless", 0, <<>>)).log ELSE end.log
=============================================================================
