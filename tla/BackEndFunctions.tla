----------------------------- MODULE BackEndFunctions -----------------------------
(* The functions BackEnd is checked with, in LIR as the generator leaves   *)
(* it, for each target: one operation, calls of every kind, tail calls,    *)
(* branches and loops around calls, arguments on the stack, globals and    *)
(* pointers, the entry of a program, and copies to propagate.  Two groups  *)
(* stand aside: of 8 and of 11 the README says what goes wrong.            *)
EXTENDS LirMachine, TLC

CONSTANT Part   \* the groups that are used
VARIABLES job, meaning, f, step, order

x == V("x", 8)   y == V("y", 8)   t == V("t", 8)   u == V("u", 8)   c == V("c", 1)
g == Ext("g", 4096, 8)
L(n) == I1("MKLB", Lb(n))
Open == I0("FDCL")
Load(v, n) == I2("LOADFARG", v, Num(n))
Op(op, d, s, r) == I(op, d, s, r)
Mov(a, b) == I2("iMOV", a, b)
Call(h, args) ==    \* the last argument first
    [k \in DOMAIN args |-> I1("VRUSE", args[k])]
    \o [k \in DOMAIN args |-> I2("STFARG", args[Len(args) + 1 - k], Num(Len(args) - k))]
    \o <<I1("FCLL", Fn(h))>>
Got(v) == <<I1("LOADFRET", v)>>
Ret(v) == <<I0("ENDSCOPE"), I1("FRET", v), I0("FEND")>>
Exit(v) == <<I1("EXITOP", v)>>
If(v, one, other) == <<I2("CMP", v, Num(0)), I1("JE", Lb(other)), I1("JNE", Lb(one))>>
To(n) == <<I0("ENDSCOPE"), I1("JMP", Lb(n))>>

(* Functions that are called: inner has a body that writes three           *)
(* registers, outer calls it and a function of the ABI.                    *)
Info(T, n, known, abi, vargs, writes, calls) ==
    LET ArgsIn == IF T = "i386" \/ (vargs /\ ~abi) THEN <<>> ELSE <<"RDI", "RSI", "RDX", "RCX", "R8", "R9">>
        word == IF T = "i386" THEN 4 ELSE 8
    IN  [known |-> known, abi |-> abi, vargs |-> vargs, naked |-> FALSE, writes |-> writes, calls |-> calls,
         args |-> [k \in 1 .. n |-> IF k <= Len(ArgsIn) THEN R(ArgsIn[k], word)
                                    ELSE [t |-> "stack", n |-> word * (k - 1 - Len(ArgsIn)), size |-> word]]]
Volatile64 == {"RAX", "RCX", "RDX", "RSI", "RDI", "R8", "R9", "R10", "R11"}
Volatile32 == {"RAX", "RCX", "RDX"}
Known(T) ==
    LET volatile == IF T = "i386" THEN Volatile32 ELSE Volatile64
        word == IF T = "i386" THEN 4 ELSE 8
        inner == Info(T, 2, TRUE, FALSE, FALSE, {"RAX", "RBX", "RDX"}, {})
        outer == Info(T, 1, TRUE, FALSE, FALSE, {"RAX", "RSI"}, {"inner", "abi2"})
        abi2 == Info(T, 2, FALSE, TRUE, FALSE, {}, {})
        abi7 == Info(T, 7, FALSE, TRUE, FALSE, {}, {})
        abi8 == Info(T, 8, FALSE, TRUE, FALSE, {}, {})
        many == Info(T, 2, TRUE, FALSE, TRUE, {"RAX", "RBX"}, {})
        Sys == [Info(T, 0, FALSE, FALSE, FALSE, {}, {}) EXCEPT !.args =
                    IF T = "i386" THEN <<R("RAX", 4), R("RBX", 4), R("RCX", 4)>>
                    ELSE <<R("RAX", 8), R("RDI", 8), R("RSI", 8)>>]
        With(i, dirty, aligned) == [dirty |-> dirty, aligned |-> aligned] @@ i
    IN  [inner |-> With(inner, {"RBX", "RDX"}, 0),
         outer |-> With(outer, {"RBX", "RDX", "RSI"} \union volatile, 2 * word),
         abi2 |-> With(abi2, volatile, 2 * word), abi7 |-> With(abi7, volatile, 2 * word),
         abi8 |-> With(abi8, volatile, 2 * word),
         many |-> With(many, {"RBX"}, 0),
         syscall |-> With(Sys, IF T = "i386" THEN {} ELSE {"RCX", "R11"}, 0)]

Function(abi, blocks) ==
    [name |-> "f", abi |-> abi, entry |-> FALSE, naked |-> FALSE, vargs |-> FALSE, params |-> 2,
     unsigned |-> {}, taken |-> {}, shared |-> {},
     blocks |-> [b \in DOMAIN blocks |-> [code |-> blocks[b][1], l |-> blocks[b][2], jmp |-> blocks[b][3]]]]
One(abi, code) == Function(abi, <<<<(<<Open, Load(x, 0), Load(y, 1)>>) \o code, 0, 0>>>>)

Word(T) == IF T = "i386" THEN 4 ELSE 8
RunsOf(T, n) ==
    [r \in 1 .. 2 |-> [given |-> SubSeq(IF r = 1 THEN <<3, 2, 9, 4, 7, 12, 1, 6>> ELSE <<29, 3, 1, 5, 2, 3, 8, 10>>, 1, n),
                        mem |-> (4096 :> 4 + r) @@ (4104 :> 7)]]
Job(T, fn, colours) ==
    [target |-> T, fns |-> Known(T), f |-> fn, runs |-> RunsOf(T, fn.params), gives |-> TRUE, colours |-> colours, copies |-> FALSE]
Copying(T, fn, colours) == [Job(T, fn, colours) EXCEPT !.copies = TRUE]

Operations == {"iADD", "iSUB", "iMUL", "bAND", "iBLFT", "iBRHT", "iDIV", "iMOD", "iCMP", "iLWR", "iLGE"}
Compute(abi) == {One(abi, <<Op(op, t, x, y), Op("iADD", u, t, x)>> \o Ret(u)) : op \in Operations}
Change == {One(FALSE, <<I2(op, t, x), Op("iSUB", u, t, y)>> \o Ret(u)) : op \in {"NOT", "NEG"}}
Narrow == {[One(FALSE, <<I2("TI8", c, x), I2("iMOV", t, Num(5)), I2("TI64", u, c), Op("iADD", u, u, t)>> \o Ret(u))
                EXCEPT !.unsigned = un] : un \in {{}, {"c"}}}
          \union {One(FALSE, <<Op("iLWR", c, x, y), I2("TI64", u, c), Op("iADD", u, u, x)>> \o Ret(u))}
Global == {One(FALSE, <<Op("iADD", t, x, g), I2("iMOV", g, t), Op("iMUL", u, g, y)>> \o Ret(u)),
           One(FALSE, <<I2("REF", t, g), I2("GDREF", u, t), Op("iADD", u, u, x), Loads(t, u, 8)>> \o Ret(u)),
           One(FALSE, Call("abi2", <<g, x>>) \o Got(u) \o <<I2("iMOV", g, u)>> \o Ret(y)),
           One(FALSE, <<I2("CMP", g, Num(0)), I1("JE", Lb(7)), I2("iMOV", g, Num(1)), L(7)>> \o Ret(y))}
Pointer == [One(FALSE, <<I2("REF", t, x), Loads(t, y, 8), Op("iADD", u, x, y)>> \o Call("abi2", <<t, u>>)
                       \o Got(u) \o Ret(u)) EXCEPT !.taken = {"x"}, !.shared = {"t"}]
Calls == {One(FALSE, <<Op("iADD", t, x, y)>> \o Call(h, <<t, x>>) \o Got(u) \o
                     <<Op("iSUB", u, u, y)>> \o Ret(u)) : h \in {"inner", "abi2", "many"}}
         \union {One(abi, <<Op("iADD", t, x, y)>> \o Call("outer", <<t>>) \o Got(u) \o
                     <<Op("iSUB", u, u, y)>> \o Ret(u)) : abi \in BOOLEAN}
         \union {One(FALSE, Call("inner", <<x, y>>) \o Got(t) \o Call("many", <<x, t>>) \o Got(u) \o
                     <<Op("iADD", u, u, y)>> \o Ret(u))}
Tails == {One(abi, <<Op("iADD", t, x, y)>> \o Call(h, <<y, t>>) \o Got(u) \o Ret(u)) :
              h \in {"inner", "abi2", "many"}, abi \in {FALSE}}
         \union {One(TRUE, Call("abi2", <<y, x>>) \o Got(u) \o Ret(u))}
         \union {[One(FALSE, <<I2("REF", t, x)>> \o Call("inner", <<t, y>>) \o Got(u) \o Ret(u))
                    EXCEPT !.taken = {"x"}, !.shared = {"t"}]}
Seven == {One(FALSE, <<Op("iADD", t, x, y)>> \o Call("abi7", <<t, x, y, x, y, t, x>>) \o Got(u) \o
                     <<Op("iSUB", u, u, y)>> \o Ret(u)),
          One(FALSE, Call("abi8", <<x, x, y, x, y, y, y, x>>) \o Ret(y))}
System == {One(FALSE, <<Op("iADD", t, x, y), I2("STSARG", Num(1), Num(0)), I2("STSARG", t, Num(1)),
                        I2("STSARG", x, Num(2)), I0("SYSC")>> \o Got(u) \o <<Op("iADD", u, u, y)>> \o Ret(u))}
Entry == {[One(FALSE, <<>>) EXCEPT !.entry = TRUE, !.blocks[1].code =
            <<I0("FDCL"), I2("STARGLD", x, Num(0)), I2("STARGLD", t, Num(1))>> \o Call("abi2", <<x, t>>) \o Got(u)
            \o <<Op("iADD", u, u, x), I0("ENDSCOPE"), I1("EXITOP", u)>>]}
Branching ==
    {Function(h[2], <<<<(<<Open, Load(x, 0), Load(y, 1), Op("iADD", t, x, y)>>) \o If(x, 2, 3), 2, 3>>,
                      <<(<<L(2)>>) \o Call(h[1], <<t, y>>) \o Got(u) \o <<Op("iADD", t, t, u)>> \o To(3), 0, 3>>,
                      <<(<<L(3), Op("iSUB", u, t, y)>>) \o Ret(u), 0, 0>>>>) :
        h \in {<<"inner", FALSE>>, <<"abi2", TRUE>>}}
Looping ==
    {Function(FALSE, <<<<(<<Open, Load(x, 0), Load(y, 1), I2("iMOV", t, x)>>) \o To(2), 0, 2>>,
                       <<(<<L(2)>>) \o If(y, 3, 4), 3, 4>>,
                       <<(<<L(3)>>) \o Call(h, <<t, x>>) \o Got(u)
                         \o <<Op("iADD", t, t, u), Op("iBRHT", y, y, Num(1))>> \o To(2), 0, 2>>,
                       <<(<<L(4)>>) \o Ret(t), 0, 0>>>>) : h \in {"abi2"}}
LostTail == {One(TRUE, Call("inner", <<y, x>>) \o Got(u) \o Ret(u))}

Phi(a, b) == I2("phiMOV", a, b)
p == V("p", 8)   q == V("q", 8)
Copied ==
    {One(FALSE, <<Mov(t, x), Mov(u, Num(3)), Op("iSUB", t, t, y), Op("iADD", u, u, t)>> \o Ret(u)),
     One(FALSE, <<Mov(t, x)>> \o Call("inner", <<t, y>>) \o Got(u) \o <<Op("iADD", u, u, t)>> \o Ret(u)),
     One(FALSE, <<Mov(t, g), Mov(g, y), Op("iADD", u, t, g)>> \o Ret(u)),
     One(FALSE, <<I2("TI8", c, Num(1)), I2("TI64", t, c), Op("iSUB", u, x, t), Op("iMOD", t, y, u)>> \o Ret(t)),
     [One(FALSE, <<Mov(t, x), I2("REF", u, x), Loads(u, y, 8), Op("iSUB", u, t, x)>> \o Ret(u))
        EXCEPT !.taken = {"x"}, !.shared = {"u"}]}
Joining ==      \* p is one of two constants, or the same behind both blocks
    {Function(FALSE, <<<<(<<Open, Load(x, 0), Load(y, 1)>>) \o If(x, 2, 3), 2, 3>>,
                       <<(<<L(2), Phi(p, Num(5))>>) \o middle \o To(4), 0, 4>>,
                       <<(<<L(3), Phi(p, Num(k))>>) \o To(4), 0, 4>>,
                       <<(<<L(4), Mov(t, p), Op("iDIV", u, y, t), Op("iADD", u, u, p)>>) \o Ret(u), 0, 0>>>>) :
        k \in {5, 6}, middle \in {<<>>, Call("inner", <<y, p>>)}}
Advancing ==    \* q is what p was a turn ago
    {Function(FALSE, <<<<(<<Open, Load(x, 0), Load(y, 1), Phi(p, x), Phi(q, Num(0))>>) \o To(2), 0, 2>>,
                       <<(<<L(2), Mov(t, p), Op("iADD", u, p, x), Op("iLWR", c, u, Num(12))>>) \o If(c, 3, 4), 3, 4>>,
                       <<(<<L(3)>>) \o moves \o To(2), 0, 2>>,
                       <<(<<L(4), Op("iMUL", u, q, t)>>) \o Ret(u), 0, 0>>>>) :
        moves \in {<<Phi(p, u), Phi(q, t)>>, <<Phi(q, t), Phi(p, u)>>}}
LostStore == {One(FALSE, <<Mov(g, x)>> \o Ret(x))}

Narrowed(fn) ==     \* the same with words of four bytes
    LET N(z) == IF z.size = 8 THEN [z EXCEPT !.size = 4] ELSE z
    IN  [fn EXCEPT !.blocks = [b \in DOMAIN @ |-> [@[b] EXCEPT !.code = [k \in DOMAIN @ |->
            [@[k] EXCEPT !.farg = N(@), !.sarg = N(@), !.targ = IF @.t = "num" THEN @ ELSE N(@)]]]]]
Group(k) ==
    CASE k = 1 -> {Job("gnu", fn, {"RBX", "RDX"}) : fn \in Compute(FALSE) \union Change \union Narrow}
                  \union {Job("gnu", fn, {"RBX"}) : fn \in Compute(TRUE)}
      [] k = 2 -> {Job("gnu", fn, {"RBX", "RSI", "RDI"}) : fn \in Calls \union Tails}
      [] k = 3 -> {Job("gnu", fn, {"RBX", "RDI"}) : fn \in Branching \union Looping}
      [] k = 4 -> {Job("gnu", fn, {"RDX", "RSI", "R9"}) : fn \in Seven}
      [] k = 5 -> {Job("gnu", fn, {"RBX", "RCX", "RDI"}) : fn \in Entry \union {Pointer} \union Global}
                  \union {Job("gnu", fn, {"RBX", "R11"}) : fn \in System}
      [] k = 6 -> {Job("macho", fn, {"RDI"}) : fn \in Global \union Change}
      [] k = 7 -> {Job("i386", Narrowed(fn), {"RBX", "RDX"}) :
                      fn \in Compute(FALSE) \union Change \union Calls}
                  \union {Job("i386", Narrowed(fn), {"RBX"}) : fn \in Branching \union Looping}
      [] k = 10 -> {Copying("gnu", fn, {"RBX", "RDX"}) : fn \in Copied \union Joining}
                   \union {Copying("gnu", fn, {"RBX"}) : fn \in Advancing}
      [] k = 11 -> {Copying("gnu", fn, {"RBX", "RDX"}) : fn \in LostStore}
      [] k = 8 -> {Job("gnu", fn, {"RBX", "RDX"}) : fn \in LostTail}
Jobs == UNION {Group(k) : k \in Part}
Fuel == 8
Back == INSTANCE BackEnd
=============================================================================
