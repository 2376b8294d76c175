----------------------------- MODULE PeepholeFunctions -----------------------------
(* The functions Peephole is checked with: (1) windows of one to four      *)
(* moves and operations, in straight code; (2) one such instruction in     *)
(* front of comparisons of registers with zero and other values, as one or *)
(* two branches ask for them; and (3) one in a loop.  Two kinds of         *)
(* functions that lose something, as LosesNext and LosesFlags say, are      *)
(* apart, as is a store: (4) a function that ends with a store to a global *)
(* variable, (5) the windows of LosesNext, (6) the branches of LosesFlags. *)
EXTENDS LirMachine, TLC

CONSTANTS MaxRounds, Part
VARIABLES orig, shown, p, stage, at, rounds

A == R("RAX", 8)   B == R("RBX", 8)   C == R("RCX", 8)
AL == R("RAX", 1)
M == Mem("RBP", 8, 8)
L(n) == I1("MKLB", Lb(n))
Mov(x, y) == I2("iMOV", x, y)
Ret == I1("FRET", A)
Jmp(n) == I1("JMP", Lb(n))
Acc(op, x, y) == I(op, x, x, y)

Env == [fns |-> << >>, naked |-> TRUE, word |-> 8, align |-> 16, direct |-> TRUE, result |-> "RAX", exit |-> "RDI", kept |-> {"RBP"}, cells |-> {4096}]
Regs(a, b, c) == [RAX |-> a, RBX |-> b, RCX |-> c, RDX |-> 7, RSP |-> 1300, RBP |-> 1200]
Runs == <<[regs |-> Regs(1, 2, 0), mem |-> (1192 :> 3)], [regs |-> Regs(0, 1, 2), mem |-> (1192 :> 0)],
          [regs |-> Regs(2, 0, 15), mem |-> (1192 :> 1)]>>

(* A function of consecutive blocks: its instructions, l, jmp.             *)
Function(bs) ==
    LET Before(k) == FoldLeft(LAMBDA n, j : n + Len(bs[j][1]), 0, [j \in 1 .. k - 1 |-> j])
    IN  [code |-> FlattenSeq([k \in DOMAIN bs |-> bs[k][1]]), tables |-> {}, runs |-> Runs,
         blocks |-> [k \in DOMAIN bs |-> [entry |-> Before(k) + 1, exit |-> Before(k + 1),
                                          l |-> bs[k][2], jmp |-> bs[k][3],
                                          pred |-> {j \in DOMAIN bs : k \in {bs[j][2], bs[j][3]}}]]]

Regs3 == {A, B, C}
Moves == {Mov(x, y) : x \in Regs3, y \in Regs3 \union {Num(0), Num(1), Num(3), M}}
         \union {Mov(M, x) : x \in {B, C}}
Changes == {Acc(op, x, y) : op \in {"iADD", "iSUB"}, x \in {A, B}, y \in {Num(0), Num(1), B, C}}
           \union {Acc("iMUL", A, y) : y \in {Num(0), Num(1), B}}
           \union {Acc(op, A, Num(0)) : op \in {"bSHL", "bSHR", "bAND"}}
           \union {Acc(op, A, y) : op \in {"bAND", "bOR", "bXOR"}, y \in {A, B}}
           \union {Acc("bXOR", B, B)}
All == Moves \union Changes
Small == {Mov(A, B), Mov(B, A), Mov(A, Num(0)), Mov(B, Num(1))}
         \union {Acc(op, x, y) : op \in {"iADD", "iSUB"}, x \in {A, B}, y \in {Num(1), B}}
Four(x, y, z, v) == <<Mov(x, y), Acc("iSUB", x, z), Mov(v, x), Mov(y, x)>>
Windows == {<<x>> : x \in All} \union (All \X All) \union (Small \X Small \X Small)
           \union {Four(x, y, z, v) : x, y, v \in Regs3, z \in Regs3 \union {Num(1)}}
Sets == {<<Acc("iSUB", B, Num(1)), I2("CMP", B, Num(0)), I1(op, AL), I2("MOVZX", C, AL), Acc("iADD", B, C)>> :
            op \in {"SETE", "STNE"}}
Ends == {<<I2("CMP", B, Num(0))>>, <<I2("TST", C, C)>>, <<I2("CMP", A, B)>>, <<I2("CMP", A, Num(1))>>,
         <<I2("CMP", A, B), I1("SETL", AL), I2("MOVSX", C, AL), I2("TST", C, C)>>}

(* The window of SubtractedFromItself.  It takes two instructions out one  *)
(* after the other and counts from the first again, past the one it has    *)
(* just taken out (peephole_generated.c:604): the second it takes is the   *)
(* instruction behind the window.                                          *)
LosesNext(w) == \E x, y \in Regs3 : w = Four(x, y, y, x)

(* A register set to zero, or counted down, only to be compared with zero: *)
(* its flags stand in for the comparison, and _cleanup_pass, which looks   *)
(* for reads of the register (x86_64_gnu_nasm.c:172), takes it out too.    *)
LosesFlags(w, e, read) ==
    /\ \/ w.op = "iMOV" /\ w.sarg = Num(0)
       \/ w.op = "bXOR" /\ w.targ = w.sarg
       \/ w.op = "iSUB" /\ w.targ \in {w.sarg, Num(1)}
    /\ e \in {<<I2("CMP", w.farg, Num(0))>>, <<I2("TST", w.farg, w.farg)>>}
    /\ w.farg \notin read

Into(x) == IF x = A THEN <<>> ELSE <<Mov(A, x)>>
Straight(w, x) == Function(<<<<w \o Into(x) \o <<Ret>>, 0, 0>>>>)
If(t, f) == <<I1("JE", Lb(t)), I1("JNE", Lb(f))>>
Branch(w, e, x, y) ==
    Function(<<<<<<w>> \o e \o If(3, 2), 3, 2>>,
               <<<<L(2)>> \o Into(x) \o <<Jmp(4)>>, 0, 5>>,
               <<<<L(3), Jmp(5)>>, 0, 4>>,
               <<<<L(5)>> \o Into(y) \o <<Jmp(6)>>, 0, 6>>,
               <<<<L(4), I0("SETPOS"), Jmp(6)>>, 0, 6>>,
               <<<<L(6), Ret>>, 0, 0>>>>)
Twice(w, e, x) ==       \* both branches lead to the block behind the second
    Function(<<<<<<I2("CMP", C, Num(0))>> \o If(3, 2), 3, 2>>,
               <<<<L(2), w>> \o e \o If(3, 4), 3, 4>>,
               <<<<L(3)>> \o Into(x), 4, 0>>,
               <<<<L(4), Ret>>, 0, 0>>>>)
Repeat(w, x) ==
    Function(<<<<<<Mov(B, Num(2)), Jmp(2)>>, 0, 2>>,
               <<<<L(2), w, Acc("iSUB", B, Num(1)), I2("CMP", B, Num(0))>> \o If(4, 3), 4, 3>>,
               <<<<L(3), Jmp(2)>>, 0, 2>>,
               <<<<L(4)>> \o Into(x) \o <<Ret>>, 0, 0>>>>)
Branches(losing) ==
    {Branch(i[1], i[2], i[3], i[4]) :
        i \in {j \in All \X Ends \X {A, B} \X {A, C} : LosesFlags(j[1], j[2], {j[3], j[4]}) = losing}}
    \union {Twice(i[1], i[2], i[3]) :
        i \in {j \in All \X Ends \X {A, B} : LosesFlags(j[1], j[2], {A, j[3]}) = losing}}
Straights(losing) ==
    {Straight(i[1], i[2]) : i \in {j \in Windows \X Regs3 : LosesNext(j[1]) = losing}}
Functions ==
    UNION {CASE n = 1 -> Straights(FALSE) \union {Straight(w, B) : w \in Sets}
             [] n = 2 -> Branches(FALSE)
             [] n = 3 -> {Repeat(w, x) : w \in All, x \in {A, C}}
             [] n = 4 -> {Straight(<<Mov(A, B), Acc("iADD", A, C), Mov(Ext("g", 4096, 8), A)>>, B)}
             [] n = 5 -> Straights(TRUE)
             [] n = 6 -> Branches(TRUE) : n \in Part}
Fuel == 6
Pass == INSTANCE Peephole
=============================================================================
