------------------------------- MODULE LirMachine -------------------------------
(* The LIR of a function once its variables have places                    *)
(* (include/lir/lir.h, src/lir/lir_types.c, src/lir/lir.c), and what it    *)
(* computes: every instruction does what the line of assembly the writer   *)
(* makes of it does (src/asm/x86_64_gnu_nasm).                             *)
(*                                                                         *)
(* A word of 8, 4, 2, 1 bytes has Bits[size] bits here.  An address lies   *)
(* above Base, out of the reach of the arithmetic on words; a cell of the  *)
(* memory is one object.                                                   *)
(***************************************************************************)
EXTENDS Integers, FiniteSets, Sequences, SequencesExt, Functions

CONSTANT Bits       \* the bits of a word, by its bytes
Base == 1024

(* Operands and instructions (lir_subject_t, lir_block_t).                 *)
Nul == [t |-> "none", r |-> "", n |-> 0, size |-> 0]
R(r, size) == [t |-> "reg", r |-> r, n |-> 0, size |-> size]
V(v, size) == [t |-> "var", r |-> v, n |-> 0, size |-> size]
Tmp(r, n, size) == [t |-> "tmp", r |-> r, n |-> n, size |-> size]  \* a variable bound to r
Ext(v, a, size) == [t |-> "ext", r |-> v, n |-> a, size |-> size]  \* external, at a
AddressOf(x) == [x EXCEPT !.t = "got"]                             \* of an external
Num(n) == [t |-> "num", r |-> "", n |-> n, size |-> 8]
Mem(r, off, size) == [t |-> "mem", r |-> r, n |-> off, size |-> size]
Lb(n) == [t |-> "label", r |-> "", n |-> n, size |-> 0]
Fn(f) == [t |-> "func", r |-> f, n |-> 0, size |-> 0]
I(op, f, s, t) == [op |-> op, farg |-> f, sarg |-> s, targ |-> t, unused |-> FALSE]
I0(op) == I(op, Nul, Nul, Nul)
I1(op, f) == I(op, f, Nul, Nul)
I2(op, f, s) == I(op, f, s, Nul)
IsReg(x) == x.t = "reg"
IsNum(x) == x.t = "num"
IsObj(x) == x.t \in {"reg", "num", "mem", "label"}
Loads(x, y, dsize) == I("LDREF", x, y, Num(dsize))     \* dsize is of the subject

(* LIR_subj_equals: registers of one family are equal whatever their size. *)
Eq(a, b) ==
    /\ a.t = b.t /\ a.t # "none"
    /\ a.t \in {"reg", "func", "var"} => a.r = b.r
    /\ a.t \in {"num", "label", "var", "tmp", "ext"} => a.n = b.n
    /\ a.t = "mem" => a.r = b.r /\ a.n = b.n /\ a.size = b.size

(* LIR_is_movop and the other classes of operations.                       *)
MoveByValue == {"NEG", "NOT", "aMOV", "iMOV", "MOVZX", "MOVSX", "phiMOV", "MOVSXD", "fMOV",
                "XCHG", "STARGLD", "STARGRF", "LOADFRET", "LOADFARG"}
MoveOps == MoveByValue \union {"LDREF"}
WriteOps == MoveByValue \union
    {"TI64", "TI32", "TI16", "TI8", "TU64", "TU32", "TU16", "POP",
     "bXOR", "iBRHT", "iBLFT", "bSHL", "bSHR", "bSAR", "bAND", "bOR",
     "iADD", "iSUB", "iMUL", "iDIV", "iMOD", "DIV", "GDREF", "REF_GDREF", "REF"}
ReadOps == WriteOps \union
    {"TST", "CMP", "FRET", "FCLL", "ECLL", "JMP", "PUSH", "LDREF", "VRUSE", "EXITOP"}
SideEffects == {"PUSH", "POP", "FRET", "EXITOP", "LDREF", "FCLL", "ECLL", "SYSC", "phiMOV", "aMOV"}
JumpOps == {"JMP", "JZ", "JNZ", "JL", "JG", "JLE", "JGE", "JE", "JNE", "JB", "JA", "JBE", "JAE"}
-----------------------------------------------------------------------------
(* Words.                                                                  *)
Cut(v, size) == IF v >= Base /\ size >= 4 THEN v ELSE v % 2 ^ Bits[size]
Signed(v, size) ==
    IF v >= Base \/ v < 2 ^ (Bits[size] - 1) THEN v ELSE v - 2 ^ Bits[size]
WriteWord(old, v, size) ==      \* a write of 4 bytes clears the rest of a register
    IF size >= 4 THEN Cut(v, size) ELSE (old - (old % 2 ^ Bits[size])) + Cut(v, size)

(* A state of the machine: registers, flags, memory, the next instruction, *)
(* what was called and how it ended.  A read of what nothing has set gives *)
(* Junk.                                                                   *)
Junk == 2 ^ Bits[8] - 3
Addr(st, x) == IF x.t = "ext" THEN x.n ELSE st.r[x.r] - x.n
Cell(st, a) == IF a \in DOMAIN st.m THEN st.m[a] ELSE Junk
Val(st, x) ==
    CASE x.t \in {"reg", "var"} -> Cut(st.r[x.r], x.size)
      [] x.t \in {"mem", "ext"} -> Cut(Cell(st, Addr(st, x)), x.size)
      [] x.t = "func" -> Base
      [] OTHER -> x.n
Store(st, a, v) == [st EXCEPT !.m = (a :> v) @@ @]
Put(st, x, v) ==
    IF x.t \in {"reg", "var"} THEN [st EXCEPT !.r[x.r] = WriteWord(@, v, x.size)]
    ELSE Store(st, Addr(st, x), Cut(v, x.size))

(* The flags that the comparison of a with b leaves.                       *)
Flags(a, b, size) ==
    [set |-> TRUE, zero |-> Cut(a, size) = Cut(b, size),
     less |-> Signed(Cut(a, size), size) < Signed(Cut(b, size), size),
     below |-> Cut(a, size) < Cut(b, size)]
NoFlags == [set |-> FALSE, zero |-> FALSE, less |-> FALSE, below |-> FALSE]
Condition(cc, f) ==
    CASE cc = "E" -> f.zero
      [] cc = "NE" -> ~f.zero
      [] cc = "L" -> f.less
      [] cc = "GE" -> ~f.less
      [] cc = "LE" -> f.less \/ f.zero
      [] cc = "G" -> ~f.less /\ ~f.zero
      [] cc = "B" -> f.below
      [] cc = "AE" -> ~f.below
      [] cc = "BE" -> f.below \/ f.zero
      [] cc = "A" -> ~f.below /\ ~f.zero
CodeOf ==       \* what a jump or a SETcc asks of the flags
    [JE |-> "E", JZ |-> "E", JNE |-> "NE", JNZ |-> "NE", JL |-> "L", JG |-> "G", JLE |-> "LE",
     JGE |-> "GE", JB |-> "B", JA |-> "A", JBE |-> "BE", JAE |-> "AE",
     SETE |-> "E", STNE |-> "NE", SETL |-> "L", SETG |-> "G", STLE |-> "LE", STGE |-> "GE",
     SETB |-> "B", SETA |-> "A", STBE |-> "BE", STAE |-> "AE"]
SetOps == {"SETE", "STNE", "SETL", "SETG", "STLE", "STGE", "SETB", "SETA", "STBE", "STAE"}

BitAt(v, i) == (v \div 2 ^ i) % 2
Bitwise(op, a, b, size) ==
    LET Bit(i) == CASE op = "bAND" -> BitAt(a, i) * BitAt(b, i)
                    [] op = "bOR" -> IF BitAt(a, i) + BitAt(b, i) > 0 THEN 1 ELSE 0
                    [] op = "bXOR" -> (BitAt(a, i) + BitAt(b, i)) % 2
    IN  FoldLeft(LAMBDA v, i : v + Bit(i - 1) * 2 ^ (i - 1), 0, [i \in 1 .. Bits[size] |-> i])
Binary(op, a, b, size) ==
    CASE op = "iADD" -> a + b
      [] op = "iSUB" -> a - b
      [] op = "iMUL" -> Signed(a, size) * Signed(b, size)
      [] op \in {"bSHL", "iBLFT"} -> a * 2 ^ (b % Bits[size])
      [] op \in {"bSHR", "iBRHT"} -> a \div 2 ^ (b % Bits[size])
      [] op = "bSAR" -> Signed(a, size) \div 2 ^ (b % Bits[size])
      [] OTHER -> Bitwise(op, a, b, size)
BinaryOps == {"iADD", "iSUB", "iMUL", "bSHL", "iBLFT", "bSHR", "iBRHT", "bSAR", "bAND", "bOR", "bXOR"}
FlagsOf(op, a, b, size) ==
    CASE op = "iSUB" -> Flags(a, b, size)
      [] op \in {"bAND", "bOR", "bXOR"} -> Flags(Bitwise(op, a, b, size), 0, size)
      [] OTHER -> NoFlags

(* idiv: RDX:RAX, where cqo has made RDX the sign of RAX; a division that  *)
(* has no result ends the program.                                         *)
Sign(v) == IF v < 0 THEN -1 ELSE 1
Abs(v) == IF v < 0 THEN -v ELSE v
Quotient(a, b) == Sign(a) * Sign(b) * (Abs(a) \div Abs(b))
Divide(st, x) ==
    LET size == x.size
        a == Signed(Cut(st.r["RAX"], size), size)
        b == Signed(Val(st, x), size)
    IN  IF \/ b = 0 \/ Signed(Cut(Quotient(a, b), size), size) # Quotient(a, b)
           \/ Cut(st.r["RDX"], size) # Cut(IF a < 0 THEN -1 ELSE 0, size)
        THEN [st EXCEPT !.end = "trap"]
        ELSE [st EXCEPT !.r["RAX"] = WriteWord(@, Quotient(a, b), size),
                        !.r["RDX"] = WriteWord(@, a - b * Quotient(a, b), size),
                        !.f = NoFlags]
-----------------------------------------------------------------------------
(* One instruction.  env gives the functions that can be called: where     *)
(* they read their arguments, the registers they leave changed, and        *)
(* whether they want the stack aligned.                                    *)
Push(st, v) == [Store(st, st.r["RSP"] - st.word, v) EXCEPT !.r["RSP"] = @ - st.word]
Pop(st, x) == [Put(st, x, Cell(st, st.r["RSP"])) EXCEPT
                   !.r["RSP"] = IF x.t = "reg" /\ x.r = "RSP" THEN @ ELSE @ + st.word]
Result(args) == FoldLeft(LAMBDA s, v : 2 * s + v + 1, 0, args)
Arguments(st, g, sp) ==
    [k \in DOMAIN g.args |-> IF g.args[k].t = "stack" THEN Cut(Cell(st, sp + g.args[k].n), g.args[k].size)
                             ELSE Val(st, g.args[k])]
Pointed(st, v, sp) ==       \* what the callee finds at an address; below sp is its own frame
    IF v < Base THEN v ELSE IF v < sp THEN Junk ELSE Cell(st, v)
Called(st, f, g, sp) ==         \* sp: the stack before the return address
    LET held == Arguments(st, g, sp)
        args == [k \in DOMAIN held |-> Pointed(st, held[k], sp)]
    IN  [st EXCEPT !.out = Append(@, <<f, args>>),
                   !.end = IF g.aligned # 0 /\ (sp - Base) % g.aligned # 0 THEN "unaligned" ELSE @,
                   !.r = [x \in DOMAIN @ |-> IF x = "RAX" THEN Cut(Result(args), st.word)
                                             ELSE IF x \in g.dirty THEN Junk ELSE @[x]],
                   !.f = NoFlags]
Leave(st, naked) ==     \* mov rsp, rbp; pop rbp
    IF naked THEN st ELSE Pop([st EXCEPT !.r["RSP"] = st.r["RBP"]], R("RBP", st.word))
Enter(st, env, frame) ==    \* the frame is made up to a multiple of env.align
    LET up == Push(st, st.r["RBP"])
        words == (frame + env.align - 1) \div env.align
    IN  IF env.naked THEN st
        ELSE [up EXCEPT !.r["RBP"] = up.r["RSP"], !.r["RSP"] = up.r["RSP"] - env.align * words]
Return(st) ==
    [st EXCEPT !.end = IF st.r["RSP"] = st.top THEN "return" ELSE "lost"]
Jump(code, st, x) ==
    LET to == {i \in DOMAIN code : code[i].op = "MKLB" /\ ~code[i].unused /\ Eq(code[i].farg, x)}
    IN  IF to = {} THEN [st EXCEPT !.end = "no label"] ELSE [st EXCEPT !.pc = CHOOSE i \in to : TRUE]

Whole(env, x) == [x EXCEPT !.size = env.word]       \* LDREF_FLAG
Effect(env, code, st, i) ==
    CASE i.op \in {"iMOV", "aMOV", "fMOV", "phiMOV", "MOVZX"} -> Put(st, i.farg, Val(st, i.sarg))
      [] i.op \in {"MOVSX", "MOVSXD"} -> Put(st, i.farg, Signed(Val(st, i.sarg), i.sarg.size))
      [] i.op \in BinaryOps ->
            [Put(st, i.sarg, Binary(i.op, Val(st, i.sarg), Val(st, i.targ), i.sarg.size))
                EXCEPT !.f = FlagsOf(i.op, Val(st, i.sarg), Val(st, i.targ), i.sarg.size)]
      [] i.op \in {"iDIV", "iMOD"} -> Divide(st, i.targ)
      [] i.op \in {"CQO", "CDQ"} ->
            Put(st, R("RDX", env.word), IF Signed(Cut(st.r["RAX"], env.word), env.word) < 0 THEN -1 ELSE 0)
      [] i.op = "NEG" -> Put(st, i.farg, -1 - Val(st, i.farg))
      [] i.op = "CMP" -> [st EXCEPT !.f = Flags(Val(st, i.farg), Val(st, i.sarg), i.farg.size)]
      [] i.op = "TST" -> [st EXCEPT !.f = FlagsOf("bAND", Val(st, i.farg), Val(st, i.sarg), i.farg.size)]
      [] i.op \in SetOps ->
            IF ~st.f.set THEN [st EXCEPT !.end = "no flags"]
            ELSE Put(st, i.farg, IF Condition(CodeOf[i.op], st.f) THEN 1 ELSE 0)
      [] i.op = "JMP" /\ i.farg.t = "label" -> Jump(code, st, i.farg)
      [] i.op = "JMP" /\ i.farg.t = "func" ->
            LET up == Leave(st, env.naked)
            IN  Return(Called(up, i.farg.r, env.fns[i.farg.r], up.r["RSP"] + st.word))
      [] i.op \in JumpOps \ {"JMP"} ->
            IF ~st.f.set THEN [st EXCEPT !.end = "no flags"]
            ELSE IF Condition(CodeOf[i.op], st.f) THEN Jump(code, st, i.farg) ELSE st
      [] i.op = "REF" -> Put(st, i.farg, Addr(st, i.sarg))
      [] i.op = "LDREF" -> Store(st, Val(st, Whole(env, i.farg)), Cut(Val(st, i.sarg), i.targ.n))
      [] i.op = "REF_GDREF" -> Put(st, i.farg, Val(st, i.sarg))
      [] i.op = "GDREF" -> Put(st, i.farg, Cell(st, Val(st, i.sarg)))
      [] i.op = "PUSH" -> Push(st, Val(st, i.farg))
      [] i.op = "POP" -> Pop(st, i.farg)
      [] i.op \in {"FCLL", "ECLL"} -> Called(st, i.farg.r, env.fns[i.farg.r], st.r["RSP"])
      [] i.op = "SYSC" -> Called(st, "syscall", env.fns["syscall"], st.r["RSP"])
      [] i.op = "FDCL" -> Enter(st, env, i.sarg.n)
      [] i.op = "FRET" -> Return(Leave(st, env.naked))
      [] i.op = "EXITOP" -> [st EXCEPT !.end = "exit"]
      [] OTHER -> st        \* labels and what the writer leaves out

(* An instruction of the target names at most one cell of memory, moves    *)
(* between words of one size unless it widens, and reaches an external     *)
(* directly only where env.direct says so.                                 *)
InCell(x) == x.t \in {"mem", "ext"}
Encodable(env, i) ==
    LET a == i.farg   b == i.sarg   c == i.targ
    IN  /\ env.direct \/ i.op = "VRUSE" \/ "ext" \notin {a.t, b.t, c.t}
        /\ CASE i.op \in {"iMOV", "aMOV", "fMOV", "phiMOV"} ->
                    ~IsNum(a) /\ ~(InCell(a) /\ InCell(b)) /\ (~IsReg(a) \/ ~IsReg(b) \/ a.size = b.size)
             [] i.op \in {"MOVSX", "MOVSXD", "MOVZX"} -> IsReg(a) /\ ~IsNum(b) /\ a.size > b.size
             [] i.op \in BinaryOps -> ~IsNum(b) /\ ~(InCell(b) /\ InCell(c))
             [] i.op \in {"CMP", "TST"} -> ~IsNum(a) /\ ~(InCell(a) /\ InCell(b))
             [] i.op \in {"iDIV", "iMOD"} -> ~IsNum(c)
             [] i.op \in {"REF", "REF_GDREF"} -> IsReg(a)
             [] i.op = "GDREF" -> IsReg(a) /\ IsReg(b)
             [] i.op = "LDREF" -> IsReg(a) /\ ~InCell(b)
             [] i.op \in {"PUSH", "POP"} -> i.farg.size = env.word \/ IsNum(i.farg)
             [] OTHER -> TRUE

(* At most 2^n instructions.                                               *)
RECURSIVE Execute(_, _, _, _)
Execute(env, code, st, n) ==
    IF st.end # "run" THEN st
    ELSE IF n > 0 THEN LET half == Execute(env, code, st, n - 1) IN Execute(env, code, half, n - 1)
    ELSE IF st.pc >= Len(code) THEN [st EXCEPT !.end = "off the end"]
    ELSE LET i == code[st.pc + 1]
             on == [st EXCEPT !.pc = @ + 1]
         IN  IF i.unused THEN on
             ELSE IF ~Encodable(env, i) THEN [st EXCEPT !.end = "no such instruction"]
             ELSE Effect(env, code, on, i)

(* What a caller sees of a run: the calls, the result, the memory it knows *)
(* of and the registers it counts on.                                      *)
Machine(env, regs, mem) ==
    [r |-> regs, m |-> mem, f |-> NoFlags, pc |-> 0, out |-> <<>>, end |-> "run",
     top |-> regs["RSP"], word |-> env.word]
Seen(env, st) ==
    [end |-> st.end, out |-> st.out, result |-> st.r[IF st.end = "exit" THEN env.exit ELSE env.result],
     kept |-> [x \in env.kept |-> st.r[x]], mem |-> [a \in env.cells |-> Cell(st, a)]]
Run(env, code, regs, mem, n) == Seen(env, Execute(env, code, Machine(env, regs, mem), n))
=============================================================================
