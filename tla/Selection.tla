-------------------------------- MODULE Selection --------------------------------
(* Instruction selection (src/lir/selector/*/inst.c, misc.c): an operation *)
(* of LIR becomes the instructions of the target, which want some of their *)
(* operands in fixed registers; these are variables bound to a register    *)
(* until register allocation.                                              *)
(*                                                                         *)
(* A function: name, abi, entry, naked, vargs, params (how many), unsigned *)
(* and external (sets of variables); blocks, each with its code and the    *)
(* blocks it goes on to (l, jmp; 0 is none).  env.fns has what is known of *)
(* the functions it calls.                                                 *)
(***************************************************************************)
EXTENDS LirMachine

(* The registers of a target by their use.  The registers of i386 go by    *)
(* the names of the families they belong to.                               *)
GnuTarget ==
    [system |-> "linux64", word |-> 8, args |-> <<"RDI", "RSI", "RDX", "RCX", "R8", "R9">>,
     sys |-> <<"RAX", "RDI", "RSI", "RDX", "R10", "R8", "R9">>, clobbered |-> <<"RCX", "R11">>,
     kept |-> <<"RBX", "R12", "R13", "R14", "R15">>, exit |-> "RDI", product |-> 4, sign |-> "CQO",
     volatile |-> {"RAX", "RCX", "RDX", "RSI", "RDI", "R8", "R9", "R10", "R11"},
     every |-> <<"RBX", "RCX", "RDX", "RSI", "RDI", "RBP",
                 "R8", "R9", "R10", "R11", "R12", "R13", "R14", "R15">>]
MachoTarget == [GnuTarget EXCEPT !.system = "macho64"]
I386Target ==
    [system |-> "i386", word |-> 4, args |-> <<>>,
     sys |-> <<"RAX", "RBX", "RCX", "RDX", "RSI", "RDI", "RBP">>, clobbered |-> <<>>,
     kept |-> <<"RBX", "RSI", "RDI">>, exit |-> "RBX", product |-> 2, sign |-> "CDQ",
     volatile |-> {"RAX", "RCX", "RDX"}, every |-> <<"RBX", "RCX", "RDX", "RSI", "RDI", "RBP">>]

IsTailCall(i) == i.op = "JMP" /\ i.farg.t = "func"
IsSigned(f, x) == ~(x.t = "var" /\ x.r \in f.unsigned)
Frame(f) == IF f.naked THEN 1 ELSE 2      \* words between RBP and the arguments

(* get_proper_mov: b to a of another size.                                 *)
ProperMov(a, b, signed, base) ==
    IF b.t = "num" THEN I2(base, a, b)
    ELSE IF a.size <= b.size THEN I2("iMOV", a, [b EXCEPT !.size = a.size])
    ELSE IF b.size = 4 /\ a.size = 8 THEN I2(IF signed THEN "MOVSXD" ELSE base, a, b)
    ELSE I2(IF signed THEN "MOVSX" ELSE "MOVZX", a, b)

(* _get_abi_argument: the register of an argument, or where RBP finds it.  *)
ArgRegister(T, g, k) ==
    IF (g.vargs /\ ~g.abi) \/ k >= Len(T.args) THEN "" ELSE T.args[k + 1]
ArgOffset(T, g, k) ==
    -T.word * (Frame(g) + (IF g.vargs /\ ~g.abi THEN k ELSE k - Len(T.args)))

(* _get_call_info: the call an argument is for; the function itself when   *)
(* it is none whose name is known.                                         *)
CallAfter(code, k) ==
    LET calls == {j \in k + 1 .. Len(code) : code[j].op \in {"FCLL", "ECLL"} \/ IsTailCall(code[j])}
    IN  IF calls = {} THEN Nul ELSE LET j == CHOOSE j \in calls : \A m \in calls : j <= m IN code[j]
Callee(env, f, call) ==
    IF call # Nul /\ call.farg.t = "func" THEN env.fns[call.farg.r] ELSE f
-----------------------------------------------------------------------------
(* s: out, what is selected so far; n, a number no temporary has; clean,   *)
(* the bytes of arguments on the stack; dirty, the registers saved for     *)
(* arguments; restored, whether the caller's registers are back.           *)
Emit(s, is) == [s EXCEPT !.out = @ \o is, !.n = @ + 4]
PushReg(T, r) == I1("PUSH", R(r, T.word))
PopReg(T, r) == I1("POP", R(r, T.word))

SystemArgument(T, s, i) ==
    LET r == T.sys[i.sarg.n + 1]
        move == I2("aMOV", Tmp(r, s.n, T.word), i.farg)
    IN  IF i.sarg.n >= Len(T.sys) THEN Emit(s, <<i>>)
        ELSE IF r = "RAX" THEN Emit(s, <<move>>)
        ELSE [Emit(s, <<PushReg(T, r), move>>) EXCEPT !.dirty = Append(@, r)]

Argument(T, env, f, code, k, s) ==
    LET i == code[k]
        call == CallAfter(code, k)
        r == ArgRegister(T, Callee(env, f, call), i.sarg.n)
        move == I2("aMOV", Tmp(r, s.n, i.farg.size), i.farg)
    IN  IF r = "" THEN [Emit(s, <<I1("PUSH", i.farg)>>) EXCEPT !.clean = @ + T.word]
        ELSE IF call # Nul /\ IsTailCall(call) THEN Emit(s, <<move>>)
        ELSE [Emit(s, <<PushReg(T, r), move>>) EXCEPT !.dirty = Append(@, r)]

Restored(T, s) == [k \in DOMAIN s.dirty |-> PopReg(T, s.dirty[Len(s.dirty) + 1 - k])]
Call(T, s, i) ==
    LET sp == R("RSP", T.word)
        drop == IF s.clean = 0 THEN <<>> ELSE <<I("iADD", sp, sp, Num(s.clean))>>
    IN  [Emit(s, <<i>> \o Restored(T, s) \o drop) EXCEPT !.dirty = <<>>, !.clean = 0]
SystemCall(T, s, i) ==
    LET saved == [s EXCEPT !.dirty = @ \o T.clobbered]
        saves == [k \in DOMAIN T.clobbered |-> PushReg(T, T.clobbered[k])]
    IN  [Emit(s, saves \o <<i>> \o Restored(T, saved)) EXCEPT !.dirty = <<>>]

EntryArgument(T, f, s, i) ==
    LET first == i.sarg.n = 0
        there == Mem("RBP", -T.word * (IF first THEN 1 ELSE 2), T.word)
        r == Tmp(IF first THEN "RDI" ELSE "RSI", s.n, i.farg.size)
        abi == f.abi /\ T.args # <<>>
    IN  Emit(s, <<I2(IF first THEN "iMOV" ELSE IF abi THEN "REF_GDREF" ELSE "REF",
                     i.farg, IF abi THEN r ELSE there)>>)
Parameter(T, f, s, i) ==
    LET r == ArgRegister(T, f, i.sarg.n)
    IN  Emit(s, <<I2("phiMOV", i.farg, IF r = "" THEN Mem("RBP", ArgOffset(T, f, i.sarg.n), i.farg.size)
                                       ELSE Tmp(r, s.n, i.farg.size))>>)
VariadicPart(T, f, s, i) ==
    Emit(s, <<I2("REF", i.farg, Mem("RBP", -T.word * (Frame(f) + f.params), T.word))>>)

Al == R("RAX", 1)
Negation(s, i) ==
    LET a == Tmp("RAX", s.n, i.sarg.size)
    IN  Emit(s, <<I2("iMOV", a, i.sarg), I2("TST", a, a), I1("SETE", Al), I2("iMOV", i.farg, Al)>>)
Complement(s, i) == Emit(s, <<I2("iMOV", i.farg, i.sarg), I2("NEG", i.farg, i.farg)>>)

Shifts == {"iBRHT", "iBLFT"}
Accumulated == Shifts \union {"bOR", "bXOR", "bAND", "iMUL", "iSUB", "iADD"}
Arithmetic(T, f, s, i) ==
    LET Size(x) == IF i.op = "iMUL" THEN IF i.sarg.size < T.product THEN T.product ELSE i.sarg.size ELSE x.size
        a == Tmp("RAX", s.n, Size(i.sarg))
        e == Tmp("RAX", s.n + 1, Size(i.farg))
        c == Tmp("RCX", s.n + 2, 1)
        op == IF i.op = "iBRHT" /\ IsSigned(f, i.farg) /\ IsSigned(f, i.sarg) THEN "bSAR" ELSE i.op
        count == IF i.op \in Shifts THEN <<I2("iMOV", c, i.targ)>> ELSE <<>>
        y == IF i.op \in Shifts THEN c ELSE i.targ
    IN  IF i.op \notin Shifts /\ i.farg.t = "reg" /\ i.sarg.t = "reg" THEN Emit(s, <<i>>)
        ELSE Emit(s, <<I2("iMOV", a, i.sarg)>> \o count \o <<I(op, e, a, y), I2("iMOV", i.farg, e)>>)

Division(T, s, i) ==
    LET a == Tmp("RAX", s.n, T.word)
        b == Tmp("RCX", s.n + 1, T.word)
        mod == Tmp("RDX", s.n + 2, T.word)
        q == Tmp("RAX", s.n + 3, i.farg.size)
        rest == R("RDX", i.farg.size)
        before == <<I2("iMOV", a, i.sarg), I2("iMOV", b, i.targ), I1("PUSH", mod), I0(T.sign)>>
        ax == R("RAX", i.farg.size)
    IN  Emit(s, before \o
                IF i.op = "iDIV" THEN <<I(i.op, q, a, b), I1("POP", mod), I2("iMOV", i.farg, q)>>
                ELSE <<I(i.op, rest, a, b), I2("iMOV", ax, rest), I1("POP", mod), I2("iMOV", i.farg, ax)>>)

Orders == [iCMP |-> <<"SETE", "SETE">>, iNMP |-> <<"STNE", "STNE">>, iLWR |-> <<"SETL", "SETB">>,
           iLRE |-> <<"STLE", "STBE">>, iLRG |-> <<"SETG", "SETA">>, iLGE |-> <<"STGE", "STAE">>]
Comparison(f, s, i) ==
    LET a == Tmp("RAX", s.n, i.sarg.size)
        set == Orders[i.op][IF IsSigned(f, i.sarg) /\ IsSigned(f, i.targ) THEN 1 ELSE 2]
    IN  Emit(s, <<I2("iMOV", a, i.sarg), I2("CMP", a, i.targ), I1(set, Al), I2("iMOV", i.farg, Al)>>)
ConstantTest(s, i) ==
    LET a == Tmp("RAX", s.n, i.farg.size)
    IN  IF i.farg.t = "var" THEN Emit(s, <<i>>)
        ELSE Emit(s, <<I2("iMOV", a, i.farg), [i EXCEPT !.farg = a]>>)

Leaving(T, f, s, i) ==
    LET exits == i.farg # Nul /\ i.op \in {"EXITOP", "FRET"}
        a == Tmp(IF i.op = "FRET" THEN "RAX" ELSE T.exit, s.n, i.farg.size)
        back == i.op # "EXITOP" /\ f.abi /\ ~f.entry /\ ~s.restored
        pops == [k \in DOMAIN T.kept |-> PopReg(T, T.kept[Len(T.kept) + 1 - k])]
    IN  [Emit(s, (IF exits THEN <<I2("iMOV", a, i.farg)>> ELSE <<>>)
                 \o (IF back THEN pops ELSE <<>>)
                 \o <<IF exits THEN [i EXCEPT !.farg = a] ELSE i>>) EXCEPT !.restored = @ \/ back]

(* _instruction_selection_block: the operations that pass values between   *)
(* functions, and those of the function itself.                            *)
Passes == {"STSARG", "REF_ARGS", "FCLL", "ECLL", "SYSC", "STARGLD", "STFARG", "LOADFARG", "LOADFRET"}
Passing(T, env, f, code, k, s) ==
    LET i == code[k]
    IN  CASE i.op = "STSARG" -> SystemArgument(T, s, i)
          [] i.op = "REF_ARGS" -> VariadicPart(T, f, s, i)
          [] i.op \in {"FCLL", "ECLL"} -> Call(T, s, i)
          [] i.op = "SYSC" -> SystemCall(T, s, i)
          [] i.op = "STARGLD" -> EntryArgument(T, f, s, i)
          [] i.op = "STFARG" -> Argument(T, env, f, code, k, s)
          [] i.op = "LOADFARG" -> Parameter(T, f, s, i)
          [] i.op = "LOADFRET" -> Emit(s, <<I2("iMOV", i.farg, Tmp("RAX", s.n, i.farg.size))>>)
Conversions == {"TI64", "TI32", "TI16", "TI8", "TU64", "TU32", "TU16", "TU8"}
Computing(T, f, s, i) ==
    CASE i.op = "NOT" -> Negation(s, i)
      [] i.op = "NEG" -> Complement(s, i)
      [] i.op \in Accumulated -> Arithmetic(T, f, s, i)
      [] i.op \in {"EXITOP", "FEND", "FRET"} \/ IsTailCall(i) -> Leaving(T, f, s, i)
      [] i.op \in {"iDIV", "iMOD"} -> Division(T, s, i)
      [] i.op = "CMP" -> ConstantTest(s, i)
      [] i.op \in DOMAIN Orders -> Comparison(f, s, i)
      [] i.op \in Conversions -> Emit(s, <<ProperMov(i.farg, i.sarg, IsSigned(f, i.sarg), "iMOV")>>)
      [] OTHER -> Emit(s, <<i>>)

(* x86_64_gnu_nasm_instruction_selection: a function of the ABI keeps the  *)
(* registers of its caller behind its first instruction.                   *)
Selected(T, f, Step(_, _, _)) ==
    LET saves == [k \in DOMAIN T.kept |-> PushReg(T, T.kept[k])]
        Kept(code) == <<code[1]>> \o saves \o Tail(code)
        Code(code, n) ==
            FoldLeft(LAMBDA s, k : Step(code, k, s),
                     [out |-> <<>>, n |-> n, clean |-> 0, dirty |-> <<>>, restored |-> FALSE],
                     [k \in DOMAIN code |-> k]).out
        Of(b, code) == IF b = 1 /\ f.abi /\ ~f.entry THEN Kept(code) ELSE code
    IN  [f EXCEPT !.blocks = [b \in DOMAIN @ |-> [@[b] EXCEPT !.code = Of(b, Code(@, 1000 * b))]]]
-----------------------------------------------------------------------------
(* Mach-O: an external global is read and written through its address,     *)
(* _materialize_external_globals.  n: a number no temporary has.           *)
Writes == {"iMOV", "aMOV", "phiMOV", "fMOV"}
Materialized(i, n) ==
    LET Address(k) == [V("address", 8) EXCEPT !.n = n + k]
        Value(x, k) == [V("value", x.size) EXCEPT !.n = n + k]
        Read(x, k) == IF x.t = "ext" THEN <<I2("iMOV", Address(k), AddressOf(x)), I2("GDREF", Value(x, k), Address(k))>>
                      ELSE <<>>
        Now(x, k) == IF x.t = "ext" THEN Value(x, k) ELSE x
    IN  CASE i.op = "REF" ->
                IF i.sarg.t # "ext" THEN <<i>>
                ELSE <<I2("iMOV", Address(0), AddressOf(i.sarg)), I2("iMOV", i.farg, Address(0))>>
          [] i.op = "REF_GDREF" /\ i.sarg.t = "ext" -> Append(Read(i.sarg, 0), I2("iMOV", i.farg, Now(i.sarg, 0)))
          [] i.op \in {"STSARG", "STFARG"} -> Append(Read(i.farg, 0), [i EXCEPT !.farg = Now(@, 0)])
          [] i.op \in Writes /\ i.farg.t = "ext" ->
                Read(i.sarg, 0) \o <<I2("iMOV", Address(1), AddressOf(i.farg)),
                                     Loads(Address(1), Now(i.sarg, 0), i.farg.size)>>
          [] i.op # "VRUSE" /\ i.op \in ReadOps ->
                LET first == IF i.op \in WriteOps THEN i.farg ELSE Now(i.farg, 0)
                IN  (IF i.op \in WriteOps THEN <<>> ELSE Read(i.farg, 0)) \o Read(i.sarg, 1) \o Read(i.targ, 2)
                    \o <<I(i.op, first, Now(i.sarg, 1), Now(i.targ, 2))>>
          [] OTHER -> <<i>>
=============================================================================
