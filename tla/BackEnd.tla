--------------------------------- MODULE BackEnd ---------------------------------
(* From the LIR of a function to instructions that name registers and      *)
(* memory (src/builder/builder.c): tail calls, instruction selection, a    *)
(* colour for every variable, memory selection, the registers saved around *)
(* calls, and the validation of the memory.  Every step is one call of the *)
(* builder; register allocation promises no more than that variables live  *)
(* at one time have places of their own (RegisterAllocation).              *)
(***************************************************************************)
EXTENDS CopyPropagation

CONSTANTS
    Jobs,       \* the work: target, fns, f, runs, colours, copies (the option)
    Fuel        \* a run of more than 2^Fuel instructions counts as endless

VARIABLES
    job,        \* what is compiled, fixed
    meaning,    \* what its runs show, fixed
    f,          \* the function
    step,       \* the next step of the builder
    order       \* of the two successors of a block in its hashed set
vars == <<job, meaning, f, step, order>>

Target(name) == CASE name = "gnu" -> GnuTarget [] name = "macho" -> MachoTarget [] OTHER -> I386Target
Flat(g) == FlattenSeq([b \in DOMAIN g.blocks |-> g.blocks[b].code])
-----------------------------------------------------------------------------
(* What an operation of LIR means: variables are values of their own, a    *)
(* call takes the arguments given to it since the last.                    *)
Named == [iCMP |-> <<"E", "E">>, iNMP |-> <<"NE", "NE">>, iLWR |-> <<"L", "B">>,
          iLRE |-> <<"LE", "BE">>, iLRG |-> <<"G", "A">>, iLGE |-> <<"GE", "AE">>]
Held(st) == [k \in 1 .. Cardinality(DOMAIN st.args) |-> st.args[k - 1]]
Answer(st, name) ==
    LET seen == [k \in DOMAIN Held(st) |-> Pointed(st, Held(st)[k], 0)]
    IN  [st EXCEPT !.out = Append(@, <<name, seen>>), !.args = << >>,
                   !.r["RAX"] = Cut(Result(seen), st.word)]
Means(g, code, st, i) ==
    LET x == Val(st, i.sarg)
        y == Val(st, i.targ)
        size == i.sarg.size
        signed == IsSigned(g, i.sarg)
        a == Signed(x, size)
        b == Signed(y, i.targ.size)
    IN  CASE i.op \in {"STFARG", "STSARG"} -> [st EXCEPT !.args = (i.sarg.n :> Val(st, i.farg)) @@ @]
          [] i.op \in {"FCLL", "ECLL"} -> Answer(st, i.farg.r)
          [] i.op = "SYSC" -> Answer(st, "syscall")
          [] i.op = "LOADFRET" -> Put(st, i.farg, st.r["RAX"])
          [] i.op \in {"LOADFARG", "STARGLD"} -> Put(st, i.farg, st.given[i.sarg.n + 1])
          [] i.op = "iBRHT" /\ signed -> Put(st, i.farg, Binary("bSAR", x, y, size))
          [] i.op \in BinaryOps -> Put(st, i.farg, Binary(i.op, x, y, size))
          [] i.op \in {"iDIV", "iMOD"} ->
                IF b = 0 \/ Signed(Cut(Quotient(a, b), st.word), st.word) # Quotient(a, b)
                THEN [st EXCEPT !.end = "trap"]
                ELSE Put(st, i.farg, IF i.op = "iDIV" THEN Quotient(a, b) ELSE a - b * Quotient(a, b))
          [] i.op \in DOMAIN Named ->
                LET cc == Named[i.op][IF signed /\ IsSigned(g, i.targ) THEN 1 ELSE 2]
                IN  Put(st, i.farg, IF Condition(cc, Flags(x, y, size)) THEN 1 ELSE 0)
          [] i.op = "NOT" -> Put(st, i.farg, IF x = 0 THEN 1 ELSE 0)
          [] i.op = "NEG" -> Put(st, i.farg, -1 - x)
          [] i.op \in Conversions -> Put(st, i.farg, IF signed THEN a ELSE x)
          [] i.op = "FDCL" -> st
          [] i.op \in {"FRET", "EXITOP"} ->
                [st EXCEPT !.end = IF i.op = "FRET" THEN "return" ELSE "exit",
                           !.r["RAX"] = IF i.farg = Nul THEN 0 ELSE Val(st, i.farg)]
          [] OTHER -> Effect([naked |-> TRUE, word |-> st.word], code, st, i)
RECURSIVE Meant(_, _, _, _)
Meant(g, code, st, n) ==
    IF st.end # "run" THEN st
    ELSE IF n > 0 THEN LET half == Meant(g, code, st, n - 1) IN Meant(g, code, half, n - 1)
    ELSE Means(g, code, [st EXCEPT !.pc = @ + 1], code[st.pc + 1])

(* What the outside sees of a run: how it ends, the calls, the result and  *)
(* the external variables.  A variable whose address is taken lives in a   *)
(* cell of its own.                                                        *)
Externals(j) == {x.n : x \in {y \in UNION {Args(Flat(j.f)[k]) : k \in DOMAIN Flat(j.f)} : y.t = "ext"}}
Outside(j, st, result) ==
    IF st.end \in {"return", "exit"}
    THEN [end |-> st.end, out |-> st.out, result |-> IF j.gives THEN result ELSE 0,
          mem |-> [a \in Externals(j) |-> Cell(st, a)]]
    ELSE [end |-> st.end, out |-> st.out, result |-> 0, mem |-> << >>]
MeaningOf(j) ==
    LET T == Target(j.target)
        Own(x) == IF x.t = "var" /\ x.r \in j.f.taken THEN Ext(x.r, 3 * Base, x.size) ELSE x
        code == [k \in DOMAIN Flat(j.f) |-> EachArg(Flat(j.f)[k], Own)]
        regs == [x \in {v[1] : v \in ToSet(Vars(j.f))} \union {"RAX", "RSP"} |-> 0]
        Start(run) == [args |-> << >>, given |-> run.given] @@ Machine([word |-> T.word], regs, run.mem)
        End(run) == Meant(j.f, code, Start(run), Fuel)
    IN  [k \in DOMAIN j.runs |-> Outside(j, End(j.runs[k]), End(j.runs[k]).r["RAX"])]

(* The same of the instructions: parameters are in registers or on the     *)
(* stack, and a function of the ABI leaves the registers of its caller.    *)
Top(T) == Base + 40 * T.word + (IF T.word = 8 THEN 8 ELSE 4)
Start(T, g, run) ==
    LET stack == [k \in DOMAIN run.given |->
                    Top(T) + T.word * (IF g.entry THEN k - 1 ELSE IF T.args = <<>> THEN k ELSE k - Len(T.args))]
        InReg(k) == ~g.entry /\ ArgRegister(T, g, k - 1) # ""
        regs == [x \in ToSet(T.every) \union {"RAX"} |->
                    IF \E k \in DOMAIN run.given : InReg(k) /\ T.args[k] = x
                    THEN run.given[CHOOSE k \in DOMAIN run.given : InReg(k) /\ T.args[k] = x] ELSE 9]
        there == {k \in DOMAIN run.given : ~InReg(k)}
    IN  [r |-> regs @@ [RSP |-> Top(T)],
         m |-> [a \in {stack[k] : k \in there} |-> run.given[CHOOSE k \in there : stack[k] = a]] @@ run.mem]
RunOf(j, g) ==
    LET T == Target(j.target)
        env == [fns |-> j.fns, naked |-> ~HasFrame(g)] @@ AssemblyFor(j.target)
        code == Flat(g)
        keeps == IF g.abi THEN ToSet(T.kept) ELSE {}
        End(s) == Execute(env, code, Machine(env, s.r, s.m), Fuel)
        Kept(s, st) == \A x \in keeps \union {"RBP"} : st.r[x] = s.r[x]
        Shown(s, st) == IF st.end = "return" /\ ~Kept(s, st) THEN [end |-> "registers lost"]
                        ELSE Outside(j, st, st.r[IF st.end = "exit" THEN T.exit ELSE "RAX"])
    IN  [k \in DOMAIN j.runs |-> LET s == Start(T, g, j.runs[k]) IN Shown(s, End(s))]
-----------------------------------------------------------------------------
(* LIR_FUNC_perform_tco: the call a function ends with becomes a jump,     *)
(* unless it may be given an address in the frame.  shared: the variables  *)
(* that may hold one.                                                      *)
System == {"ENDSCOPE", "FEND", "SETPOS"}
LastOf(code, k) ==      \* _get_previous_non_system
    LET real == {j \in 1 .. k : code[j].op \notin System}
    IN  IF real = {} THEN 0 ELSE CHOOSE j \in real : \A m \in real : m <= j
BeforeReturn(code, last, load) ==      \* the call whose result is returned
    IF code[last].farg = Nul THEN load
    ELSE IF load # 0 /\ code[load].op = "LOADFRET" /\ Eq(code[last].farg, code[load].farg)
         THEN LastOf(code, load - 1) ELSE 0
CallAtEnd(code, last) ==
    IF last = 0 THEN 0
    ELSE IF code[last].op = "FRET" THEN BeforeReturn(code, last, LastOf(code, last - 1)) ELSE last
MayJump(T, fns, g, code, call) ==
    LET given == {k \in 1 .. call : code[k].op = "STFARG" /\ \A j \in k .. call - 1 : ~IsCall(code[j])}
        callee == fns[code[call].farg.r]
    IN  /\ call # 0 /\ IsCall(code[call]) /\ code[call].farg.t = "func"
        /\ \A k \in given : code[k].farg.t = "var" => code[k].farg.r \notin g.shared
        /\ ~callee.vargs /\ callee.naked = g.naked
        /\ Cardinality(given) <= Len(T.args)
JumpAt(T, fns, g, code, call) ==
    IF MayJump(T, fns, g, code, call)
    THEN Append(SubSeq(code, 1, call - 1), [code[call] EXCEPT !.op = "JMP"]) ELSE code
TailCalls(T, fns, g) ==
    LET Jumps(code) == JumpAt(T, fns, g, code, CallAtEnd(code, LastOf(code, Len(code))))
    IN  IF g.entry THEN g
        ELSE [g EXCEPT !.blocks = [b \in DOMAIN @ |->
                [@[b] EXCEPT !.code = IF g.blocks[b].l = 0 /\ g.blocks[b].jmp = 0 THEN Jumps(@) ELSE @]]]
-----------------------------------------------------------------------------
(* Which colours a variable may have: not one of a variable that is live   *)
(* where it is written (RegisterAllocation).                               *)
Objects(xs) == {Object(x) : x \in {y \in xs : y.t \in {"var", "tmp"}}}
Uses(i) == Objects(IF i.op \in WriteOps THEN {i.sarg, i.targ} ELSE Args(i))
Defs(i) == IF i.op \in WriteOps THEN Objects({i.farg}) ELSE {}
After(code, k) ==
    LET To(x) == {j \in DOMAIN code : code[j].op = "MKLB" /\ Eq(code[j].farg, x)}
    IN  (IF code[k].op \in {"JMP", "FRET", "EXITOP"} THEN {} ELSE {k + 1} \intersect DOMAIN code)
        \union (IF code[k].op \in JumpOps THEN To(code[k].farg) ELSE {})
LiveAfter(code) ==
    LET Grow(live) == FoldLeft(LAMBDA s, k :
            [s EXCEPT ![Len(code) + 1 - k] =
                UNION {Uses(code[j]) \union (s[j] \ Defs(code[j])) : j \in After(code, Len(code) + 1 - k)}],
            live, [k \in DOMAIN code |-> k])
    IN  Grow(Grow([k \in DOMAIN code |-> {}]))
Proper(code, live, taken, colour) ==
    LET Of(v) == IF v \in DOMAIN colour THEN colour[v] ELSE v[1]
        Clash(a, b) == Of(a) # "" /\ (Of(a) = Of(b) \/ {Of(a), Of(b)} = {"RAX", "RCX"})
    IN  /\ \A v \in DOMAIN colour : v[1] \in taken => colour[v] = ""
        /\ \A k \in DOMAIN code : \A v \in Defs(code[k]) : \A w \in live[k] \ {v} :
                (v \in DOMAIN colour \/ w \in DOMAIN colour) => ~Clash(v, w)
-----------------------------------------------------------------------------
Init ==
    /\ job \in Jobs /\ meaning = MeaningOf(job)
    /\ f = job.f /\ step = "tail"
    /\ order \in (IF Len(job.f.blocks) = 1 THEN {"l"} ELSE {"l", "jmp"})
Goes(from, to, g) == step = from /\ f' = g /\ step' = to /\ UNCHANGED <<job, meaning, order>>
TailCall == Goes("tail", "copies", TailCalls(Target(job.target), job.fns, f))
PropagateVariables == Goes("copies", "select", IF job.copies THEN WithoutUnused(VariablesPropagated(f)) ELSE f)
SelectInstructions ==
    Goes("select", "place", SelectedFor(job.target, [fns |-> job.fns], f))
SelectMemory ==
    LET code == Flat(f)
        live == LiveAfter(code)
        names == ToSet(Vars(f))
    IN  \E colour \in [names -> job.colours \union {""}] :
            /\ Proper(code, live, f.taken, colour)
            /\ Goes("place", "registers", PlacedFor(job.target, f, colour))
PropagateRegisters == Goes("registers", "save", IF job.copies THEN RegistersPropagated(f) ELSE f)
SaveRegisters == Goes("save", "validate", SavedFor(job.target, job.fns, f, order))
Validate == Goes("validate", "done", FinalFor(job.target, job.fns, f))
Next ==
    \/ TailCall \/ PropagateVariables \/ SelectInstructions
    \/ SelectMemory \/ PropagateRegisters \/ SaveRegisters \/ Validate
Spec == Init /\ [][Next]_vars
-----------------------------------------------------------------------------
(* What comes out of the back end does what the LIR of the function means: *)
(* it makes the same calls with the same arguments, returns the same       *)
(* result, leaves the same in the external variables, keeps the registers  *)
(* it owes its caller, and calls functions of the ABI on an aligned stack. *)
KeepsMeaning == step = "done" => RunOf(job, f) = meaning
=============================================================================
