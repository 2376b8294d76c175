-------------------------------- MODULE Placement --------------------------------
(* Memory selection and the validation of what it leaves                   *)
(* (src/lir/selector/*/mem.c): every variable gets the register of its     *)
(* colour or a slot of the frame, operands no instruction of the target    *)
(* takes go through a register nothing lives in, and the stack is aligned  *)
(* where a function of the ABI is called.                                  *)
(***************************************************************************)
EXTENDS Selection

GnuColours == <<"RCX", "RDX", "RBX", "RSI", "RDI", "R8", "R9", "R10", "R11", "R12", "R13", "R14">>
I386Colours == <<"RBX", "RDX">>
GnuScratch == [push |-> "R15", ref |-> "R15", move |-> "R15", at |-> "RAX"]
I386Scratch == [push |-> "RCX", ref |-> "RDI", move |-> "RCX", at |-> "RAX"]

Object(x) == <<x.r, x.n>>
Vars(f) ==      \* in the order they are met
    LET Met(i) == <<i.farg, i.sarg, i.targ>>
        code == FlattenSeq([b \in DOMAIN f.blocks |-> f.blocks[b].code])
        met == SelectSeq(FlattenSeq([k \in DOMAIN code |-> Met(code[k])]), LAMBDA x : x.t = "var")
        IsFirst(k) == \A j \in 1 .. k - 1 : Object(met[j]) # Object(met[k])
        firsts == SelectSeq([k \in DOMAIN met |-> k], IsFirst)
    IN  [n \in DOMAIN firsts |-> Object(met[firsts[n]])]
EachArg(i, F(_)) == [i EXCEPT !.farg = F(@), !.sarg = F(@), !.targ = F(@)]
EachCode(f, F(_)) == [f EXCEPT !.blocks = [b \in DOMAIN @ |-> [@[b] EXCEPT !.code = F(@)]]]
EachInstruction(code, F(_)) == FlattenSeq([k \in DOMAIN code |-> F(code[k])])

(* _update_subject_memory, x86_64_gnu_nasm_memory_selection: colour gives  *)
(* the register of a variable, "" for one that has none.  A function whose *)
(* frame nothing uses has none.                                            *)
Placed(T, f, colour) ==
    LET spilled == SelectSeq(Vars(f), LAMBDA v : colour[v] = "")
        Slot(v) == T.word * CHOOSE k \in DOMAIN spilled : spilled[k] = v
        Place(x) == CASE x.t = "tmp" -> R(x.r, x.size)
                      [] x.t = "var" /\ colour[Object(x)] # "" -> R(colour[Object(x)], x.size)
                      [] x.t = "var" -> Mem("RBP", Slot(Object(x)), x.size)
                      [] OTHER -> x
        placed == EachCode(f, LAMBDA code : [k \in DOMAIN code |-> EachArg(code[k], Place)])
        InMemory(i) == "mem" \in {i.farg.t, i.sarg.t, i.targ.t}
        uses == \E b \in DOMAIN f.blocks : \E k \in DOMAIN f.blocks[b].code :
                    InMemory(placed.blocks[b].code[k])
        frame == IF spilled # <<>> \/ uses THEN T.word * Len(spilled) ELSE -1
    IN  [name |-> f.name, abi |-> f.abi, entry |-> f.entry, vargs |-> f.vargs, naked |-> f.naked,
         frame |-> frame, blocks |->
            [b \in DOMAIN f.blocks |->
                [placed.blocks[b] EXCEPT !.code =
                    [k \in DOMAIN @ |-> IF @[k].op = "FDCL" THEN [@[k] EXCEPT !.sarg = Num(frame)] ELSE @[k]]]]]
HasFrame(f) == ~f.naked /\ f.frame >= 0
-----------------------------------------------------------------------------
(* _validate_selected_instuction, x86_64.                                  *)
Moving == {"MOVSX", "MOVZX", "phiMOV", "MOVSXD", "iMOV", "aMOV", "fMOV"}
ThroughScratch(S, i) ==
    LET ref == R(S.ref, IF i.farg.size > 4 THEN 8 ELSE i.farg.size)
        move == R(S.move, i.farg.size)
    IN  CASE i.op \in {"REF", "REF_GDREF"} /\ ~IsReg(i.farg) ->
                LET r == R(S.ref, i.sarg.size) IN <<I2(i.op, r, i.sarg), I2("iMOV", i.farg, r)>>
          [] i.op \in Moving /\ ~IsReg(i.farg) /\ ~IsNum(i.sarg) ->
                <<I2(i.op, move, i.sarg), I2("iMOV", i.farg, move)>>
          [] i.op = "LDREF" ->
                LET at == R(S.at, i.farg.size)
                    value == R(S.move, i.sarg.size)
                    far == ~IsReg(i.farg)
                    memory == ~IsReg(i.sarg) /\ ~IsNum(i.sarg)
                    x == IF memory THEN value ELSE i.sarg
                IN  (IF far THEN <<I2("iMOV", at, i.farg)>> ELSE <<>>)
                    \o (IF memory THEN <<I2("iMOV", value, i.sarg)>> ELSE <<>>)
                    \o <<I("LDREF", IF far THEN at ELSE i.farg,
                           IF IsReg(x) THEN [x EXCEPT !.size = i.targ.n] ELSE x, i.targ)>>
          [] i.op = "GDREF" /\ ~(IsReg(i.farg) /\ i.sarg.t # "mem") ->
                LET at == R(S.move, i.sarg.size)
                IN  <<I2("iMOV", at, i.sarg), I2("GDREF", move, at), I2("iMOV", i.farg, move)>>
          [] OTHER -> <<i>>
PushedWord(x, r) == ProperMov(R(r, 8), x, TRUE, "iMOV")     \* _create_push_arg_mov
GnuValid(i) ==
    LET word == R(GnuScratch.push, 8)
    IN  CASE i.op = "PUSH" /\ i.farg.size # 8 ->
                <<PushedWord(i.farg, GnuScratch.push), I1("PUSH", word)>>
          [] i.op = "POP" /\ i.farg.size # 8 ->
                <<I1("POP", word), I2("iMOV", i.farg, R(GnuScratch.push, i.farg.size))>>
          [] OTHER -> ThroughScratch(GnuScratch, i)
I386Valid(i) ==
    IF i.op = "PUSH" /\ IsNum(i.farg)
    THEN LET word == R(I386Scratch.push, IF i.farg.size < 2 THEN 2 ELSE i.farg.size)
         IN  <<I2("iMOV", word, i.farg), I1("PUSH", word)>>
    ELSE ThroughScratch(I386Scratch, i)

(* _validate_size_movs                                                     *)
Sized(i) ==
    IF i.op \in {"iMOV", "aMOV", "fMOV", "phiMOV"} /\ i.farg.t # "mem" /\ ~IsNum(i.sarg)
    THEN ProperMov(i.farg, i.sarg, TRUE, i.op) ELSE i
Validated(f, Valid(_)) ==
    LET Based(x) == IF f.naked /\ x.t = "mem" /\ x.r = "RBP" THEN [x EXCEPT !.r = "RSP"] ELSE x
        Fixed(i) == LET is == Valid(i) IN [k \in DOMAIN is |-> EachArg(Sized(is[k]), Based)]
    IN  EachCode(f, LAMBDA code : EachInstruction(code, Fixed))
-----------------------------------------------------------------------------
(* _validate_stack_alignment: where a function that needs its stack        *)
(* aligned is called, the words between its arguments and what was pushed  *)
(* before them change places, and one word fills the gap.                  *)
Sp(T) == R("RSP", T.word)
Moved(T, i, op) ==      \* _rsp_adjustment_value
    IF i.op = op /\ i.sarg = Sp(T) /\ IsNum(i.targ) THEN i.targ.n ELSE 0
Delta(T, i) ==
    CASE i.op = "PUSH" -> T.word
      [] i.op = "POP" -> -T.word
      [] OTHER -> Moved(T, i, "iSUB") - Moved(T, i, "iADD")
Cleanup(T, code, k) ==      \* _post_call_stack_arg_cleanup
    LET Saved(j) == code[j].op = "POP" /\ IsReg(code[j].farg) /\ code[j].farg.r \in ToSet(T.args)
        last == CHOOSE j \in k .. Len(code) :
                    /\ \A m \in k + 1 .. j : Saved(m)
                    /\ j < Len(code) => ~Saved(j + 1)
    IN  [saved |-> last - k, at |-> last + 1,
         bytes |-> IF last < Len(code) THEN Moved(T, code[last + 1], "iADD") ELSE 0]
SlotSwap(T, a, b) ==
    LET Slot(n) == Mem("RSP", -n * T.word, T.word)
        ax == R("RAX", T.word)
        r11 == R("R11", T.word)
    IN  <<I2("iMOV", ax, Slot(a)), I2("iMOV", r11, Slot(b)),
          I2("iMOV", Slot(a), r11), I2("iMOV", Slot(b), ax)>>
Reordered(T, slots, args) ==
    FlattenSeq([a \in 1 .. args |->
        FlattenSeq([k \in 1 .. slots |-> SlotSwap(T, slots + a - k, slots + a - k - 1)])])
Shifted(T, args) ==     \* _insert_stack_arg_shift, i386
    LET cx == R("RCX", T.word)
    IN  FlattenSeq([a \in 1 .. args |->
            <<I2("iMOV", cx, Mem("RSP", -a * T.word, T.word)),
              I2("iMOV", Mem("RSP", -(a - 1) * T.word, T.word), cx)>>])
Down(T, n) == IF n = 0 THEN <<>> ELSE <<I("iSUB", Sp(T), Sp(T), Num(n))>>
Up(T, n) == IF n = 0 THEN <<>> ELSE <<I("iADD", Sp(T), Sp(T), Num(n))>>

(* s: out, the code so far; depth, the bytes below the frame; dropped, the *)
(* place of a cleanup that is done at the call.                            *)
AlignCall(T, code, k, s) ==
    LET c == Cleanup(T, code, k)
        padding == IF s.depth % (2 * T.word) # 0 THEN T.word ELSE 0
        reorder == T.args # <<>> /\ c.saved > 0 /\ c.bytes > 0
        args == c.bytes \div T.word
        moves == IF T.args = <<>> THEN IF padding = 0 THEN <<>> ELSE Shifted(T, args)
                 ELSE IF padding = 0 /\ ~reorder THEN <<>>
                 ELSE Reordered(T, c.saved + padding \div T.word, args)
        after == padding + (IF reorder THEN c.bytes ELSE 0)
    IN  [out |-> s.out \o Down(T, padding) \o moves \o <<code[k]>> \o Up(T, after),
         depth |-> s.depth + padding - after,
         dropped |-> IF reorder THEN c.at ELSE s.dropped]
AlignedCode(T, wants, code, depth) ==       \* wants: the functions that need it
    FoldLeft(LAMBDA s, k :
                IF k = s.dropped THEN s
                ELSE IF code[k].op \in {"FCLL", "ECLL"} /\ code[k].farg.r \in wants
                     THEN AlignCall(T, code, k, s)
                     ELSE [s EXCEPT !.out = Append(@, code[k]), !.depth = @ + Delta(T, code[k])],
             [out |-> <<>>, depth |-> depth, dropped |-> 0], [k \in DOMAIN code |-> k])
Aligned(T, wants, f) ==
    LET words == IF f.frame >= 0 THEN 2 * T.word * ((f.frame + 2 * T.word - 1) \div (2 * T.word)) ELSE T.word
        Depth(done, b) ==       \* of the block it is reached from first
            IF b = 1 THEN words
            ELSE done[CHOOSE a \in DOMAIN done : b \in {f.blocks[a].l, f.blocks[a].jmp}].depth
        done == FoldLeft(LAMBDA s, b : Append(s, AlignedCode(T, wants, f.blocks[b].code, Depth(s, b))),
                         <<>>, [b \in DOMAIN f.blocks |-> b])
    IN  IF f.naked THEN f
        ELSE [f EXCEPT !.blocks = [b \in DOMAIN @ |-> [@[b] EXCEPT !.code = done[b].out]]]
-----------------------------------------------------------------------------
(* The registers of the caller around a call (selector/*/caller_saving.c): *)
(* those the callee may write and the caller reads afterwards are pushed   *)
(* before the arguments are loaded and popped behind the call.             *)

(* Of a function that is called: known (it has a body), abi, writes (the   *)
(* registers its body writes), calls (the functions, "" for a pointer).    *)

(* _collect_in_function_reg_usage: of a function and what it calls.        *)
Reached(fns, f) ==
    FoldLeft(LAMBDA s, n : s \union UNION {fns[g].calls \ {""} : g \in s}, {f}, [n \in 1 .. 4 |-> n])
InFunction(T, fns, f) ==
    UNION {IF ~fns[g].known THEN IF fns[g].abi THEN T.volatile ELSE ToSet(T.every)
           ELSE fns[g].writes \union (IF "" \in fns[g].calls THEN ToSet(T.every) ELSE {}) : g \in Reached(fns, f)}

(* _collect_local_out_function_reg_usage: dirty registers read before they *)
(* are written.  A block met before is read beyond its jump.               *)
Args(i) == {i.farg, i.sarg, i.targ}
Names(xs) == {x.r : x \in {y \in xs : IsReg(y)}}
Local(code, from, dirty, again) ==
    FoldLeft(LAMBDA s, k :
                LET i == code[k]
                    writes == i.op \in WriteOps
                    left == IF writes /\ IsReg(i.farg) /\ ~Eq(i.farg, i.sarg) THEN s.dirty \ {i.farg.r} ELSE s.dirty
                    reads == Names(IF writes THEN {i.sarg, i.targ} ELSE Args(i))
                IN  IF s.stop THEN s
                    ELSE [dirty |-> left, save |-> s.save \union (reads \cap left), stop |-> i.op = "JMP" /\ ~again],
             [dirty |-> dirty, save |-> {}, stop |-> FALSE], [k \in 1 .. Len(code) - from + 1 |-> from + k - 1])

(* _collect_out_function_reg_usage: the set of visited blocks is shared by *)
(* all paths; order gives which of two blocks comes first.                 *)
RECURSIVE Out(_, _, _, _, _, _)
Out(f, order, b, from, dirty, s) ==     \* s: what to save, the blocks visited
    IF b = 0 \/ dirty = {} THEN s
    ELSE LET here == Local(f.blocks[b].code, from, dirty, b \in s.visited)
             now == [save |-> s.save \union here.save, visited |-> s.visited \union {b}]
             next == IF order = "l" THEN <<f.blocks[b].l, f.blocks[b].jmp>>
                     ELSE <<f.blocks[b].jmp, f.blocks[b].l>>
         IN  IF b \in s.visited THEN now
             ELSE Out(f, order, next[2], 1, here.dirty, Out(f, order, next[1], 1, here.dirty, now))

(* _find_pre_argload: the instruction before the first that loads an       *)
(* argument of the call at k.                                              *)
ToArgument(T, i) == i.op \in MoveOps /\ IsReg(i.farg) /\ i.farg.r \in ToSet(T.args)
PreLoad(T, code, k) ==
    LET Skips(i, last) == \/ i.op = "PUSH"
                          \/ last = Nul /\ ToArgument(T, i)
                          \/ last # Nul /\ i.op \in MoveOps /\ Eq(last, i.farg)
    IN  FoldLeft(LAMBDA s, j :
                    LET i == code[k - j]
                    IN  IF s.done THEN s
                        ELSE IF ~Skips(i, s.last) THEN [s EXCEPT !.done = TRUE]
                        ELSE [s EXCEPT !.at = @ - 1,
                                       !.last = IF i.op = "PUSH" THEN i.farg
                                                ELSE IF @ # Nul THEN Nul ELSE @],
                 [at |-> k - 1, last |-> Nul, done |-> FALSE], [j \in 1 .. k - 1 |-> j]).at

(* _find_post_argunload: the instruction behind the last that brings back  *)
(* an argument pushed after pre; 0 when there is none before the exit.     *)
PostUnloadFirst(T, code, k, pre) == IF k < Len(code) THEN k + 1 ELSE 0     \* wrong: at once behind the call
PostUnload(T, code, k, pre) ==
    LET Saves(i) == i.op = "PUSH" /\ IsReg(i.farg) /\ i.farg.r \in ToSet(T.args)
        pops == Cardinality({j \in pre + 1 .. k - 1 : Saves(code[j])})
        found == FoldLeft(LAMBDA s, j :
                        IF s.done THEN s
                        ELSE IF code[j].op = "POP" /\ s.pops > 0 THEN [s EXCEPT !.at = @ + 1, !.pops = @ - 1]
                        ELSE IF code[j].op = "iADD" THEN [s EXCEPT !.at = @ + 1]
                        ELSE [s EXCEPT !.done = TRUE],
                    [at |-> k + 1, pops |-> pops, done |-> FALSE],
                    [j \in 1 .. Len(code) - k - 1 |-> k + j])
    IN  IF found.done THEN found.at ELSE 0

(* The registers to save at the call at k of block b.                      *)
ToSave(T, fns, f, order, b, k) ==
    LET dirty == InFunction(T, fns, f.blocks[b].code[k].farg.r)
        all == f.blocks[b].jmp # 0
        read == Out(f, order, b, k + 1, dirty, [save |-> {}, visited |-> {}]).save
    IN  (read \union (IF all THEN dirty ELSE {})) \ {"RAX", "RSP", "RBP"}
SavedAt(T, f, b, k, regs) ==
    LET code == f.blocks[b].code
        pre == PreLoad(T, code, k)
        post == PostUnload(T, code, k, pre)
        Pushes == [n \in DOMAIN regs |-> PushReg(T, regs[n])]
        pops == IF post = 0 THEN <<>> ELSE [n \in DOMAIN regs |-> PopReg(T, regs[Len(regs) + 1 - n])]
        upto == IF post = 0 THEN Len(code) ELSE post - 1
    IN  [f EXCEPT !.blocks[b].code =
            SubSeq(code, 1, pre) \o Pushes \o SubSeq(code, pre + 1, upto) \o pops
            \o SubSeq(code, upto + 1, Len(code))]

(* The calls of a block in order: what is pushed for one moves the next.   *)
IsCall(i) == i.op \in {"FCLL", "ECLL"}
Saved(T, f, Regs(_, _, _)) ==       \* Regs: what to save at a call
    LET Calls(g, b) == SelectSeq([k \in DOMAIN g.blocks[b].code |-> k],
                                 LAMBDA k : IsCall(g.blocks[b].code[k]))
        One(g, b, n) == LET k == Calls(g, b)[n]
                            regs == Regs(g, b, k)
                        IN  SavedAt(T, g, b, k, SelectSeq(T.every, LAMBDA r : r \in regs))
        Block(g, b) == FoldLeft(LAMBDA h, n : One(h, b, n), g, [n \in DOMAIN Calls(g, b) |-> n])
    IN  FoldLeft(Block, f, [b \in DOMAIN f.blocks |-> b])

(* _search_for_broken_funcs                                                *)
Broken(fns) == {f \in DOMAIN fns : \E g \in Reached(fns, f) : fns[g].abi}
-----------------------------------------------------------------------------
(* The three targets (src/lir/selector/x86_64_gnu_nasm, x86_64_macho_nasm, *)
(* i386_gnu_nasm).  Each has a copy of its own of the selection of         *)
(* instructions and of memory, of the saving of registers around calls and *)
(* of the validation; here they share what their copies have in common.    *)
GnuSelected(env, f) ==
    Selected(GnuTarget, f, LAMBDA code, k, s :
        IF code[k].op \in Passes THEN Passing(GnuTarget, env, f, code, k, s)
        ELSE Computing(GnuTarget, f, s, code[k]))
GnuPlaced(f, colour) == Placed(GnuTarget, f, colour)
GnuSaved(fns, f, order) ==
    Saved(GnuTarget, f, LAMBDA g, b, k : ToSave(GnuTarget, fns, g, order, b, k))
GnuFinal(fns, f) == Aligned(GnuTarget, Broken(fns), Validated(f, GnuValid))     \* memory_validation
GnuAssembly == [word |-> 8, align |-> 16, direct |-> TRUE]      \* what the machine runs
-----------------------------------------------------------------------------
(* Mach-O: the operands that are external globals are taken apart first,   *)
(* and what is put behind an operation is read again.                      *)
MachoPassing(env, f, code, k, s) == Passing(MachoTarget, env, f, code, k, s)
MachoComputing(f, s, i) ==
    LET r == Computing(MachoTarget, f, s, i)
    IN  IF i.op \in Accumulated \union {"iDIV", "iMOD"} \union DOMAIN Orders
        THEN [r EXCEPT !.out = Front(@) \o Materialized(Last(@), r.n), !.n = @ + 4]
        ELSE r
MachoSelected(env, f) ==
    LET All(code, b) == FlattenSeq([k \in DOMAIN code |-> Materialized(code[k], 1000 * b + 500 + 4 * k)])
    IN  Selected(MachoTarget, [f EXCEPT !.blocks = [b \in DOMAIN @ |-> [@[b] EXCEPT !.code = All(@, b)]]],
                 LAMBDA code, k, s :
                     IF code[k].op \in Passes THEN MachoPassing(env, f, code, k, s)
                     ELSE MachoComputing(f, s, code[k]))
MachoPlaced(f, colour) == Placed(MachoTarget, f, colour)
MachoToSave(fns, f, order, b, k) == ToSave(MachoTarget, fns, f, order, b, k)
MachoSaved(fns, f, order) == Saved(MachoTarget, f, LAMBDA g, b, k : MachoToSave(fns, g, order, b, k))
MachoValid(f) == Validated(f, GnuValid)
MachoAligned(fns, f) == Aligned(MachoTarget, Broken(fns), f)
MachoFinal(fns, f) == MachoAligned(fns, MachoValid(f))
MachoDirect == FALSE        \* an external is reached through the global offset table
MachoAssembly == [word |-> 8, align |-> 16, direct |-> MachoDirect]
-----------------------------------------------------------------------------
(* i386: all arguments are on the stack, as words, and two registers hold  *)
(* variables.                                                              *)
I386Passing(env, f, code, k, s) ==
    Passing(I386Target, env, f,
            IF code[k].op = "STFARG" THEN [code EXCEPT ![k].farg.size = 4] ELSE code, k, s)
I386Computing(f, s, i) == Computing(I386Target, f, s, i)
I386Selected(env, f) ==
    Selected(I386Target, f, LAMBDA code, k, s :
        IF code[k].op \in Passes THEN I386Passing(env, f, code, k, s) ELSE I386Computing(f, s, code[k]))
I386Placed(f, colour) == Placed(I386Target, f, colour)
I386ToSave(fns, f, order, b, k) == ToSave(I386Target, fns, f, order, b, k)
I386Saved(fns, f, order) == Saved(I386Target, f, LAMBDA g, b, k : I386ToSave(fns, g, order, b, k))
I386Aligned(fns, f) == Aligned(I386Target, Broken(fns), f)
I386Final(fns, f) == I386Aligned(fns, Validated(f, I386Valid))
I386Word == 4               \* of an address
I386Assembly == [word |-> I386Word, align |-> 8, direct |-> TRUE]
-----------------------------------------------------------------------------
(* src/lir/selector/instsel.c, memsel.c, savereg.c                         *)
SelectedFor(target, env, f) ==
    CASE target = "gnu" -> GnuSelected(env, f)
      [] target = "macho" -> MachoSelected(env, f)
      [] target = "i386" -> I386Selected(env, f)
PlacedFor(target, f, colour) ==
    CASE target = "gnu" -> GnuPlaced(f, colour)
      [] target = "macho" -> MachoPlaced(f, colour)
      [] target = "i386" -> I386Placed(f, colour)
SavedFor(target, fns, f, order) ==
    CASE target = "gnu" -> GnuSaved(fns, f, order)
      [] target = "macho" -> MachoSaved(fns, f, order)
      [] target = "i386" -> I386Saved(fns, f, order)
AssemblyFor(target) ==      \* src/asm/asmgen.c
    CASE target = "gnu" -> GnuAssembly [] target = "macho" -> MachoAssembly [] target = "i386" -> I386Assembly
FinalFor(target, fns, f) ==
    CASE target = "gnu" -> GnuFinal(fns, f)
      [] target = "macho" -> MachoFinal(fns, f)
      [] target = "i386" -> I386Final(fns, f)
=============================================================================
