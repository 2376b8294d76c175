-------------------------------- MODULE Peephole --------------------------------
(* The peephole optimiser: the generated rules over windows of four        *)
(* instructions (src/lir/peephole/pattern_generator/peephole_generated.c)  *)
(* and the passes over the blocks of a function                            *)
(* (src/lir/peephole/x86_64_gnu_nasm.c), repeated while one of them says   *)
(* that it changed something (src/lir/peephole/peephole.c).                *)
(*                                                                         *)
(* A program is the instructions of a function in their order and its      *)
(* blocks, each from its entry to its exit, with the block it falls or     *)
(* branches into (l, jmp; 0 is none) and those it is entered from (pred);  *)
(* changed is what the passes of a round have returned so far.             *)
(***************************************************************************)
EXTENDS LirMachine

Nothing == I0("NOTHING")
Skipped == {"BB", "VRDEALL", "SETPOS"}

(* LIR_get_near_instruction, LIR_get_back_instruction: the k-th live       *)
(* instruction after c, up to the exit of a block; before c, after its     *)
(* entry.  0 is no instruction.                                            *)
Near(code, c, exit, k) ==
    LET last == IF exit > c THEN exit - 1 ELSE Len(code)
        live == SelectSeq([i \in 1 .. last - c + 1 |-> c + i - 1],
                          LAMBDA x : ~code[x].unused /\ code[x].op \notin Skipped)
    IN  CASE k = 0 -> c
          [] k > 0 /\ c = exit -> 0
          [] OTHER -> IF k < Len(live) THEN live[k + 1] ELSE IF exit > c THEN exit ELSE 0
Back(code, c, entry, k) ==
    LET live == SelectSeq([i \in 1 .. c - entry |-> c - i + 1],
                          LAMBDA x : ~code[x].unused /\ code[x].op \notin (Skipped \ {"SETPOS"}))
    IN  IF k = 0 THEN c ELSE IF k < Len(live) THEN live[k + 1] ELSE 0
At(code, c) == IF c = 0 THEN Nothing ELSE code[c]
Succ(b) == {b.l, b.jmp} \ {0}

(* The verdict of the first instruction from c to the last that has one;   *)
(* over the paths from there: no path may reach "read" before "over".      *)
Meets(code, c, last, Verdict(_)) ==
    LET said == {x \in c .. last : ~code[x].unused /\ Verdict(x) # "go"}
    IN  IF said = {} THEN "go" ELSE Verdict(CHOOSE x \in said : \A y \in said : x <= y)
Onwards(p, start, open) ==
    LET More(s, k) == s \union UNION {Succ(p.blocks[b]) : b \in s \cap open}
    IN  FoldLeft(More, start, [k \in DOMAIN p.blocks |-> k])
NeverRead(p, b, from, last, Verdict(_)) ==
    LET first == Meets(p.code, from, last, Verdict)
        seen == [x \in DOMAIN p.blocks |-> Meets(p.code, p.blocks[x].entry, p.blocks[x].exit, Verdict)]
    IN  \/ first = "over"
        \/ /\ first = "go"
           /\ \A x \in Onwards(p, Succ(p.blocks[b]), {y \in DOMAIN seen : seen[y] = "go"}) :
                seen[x] # "read"

(* _peephole_subject_is_overwritten, _peephole_subject_is_read,            *)
(* _peephole_subject_dead_after.                                           *)
ReadByFirstTwo(i, x) == i.op \in ReadOps /\ (Eq(i.farg, x) \/ Eq(i.sarg, x))     \* wrong: not the third operand
ReadBy(i, x) == i.op \in ReadOps /\ (Eq(i.farg, x) \/ Eq(i.sarg, x) \/ Eq(i.targ, x))
OverwrittenBy(i, x) == i.op \in MoveOps /\ Eq(i.farg, x) /\ ~Eq(i.sarg, x) /\ ~Eq(i.targ, x)
DeadAfter(p, b, x, from) ==
    NeverRead(p, b, from, p.blocks[b].exit,
              LAMBDA c : IF OverwrittenBy(p.code[c], x) THEN "over"
                         ELSE IF ReadBy(p.code[c], x) THEN "read" ELSE "go")
-----------------------------------------------------------------------------
(* The rules.  w is the window; a rule gives the changes it makes to it,   *)
(* none when it does not match.  place: the program, the block and where   *)
(* the window begins.                                                      *)
Dead(place, x, k) ==    \* nothing reads x from the k-th instruction on
    LET here == place.p.blocks[place.b]
        from == Near(place.p.code, place.c, here.exit, k)
    IN  DeadAfter(place.p, place.b, x, IF from = 0 THEN here.entry ELSE from)
Set(k, i) == [k |-> k, i |-> i]
Del(k) == [k |-> k, i |-> Nothing]
Movs == {"iMOV", "aMOV", "fMOV"}
Is(i, ops, F(_), S(_)) == i.op \in ops /\ F(i.farg) /\ S(i.sarg)
IsMov(i) == Is(i, Movs, IsReg, IsObj)
IsMovReg(i) == Is(i, Movs, IsReg, IsReg)
IsSame(i, ops) == Is(i, ops, IsReg, IsReg) /\ Eq(i.farg, i.sarg)
IsTst(i) == IsSame(i, {"TST"})
IsCmp(i) == Is(i, {"CMP"}, IsReg, IsObj)
IsValue(n, x) == IsNum(x) /\ x.n = n
IsAcc(i, op, F(_), T(_)) == i.op = op /\ F(i.farg) /\ F(i.sarg) /\ Eq(i.farg, i.sarg) /\ T(i.targ)
IsSelf(i, op) == IsAcc(i, op, IsReg, IsReg) /\ Eq(i.sarg, i.targ)
Acc(op, x, y) == I(op, x, x, y)
Xor(x) == Acc("bXOR", x, x)
Tst(x) == I2("TST", x, x)
Equality == {"JE", "JNE"}
If(match, edits) == IF match THEN edits ELSE <<>>
First(rules) == LET s == SelectSeq(rules, LAMBDA r : r # <<>>) IN IF s = <<>> THEN <<>> ELSE s[1]

CompareWithZero(w) ==
    If(w[1].op = "CMP" /\ IsReg(w[1].farg) /\ IsValue(0, w[1].sarg), <<Set(0, Tst(w[1].farg))>>)
JumpToNext(w) ==
    If(/\ w[1].op = "JMP" /\ w[1].farg.t = "label"
       /\ w[2].op = "MKLB" /\ Eq(w[2].farg, w[1].farg),
       <<Set(0, I1("MKLB", w[2].farg)), Del(1)>>)
NotOfNot(w) ==
    If(w[1].op = "NOT" /\ IsReg(w[1].farg) /\ w[2].op = "NOT" /\ Eq(w[2].farg, w[1].farg),
       <<Del(0), Del(1)>>)
TestOfWidened(w, place) ==
    If(/\ w[1].op = "SETL" /\ IsReg(w[1].farg) /\ Is(w[2], {"MOVSX"}, IsReg, IsReg) /\ IsTst(w[3])
       /\ Eq(w[2].sarg, w[1].farg) /\ Eq(w[3].farg, w[2].farg) /\ Dead(place, w[2].farg, 3),
       <<Set(0, I1("SETL", w[2].sarg)), Set(1, Tst(w[2].sarg)), Del(2)>>)

MoveThrough(w) ==
    If(/\ IsMov(w[1]) /\ IsMovReg(w[2]) /\ IsMov(w[3])
       /\ Eq(w[2].sarg, w[1].farg) /\ Eq(w[3].farg, w[1].farg),
       <<Set(0, I2(w[1].op, w[2].farg, w[1].sarg)), Set(1, I2(w[2].op, w[3].farg, w[3].sarg)), Del(2)>>)
TestOfCopy(w, place) ==
    If(/\ IsMovReg(w[1]) /\ IsTst(w[2]) /\ Eq(w[2].farg, w[1].farg) /\ Dead(place, w[1].farg, 2),
       <<Set(0, Tst(w[1].sarg)), Del(1)>>)
SubtractedFromItself(w) ==
    If(/\ IsMovReg(w[1]) /\ IsAcc(w[2], "iSUB", IsReg, IsObj)
       /\ IsSame(w[3], Movs) /\ IsMovReg(w[4])
       /\ Eq(w[2].farg, w[1].farg) /\ Eq(w[2].targ, w[1].sarg) /\ Eq(w[3].farg, w[1].farg)
       /\ Eq(w[4].farg, w[1].sarg) /\ Eq(w[4].sarg, w[1].farg),
       <<Set(0, Acc("iSUB", w[4].farg, w[4].farg)), Set(1, I2(w[1].op, w[4].sarg, w[4].sarg)),
         Del(2), Del(3)>>)
MoveToItself(w) ==
    If(Is(w[1], Movs, IsObj, IsObj) /\ Eq(w[1].farg, w[1].sarg), <<Del(0)>>)
ZeroByProduct(w) ==     \* wrong: TimesZero turns it back
    If(w[1].op \in Movs /\ IsReg(w[1].farg) /\ IsValue(0, w[1].sarg), <<Set(0, Acc("iMUL", w[1].farg, Num(0)))>>)
ZeroByXor(w) ==
    If(w[1].op \in Movs /\ IsReg(w[1].farg) /\ IsValue(0, w[1].sarg), <<Set(0, Xor(w[1].farg))>>)
ThereAndBack(w) ==
    If(/\ IsMov(w[1]) /\ Is(w[2], Movs, IsObj, IsReg)
       /\ Eq(w[2].farg, w[1].sarg) /\ Eq(w[2].sarg, w[1].farg),
       <<Set(0, I2(w[1].op, w[2].sarg, w[2].farg)), Del(1)>>)
CompareOfCopy(w, place) ==
    If(/\ IsMovReg(w[1]) /\ IsCmp(w[2]) /\ Eq(w[2].farg, w[1].farg) /\ Dead(place, w[1].farg, 2),
       <<Set(0, I2(w[2].op, w[1].sarg, w[2].sarg)), Del(1)>>)
ZeroCompared(w) ==
    If(/\ w[1].op \in Movs /\ IsReg(w[1].farg) /\ IsValue(0, w[1].sarg)
       /\ IsCmp(w[2]) /\ IsValue(0, w[2].sarg) /\ Eq(w[2].farg, w[1].farg),
       <<Set(0, Xor(w[2].farg)), Del(1)>>)
ZeroTested(w) ==
    If(/\ w[1].op \in Movs /\ IsReg(w[1].farg) /\ IsValue(0, w[1].sarg)
       /\ IsTst(w[2]) /\ Eq(w[2].farg, w[1].farg),
       <<Set(0, Xor(w[2].farg)), Del(1)>>)
ConstantOperand(w, op) ==       \* mov x, n; mov y, m; op x, y
    If(/\ Is(w[1], Movs, IsReg, IsNum) /\ Is(w[2], Movs, IsReg, IsNum) /\ IsAcc(w[3], op, IsReg, IsReg)
       /\ Eq(w[3].farg, w[1].farg) /\ Eq(w[3].targ, w[2].farg),
       <<Set(0, I2(w[1].op, w[3].farg, w[1].sarg)), Set(1, I2(w[2].op, w[3].targ, w[2].sarg)),
         Set(2, Acc(op, w[3].farg, w[2].sarg))>>)
AddedConstant(w) == ConstantOperand(w, "iADD")
SubtractedConstant(w) == ConstantOperand(w, "iSUB")
OneTimes(w) ==
    If(/\ w[1].op \in Movs /\ IsReg(w[1].farg) /\ IsValue(1, w[1].sarg)
       /\ IsAcc(w[2], "iMUL", IsReg, IsNum) /\ Eq(w[2].farg, w[1].farg),
       <<Set(0, I2(w[1].op, w[2].farg, w[2].targ)), Del(1)>>)
AddedToCopy(w, place) ==
    If(/\ IsMovReg(w[1]) /\ IsAcc(w[2], "iADD", IsReg, IsReg) /\ IsMovReg(w[3])
       /\ Eq(w[2].farg, w[1].farg) /\ Eq(w[3].farg, w[1].sarg) /\ Eq(w[3].sarg, w[1].farg)
       /\ Dead(place, w[1].farg, 3),
       <<Set(0, I2(w[1].op, w[3].sarg, w[3].farg)), Set(1, Acc("iADD", w[3].farg, w[2].targ)), Del(2)>>)
LessOne(w) == /\ IsMovReg(w[1]) /\ IsAcc(w[2], "iSUB", IsReg, LAMBDA x : IsValue(1, x)) /\ IsMovReg(w[3])
              /\ Eq(w[2].farg, w[1].farg) /\ Eq(w[3].sarg, w[1].farg)
LessOneMoved(w, place) ==
    If(LessOne(w) /\ Dead(place, w[1].farg, 3) /\ Dead(place, w[1].sarg, 3),
       <<Set(0, Acc("iSUB", w[1].sarg, Num(1))), Set(1, I2(w[1].op, w[3].farg, w[1].sarg)), Del(2)>>)
LessOneBack(w, place) ==
    If(LessOne(w) /\ Eq(w[3].farg, w[1].sarg) /\ Dead(place, w[1].farg, 3),
       <<Set(0, I2(w[1].op, w[3].sarg, w[3].farg)), Set(1, Acc("iSUB", w[3].farg, Num(1))), Del(2)>>)
CompareOfCopyJumps(w, place) ==
    If(/\ IsMovReg(w[1]) /\ IsCmp(w[2]) /\ w[3].op \in Equality
       /\ Eq(w[2].farg, w[1].farg) /\ Dead(place, w[1].farg, 3),
       <<Set(0, I2(w[2].op, w[1].sarg, w[2].sarg)), Set(1, I1(w[3].op, w[3].farg)), Del(2)>>)
TestOfCopyJumps(w, place) ==
    If(/\ IsMovReg(w[1]) /\ IsTst(w[2]) /\ w[3].op \in Equality
       /\ Eq(w[2].farg, w[1].farg) /\ Dead(place, w[1].farg, 3),
       <<Set(0, Tst(w[1].sarg)), Set(1, I1(w[3].op, w[3].farg)), Del(2)>>)

AndWithItself(w) == If(IsSelf(w[1], "bAND"), <<Set(0, Tst(w[1].farg))>>)
AndWithZero(w) ==
    If(IsAcc(w[1], "bAND", IsReg, LAMBDA x : IsValue(0, x)), <<Set(0, Xor(w[1].farg))>>)
OrWithItself(w) == If(IsSelf(w[1], "bOR"), <<Set(0, Tst(w[1].farg))>>)
NoChange(w, op, n) == If(IsAcc(w[1], op, IsObj, LAMBDA x : IsValue(n, x)), <<Del(0)>>)
ShiftLeftByZero(w) == NoChange(w, "bSHL", 0)
ShiftRightByZero(w) == NoChange(w, "bSHR", 0)
PlusZero(w) == NoChange(w, "iADD", 0)
ByOne(w) == NoChange(w, "iDIV", 1)
TimesZero(w) ==
    If(IsAcc(w[1], "iMUL", IsObj, LAMBDA x : IsValue(0, x)), <<Set(0, I2("iMOV", w[1].farg, Num(0)))>>)
TimesOne(w) == NoChange(w, "iMUL", 1)
MinusZero(w) == NoChange(w, "iSUB", 0)
MinusItself(w) == If(IsSelf(w[1], "iSUB"), <<Set(0, Xor(w[1].farg))>>)

CopyOfZero(w) ==
    If(IsSelf(w[1], "bXOR") /\ IsMovReg(w[2]) /\ Eq(w[2].sarg, w[1].farg),
       <<Set(0, Xor(w[2].sarg)), Set(1, Xor(w[2].farg))>>)
XorCompared(w) ==
    If(IsSelf(w[1], "bXOR") /\ IsCmp(w[2]) /\ IsValue(0, w[2].sarg) /\ Eq(w[2].farg, w[1].farg),
       <<Set(0, Xor(w[2].farg)), Del(1)>>)
XorTested(w) ==
    If(IsSelf(w[1], "bXOR") /\ IsTst(w[2]) /\ Eq(w[2].farg, w[1].farg),
       <<Set(0, Xor(w[2].farg)), Del(1)>>)
XorTwice(w) ==
    If(IsSelf(w[1], "bXOR") /\ IsSelf(w[2], "bXOR") /\ Eq(w[2].farg, w[1].farg),
       <<Set(0, Xor(w[2].farg)), Del(1)>>)

LessOneTested(w, ops) ==        \* sub x, 1 leaves the flags of test x, x
    If(/\ IsAcc(w[1], "iSUB", IsReg, LAMBDA x : IsValue(1, x)) /\ IsTst(w[2]) /\ w[3].op \in ops
       /\ Eq(w[2].farg, w[1].farg),
       <<Set(0, Acc("iSUB", w[2].farg, Num(1))), Set(1, I1(w[3].op, w[3].farg)), Del(2)>>)
LessOneIfZero(w) == LessOneTested(w, {"JE", "JZ"})
LessOneIfNot(w) == LessOneTested(w, {"JNE", "JNZ"})
LessOneSets(w) == LessOneTested(w, {"SETE", "STNE"})

(* peephole_first_pass: of the rules for the operation of the first        *)
(* instruction the first that matches.                                     *)
Rules(w, place) ==
    CASE w[1].op = "CMP" -> <<CompareWithZero(w)>>
      [] w[1].op = "JMP" -> <<JumpToNext(w)>>
      [] w[1].op = "NOT" -> <<NotOfNot(w)>>
      [] w[1].op = "SETL" -> <<TestOfWidened(w, place)>>
      [] w[1].op \in Movs ->
            <<MoveThrough(w), TestOfCopy(w, place), SubtractedFromItself(w), MoveToItself(w),
              ZeroByXor(w), ThereAndBack(w), CompareOfCopy(w, place), ZeroCompared(w), ZeroTested(w),
              AddedConstant(w), SubtractedConstant(w), OneTimes(w), AddedToCopy(w, place),
              LessOneMoved(w, place), LessOneBack(w, place), CompareOfCopyJumps(w, place),
              TestOfCopyJumps(w, place)>>
      [] w[1].op = "bAND" -> <<AndWithItself(w), AndWithZero(w)>>
      [] w[1].op = "bOR" -> <<OrWithItself(w)>>
      [] w[1].op = "bSHL" -> <<ShiftLeftByZero(w)>>
      [] w[1].op = "bSHR" -> <<ShiftRightByZero(w)>>
      [] w[1].op = "bXOR" -> <<CopyOfZero(w), XorCompared(w), XorTested(w), XorTwice(w)>>
      [] w[1].op = "iADD" -> <<PlusZero(w)>>
      [] w[1].op = "iDIV" -> <<ByOne(w)>>
      [] w[1].op = "iMUL" -> <<TimesZero(w), TimesOne(w)>>
      [] w[1].op = "iSUB" -> <<MinusZero(w), MinusItself(w), LessOneIfZero(w), LessOneIfNot(w), LessOneSets(w)>>
      [] OTHER -> <<>>
Edited(code, c, exit, edits) ==
    FoldLeft(LAMBDA s, e :
                 LET at == Near(s, c, exit, e.k)
                 IN  IF e.i = Nothing THEN [s EXCEPT ![at].unused = TRUE]
                     ELSE [s EXCEPT ![at] = [e.i EXCEPT !.unused = s[at].unused]],
             code, edits)
RewriteAt(p, b, c) ==
    LET exit == p.blocks[b].exit
        w == [k \in 1 .. 4 |-> At(p.code, Near(p.code, c, exit, k - 1))]
        edits == First(Rules(w, [p |-> p, b |-> b, c |-> c]))
    IN  IF p.code[c].unused \/ edits = <<>> THEN p
        ELSE [p EXCEPT !.code = Edited(@, c, exit, edits), !.changed = TRUE]
FirstPass(p, b) ==
    FoldLeft(LAMBDA q, k : RewriteAt(q, b, p.blocks[b].entry + k - 1), p,
             [k \in 1 .. p.blocks[b].exit - p.blocks[b].entry + 1 |-> k])
-----------------------------------------------------------------------------
(* _jumps_pass: a jump to what follows.  It returns 1 although the jump it *)
(* finds leads elsewhere, or was taken out before.                         *)
Drop(code, cs) == [c \in DOMAIN code |-> IF c \in cs THEN [code[c] EXCEPT !.unused = TRUE] ELSE code[c]]
JumpsPass(p, b) ==
    LET here == p.blocks[b]
        l == here.exit
        ll == Back(p.code, l, here.entry, 1)
        next == IF here.l \notin {0, b} THEN here.l ELSE here.jmp
        to == p.blocks[next]
        label == p.code[to.entry]
        Gone(c) == c # 0 /\ p.code[c].op \in JumpOps /\ Eq(p.code[c].farg, label.farg)
    IN  IF /\ p.code[l].op \in JumpOps /\ next # 0
           /\ label.op = "MKLB" /\ Near(p.code, l, to.exit, 1) = to.entry
        THEN [p EXCEPT !.code = Drop(@, {c \in {l, ll} : Gone(c)}), !.changed = TRUE]
        ELSE p

(* _cleanup_pass: a write that the same operation repeats, or that the     *)
(* function ends after, before anything reads it.                          *)
Cleaned(p, b, c) ==
    LET i == p.code[c]
        Verdict(x) ==
            LET j == p.code[x]
            IN  IF /\ x # c /\ j.op = i.op /\ Eq(j.farg, i.farg)
                   /\ ~Eq(j.sarg, i.farg) /\ ~Eq(j.targ, i.farg) THEN "over"
                ELSE IF ReadBy(j, i.farg) THEN "read" ELSE "go"
    IN  IF /\ ~i.unused /\ ~(IsReg(i.farg) /\ i.farg.r = "RSP")
           /\ i.op \in WriteOps /\ i.op \notin SideEffects
           /\ NeverRead(p, b, c + 1, IF c = p.blocks[b].exit THEN Len(p.code) ELSE p.blocks[b].exit, Verdict)
        THEN [p EXCEPT !.code = Drop(@, {c}), !.changed = TRUE]
        ELSE p
CleanupPass(p, b) ==
    FoldLeft(LAMBDA q, k : Cleaned(q, b, p.blocks[b].entry + k - 1), p,
             [k \in 1 .. p.blocks[b].exit - p.blocks[b].entry + 1 |-> k])

(* _deep_jump_pass: a block that only jumps on is taken out; its           *)
(* predecessors jump where it does.  tables: the targets of jump tables.   *)
OnlyJumps(p, b) ==
    LET x == p.blocks[b]
    IN  /\ b \notin p.tables
        /\ \A c \in x.entry .. x.exit : p.code[c].unused \/ p.code[c].op \in {"MKLB", "JMP"}
        /\ p.code[x.entry].op = "MKLB" /\ p.code[x.exit].op = "JMP" /\ p.code[x.exit].farg.t = "label"
Redirect(p, b, pred) ==
    LET x == p.blocks[b]
        l == p.blocks[pred].exit
        ll == Back(p.code, l, p.blocks[pred].entry, 1)
        to == IF x.l # 0 THEN x.l ELSE x.jmp
        Jumps(c) == c # 0 /\ p.code[c].op \in JumpOps /\ Eq(p.code[c].farg, p.code[x.entry].farg)
        Moved(s) == IF s = b THEN to ELSE s
        moved == [p.blocks EXCEPT ![pred] = [@ EXCEPT !.l = Moved(@), !.jmp = Moved(@)]]
    IN  IF ~Jumps(l) /\ ~Jumps(ll) THEN p
        ELSE [p EXCEPT !.code[IF Jumps(l) THEN l ELSE ll].farg = p.code[x.exit].farg, !.changed = TRUE,
                       !.blocks = IF to = 0 THEN moved
                                  ELSE [moved EXCEPT ![to].pred = (@ \ {b}) \union {pred}]]
PassedBy(p, b) ==
    LET out == FoldLeft(LAMBDA q, x : Redirect(q, b, x), p, SetToSeq(p.blocks[b].pred))
    IN  IF ~OnlyJumps(p, b) THEN p
        ELSE [out EXCEPT !.code = Drop(@, p.blocks[b].entry .. p.blocks[b].exit),
                         !.blocks[b] = [@ EXCEPT !.l = 0, !.jmp = 0]]
DeepJumpPass(p) == FoldLeft(PassedBy, p, [b \in DOMAIN p.blocks |-> b])

(* _find_label_usage, _label_pass                                          *)
LabelUsed(p, x) ==
    \/ \E b \in p.tables : Eq(p.code[p.blocks[b].entry].farg, x)
    \/ \E c \in DOMAIN p.code : /\ ~p.code[c].unused /\ p.code[c].op \in JumpOps
                                /\ Eq(p.code[c].farg, x)
LabelPass(p) ==
    LET dangling == {c \in DOMAIN p.code : /\ ~p.code[c].unused /\ p.code[c].op = "MKLB"
                                           /\ ~LabelUsed(p, p.code[c].farg)}
    IN  [p EXCEPT !.code = Drop(@, dangling), !.changed = @ \/ dangling # {}]
-----------------------------------------------------------------------------
(* LIR_peephole_optimization: the passes over one function, round after    *)
(* round (src/lir/peephole/peephole.c, x86_64_gnu_nasm_peephole_optimization*)
(* of src/lir/peephole/x86_64_gnu_nasm.c).                                 *)
CONSTANTS
    Functions,  \* functions: code, blocks, tables; runs, the registers and
                \* the memory they are run with
    Env,        \* what a run takes for granted (LirMachine)
    Fuel,       \* a run of more than 2^Fuel instructions counts as endless
    MaxRounds   \* 64 in the source

VARIABLES
    orig,       \* the function before the passes, fixed
    shown,      \* what its runs show, fixed
    p,          \* the function
    stage,      \* the pass
    at,         \* the block the pass is at
    rounds

vars == <<orig, shown, p, stage, at, rounds>>

Shown(f, code) == [k \in DOMAIN f.runs |-> Run(Env, code, f.runs[k].regs, f.runs[k].mem, Fuel)]
Init ==
    /\ orig \in Functions /\ shown = Shown(orig, orig.code)
    /\ p = [code |-> orig.code, blocks |-> orig.blocks, tables |-> orig.tables, changed |-> FALSE]
    /\ stage = "rules" /\ at = 1 /\ rounds = 0

OverBlocks(from, to, Pass(_, _)) ==
    /\ stage = from
    /\ p' = Pass(p, at)
    /\ IF at < Len(p.blocks) THEN at' = at + 1 /\ stage' = stage ELSE at' = 1 /\ stage' = to
    /\ UNCHANGED <<orig, shown, rounds>>
RulesPass == OverBlocks("rules", "deep", FirstPass)
Deep ==
    /\ stage = "deep"
    /\ p' = DeepJumpPass(p) /\ stage' = "blocks"
    /\ UNCHANGED <<orig, shown, at, rounds>>
JumpsAndCleanup(q, b) == CleanupPass(JumpsPass(q, b), b)
Blocks == OverBlocks("blocks", "labels", JumpsAndCleanup)
Labels ==
    /\ stage = "labels"
    /\ p' = LabelPass(p)
    /\ stage' = "round"
    /\ UNCHANGED <<orig, shown, at, rounds>>
Round ==
    /\ stage = "round"
    /\ rounds' = IF p.changed THEN rounds + 1 ELSE rounds
    /\ stage' = IF p.changed /\ rounds' < MaxRounds THEN "rules" ELSE "done"
    /\ p' = [p EXCEPT !.changed = FALSE]
    /\ UNCHANGED <<orig, shown, at>>
Next == RulesPass \/ Deep \/ Blocks \/ Labels \/ Round
Spec == Init /\ [][Next]_vars
-----------------------------------------------------------------------------
(* After every pass the function shows the outside what it showed before   *)
(* the first: its calls, its result, the memory and the registers its      *)
(* caller knows of.                                                        *)
KeepsResults == p.code # orig.code => Shown(orig, p.code) = shown

(* What the rounds leave is settled, whether they end because no pass says *)
(* it changed something or at the limit: one more changes no instruction.  *)
OneMore ==
    LET InTurn(q, Pass(_, _)) == FoldLeft(Pass, q, [b \in DOMAIN q.blocks |-> b])
    IN  LabelPass(InTurn(DeepJumpPass(InTurn(p, FirstPass)), JumpsAndCleanup))
Settles == stage = "done" => OneMore.code = p.code
=============================================================================
