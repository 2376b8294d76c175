----------------------------- MODULE CopyPropagation -----------------------------
(* Copy propagation (src/lir/copyprop/copyprop.c): before selection for    *)
(* the variables, once variables have places for the registers.            *)
(*                                                                         *)
(* What is known at a place of the code is a function from names, of       *)
(* variables or of families of registers, to the operand each holds a copy *)
(* of.  External variables are variables here; "ext" is one that is not    *)
(* local.                                                                  *)
(***************************************************************************)
EXTENDS Placement

Nothing == << >>
WithoutItself(known, names) == [v \in DOMAIN known \ names |-> known[v]]  \* wrong: copies of it stay
Without(known, names) ==
    LET Lost(v) == v \in names \/ (known[v].t \in {"var", "reg"} /\ known[v].r \in names)
    IN  [v \in {v \in DOMAIN known : ~Lost(v)} |-> known[v]]
Learns(known, x, y, size) == (x.r :> [y EXCEPT !.size = size]) @@ known

WithoutRegisters(known, names) == Without(known, names)
IsLocal(x) == x.t = "var"

(* The variables whose address is taken in the code.                       *)
AddressTaken(g) ==
    LET all == UNION {ToSet(g.blocks[b].code) : b \in DOMAIN g.blocks}
    IN  {i.sarg.r : i \in {i \in all : i.op = "REF" /\ i.sarg.t \in {"var", "ext"}}}
        \union {i.farg.r : i \in {i \in all : i.op = "aMOV" /\ i.farg.t \in {"var", "ext"}}}

IsCopy(i, taken) ==
    /\ IsLocal(i.farg) /\ i.farg.r \notin taken
    /\ \/ i.op \in Conversions /\ IsNum(i.sarg)
       \/ i.op = "iMOV" /\ i.sarg # Nul /\ i.sarg.t # "ext" /\ (i.sarg.t = "var" => i.sarg.r \notin taken)
AfterVariable(taken, known, i) ==
    LET left == IF i.op \in WriteOps /\ i.farg.t \in {"var", "ext"} THEN Without(known, {i.farg.r}) ELSE known
    IN  IF IsCopy(i, taken) THEN Learns(left, i.farg, i.sarg, IF i.op = "iMOV" THEN i.sarg.size ELSE i.farg.size)
        ELSE left
WithCopies(known, i) ==
    LET Copy(x) == IF x.t = "var" /\ x.r \in DOMAIN known THEN known[x.r] ELSE x
    IN  IF i.op \notin ReadOps \ {"aMOV", "REF"} THEN i
        ELSE [i EXCEPT !.farg = IF i.op \in WriteOps THEN @ ELSE Copy(@), !.sarg = Copy(@), !.targ = Copy(@)]
-----------------------------------------------------------------------------
(* The same of registers, where only constants are taken further.          *)
StackRegisters == {"RSP", "RBP"}
IsRegisterCopy(i) ==
    /\ i.op \in {"iMOV", "phiMOV"} /\ IsReg(i.farg) /\ i.farg.r \notin StackRegisters
    /\ \/ IsNum(i.sarg)
       \/ IsReg(i.sarg) /\ i.sarg.r \notin StackRegisters \union {i.farg.r} /\ i.farg.size = i.sarg.size
Clobbers(i) == i.op \in {"FCLL", "ECLL", "SYSC", "RAW", "RAWASM"} \/ IsTailCall(i)
WrittenRegisters(i) ==
    (IF IsReg(i.farg) /\ i.op \in WriteOps \union SetOps THEN {i.farg.r} ELSE {})
    \union (IF i.op = "XCHG" /\ IsReg(i.sarg) THEN {i.sarg.r} ELSE {})
    \union (IF i.op \in {"CDQ", "CQO"} THEN {"RDX"} ELSE {})
    \union (IF i.op \in {"DIV", "iDIV", "iMOD"} THEN {"RAX", "RDX"} ELSE {})
AfterRegister(known, i) ==
    LET left == WithoutRegisters(known, WrittenRegisters(i))
    IN  IF Clobbers(i) THEN Nothing
        ELSE IF IsRegisterCopy(i) THEN Learns(left, i.farg, i.sarg, i.farg.size)
        ELSE left
WithConstant(known, i) ==
    IF /\ i.op \in {"iMOV", "phiMOV"} /\ IsReg(i.sarg) /\ i.farg.size = i.sarg.size
       /\ ~(IsReg(i.farg) /\ i.farg.r = i.sarg.r)
       /\ i.sarg.r \in DOMAIN known /\ IsNum(known[i.sarg.r])
    THEN [i EXCEPT !.sarg = known[i.sarg.r]] ELSE i
-----------------------------------------------------------------------------
(* What is known at the start of a block is what all blocks before it      *)
(* agree on; it grows from nothing, block after block, until no block's    *)
(* end changes.                                                            *)
PredsOf(g, b) == {p \in DOMAIN g.blocks : b \in {g.blocks[p].l, g.blocks[p].jmp}}
Agreed(outs) ==
    LET some == CHOOSE known \in outs : TRUE
        Same(v) == \A known \in outs : v \in DOMAIN known /\ Eq(known[v], some[v])
    IN  IF outs = {} THEN Nothing ELSE [v \in {v \in DOMAIN some : Same(v)} |-> some[v]]
AtStart(g, out, b) == Agreed({out[p] : p \in PredsOf(g, b)})

Variables(taken) == [registers |-> FALSE, taken |-> taken]
Registers == [registers |-> TRUE, taken |-> {}]
Behind(kind, known, i) == IF kind.registers THEN AfterRegister(known, i) ELSE AfterVariable(kind.taken, known, i)
With(kind, known, i) == IF kind.registers THEN WithConstant(known, i) ELSE WithCopies(known, i)
AtEnd(kind, code, known) == FoldLeft(LAMBDA s, i : Behind(kind, s, i), known, code)
RECURSIVE Ends(_, _, _)
Ends(kind, g, out) ==
    LET next == FoldLeft(LAMBDA s, b : [s EXCEPT ![b] = AtEnd(kind, g.blocks[b].code, AtStart(g, s, b))],
                         out, [b \in DOMAIN g.blocks |-> b])
    IN  IF next = out THEN out ELSE Ends(kind, g, next)
Rewritten(kind, code, known) ==
    FoldLeft(LAMBDA s, i : [known |-> Behind(kind, s.known, With(kind, s.known, i)),
                            code |-> Append(s.code, With(kind, s.known, i))],
             [known |-> known, code |-> <<>>], code).code
Propagated(kind, g) ==
    LET out == Ends(kind, g, [b \in DOMAIN g.blocks |-> Nothing])
    IN  [g EXCEPT !.blocks = [b \in DOMAIN @ |-> [@[b] EXCEPT !.code = Rewritten(kind, @, AtStart(g, out, b))]]]
VariablesPropagated(g) == Propagated(Variables(AddressTaken(g)), g)
RegistersPropagated(g) == Propagated(Registers, g)
-----------------------------------------------------------------------------
(* LIR_drop_unused_variables: of a variable nothing reads, the last write  *)
(* is marked unused, and every pass behind skips what is.                  *)
Droppable == Conversions \union {"iMOV", "aMOV"}
NamesOf(xs) == {x.r : x \in {x \in xs : x.t \in {"var", "ext"}}}
Unread(g) ==
    LET Read(i) == NamesOf(IF i.op \in WriteOps THEN {i.sarg, i.targ} ELSE Args(i))
        read == UNION {UNION {Read(i) : i \in ToSet(g.blocks[b].code)} : b \in DOMAIN g.blocks}
        places == UNION {{<<b, k>> : k \in DOMAIN g.blocks[b].code} : b \in DOMAIN g.blocks}
        At(p) == g.blocks[p[1]].code[p[2]]
        writes == {p \in places : At(p).op \in Droppable /\ NamesOf({At(p).farg}) \ read # {}}
        Later(p, q) == q[1] > p[1] \/ (q[1] = p[1] /\ q[2] > p[2])
    IN  {p \in writes : \A q \in writes : Later(p, q) => At(q).farg.r # At(p).farg.r}
WithoutUnused(g) ==
    LET unread == Unread(g)
        Left(b, code) ==
            LET kept == SelectSeq([k \in DOMAIN code |-> k], LAMBDA k : <<b, k>> \notin unread)
            IN  [n \in DOMAIN kept |-> code[kept[n]]]
    IN  [g EXCEPT !.blocks = [b \in DOMAIN @ |-> [@[b] EXCEPT !.code = Left(b, @)]]]
=============================================================================
