------------------------------- MODULE LirBlocks -------------------------------
(***************************************************************************)
(* The instructions of one function as the data flow passes see them       *)
(* (src/lir/lir_types.c, src/include/lir/lir.h): which variables each      *)
(* reads and which it writes, and what it means for a variable to be live. *)
(***************************************************************************)
EXTENDS Integers, Sequences, FiniteSets

CONSTANTS
    NB,         \* number of blocks, in the order of fb->blocks
    Var,        \* the variables
    Programs    \* the programs considered

Block == 1..NB

(* An operation writes its first argument (LIR_is_writeop), or reads it    *)
(* too; a phi move is a write by itself; what is marked unused is skipped. *)
(* An argument stands for the variables it names: none for a constant or a *)
(* register, one, or several for the list of a call; what is written is    *)
(* one variable or none.                                                   *)
Op == {"write", "read", "phi", "unused"}
Instruction ==
    {i \in [op : Op, farg : SUBSET Var, sarg : SUBSET Var, targ : SUBSET Var] :
        i.op \in {"write", "phi"} => \A v, w \in i.farg : v = w}

IsProgram(p) ==
    /\ p.code \in [Block -> Seq(Instruction)]
    /\ p.succ \in [Block -> SUBSET Block]

ASSUME BlocksAssumption   == NB \in Nat \ {0}
ASSUME VarAssumption      == IsFiniteSet(Var)
ASSUME ProgramsAssumption == \A p \in Programs : IsProgram(p)

InstUse(i) ==
    CASE i.op = "unused" -> {}
      [] i.op = "phi"    -> i.sarg
      [] i.op = "write"  -> i.sarg \union i.targ
      [] i.op = "read"   -> i.farg \union i.sarg \union i.targ

InstDef(i) == IF i.op \in {"write", "phi"} THEN i.farg ELSE {}

(* What the first n instructions of a block read before they write it, and *)
(* what they write.                                                        *)
Exposed(is, n) ==
    {v \in Var : \E i \in 1..n :
        v \in InstUse(is[i]) /\ \A j \in 1..(i - 1) : v \notin InstDef(is[j])}
Written(is, n) == {v \in Var : \E i \in 1..n : v \in InstDef(is[i])}

BlockUse(p, b) == Exposed(p.code[b], Len(p.code[b]))
BlockDef(p, b) == Written(p.code[b], Len(p.code[b]))

(* The equations of src/lir/dfg/dfg.c.                                     *)
SolvesLiveness(p, in, out) ==
    \A b \in Block :
        /\ in[b]  = BlockUse(p, b) \union (out[b] \ BlockDef(p, b))
        /\ out[b] = UNION {in[s] : s \in p.succ[b]}

(* The same of the ends of the blocks alone.                               *)
IsLiveOut(p, out) ==
    \A b \in Block :
        out[b] = UNION {BlockUse(p, s) \union (out[s] \ BlockDef(p, s)) : s \in p.succ[b]}

(* What they are for, stated without them: v is live at the start of b if  *)
(* some way on from there reads v before it writes it.  The blocks where   *)
(* v is live are those of every set that holds the blocks reading v first  *)
(* and is closed backwards along edges, past blocks that do not write v.   *)
ClosedForLive(p, v, S) ==
    /\ \A b \in Block : v \in BlockUse(p, b) => b \in S
    /\ \A b \in Block : v \notin BlockDef(p, b) /\ p.succ[b] \cap S # {} => b \in S
LiveAtStart(p, b) == {v \in Var : \A S \in SUBSET Block : ClosedForLive(p, v, S) => b \in S}
LiveAtEnd(p, b)   == UNION {LiveAtStart(p, s) : s \in p.succ[b]}

(* Live after instruction n of block b when out is live at the ends: read  *)
(* on before it is written, or not written in b any more and live behind.  *)
LiveAfter(p, out, b, n) ==
    LET is == p.code[b]
    IN  {v \in Var :
            \/ \E j \in (n + 1)..Len(is) :
                /\ v \in InstUse(is[j])
                /\ \A k \in (n + 1)..(j - 1) : v \notin InstDef(is[k])
            \/ v \in out[b] /\ \A k \in (n + 1)..Len(is) : v \notin InstDef(is[k])}

(* One of v and w is written while the other is live.                      *)
ClashAt(p, out, b, i, v, w) ==
    \/ v \in InstDef(p.code[b][i]) /\ w \in LiveAfter(p, out, b, i)
    \/ w \in InstDef(p.code[b][i]) /\ v \in LiveAfter(p, out, b, i)

Clash(p, out, v, w) ==
    \E b \in Block : \E i \in 1..Len(p.code[b]) : ClashAt(p, out, b, i, v, w)
=============================================================================
