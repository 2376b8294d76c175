------------------------------ MODULE PhiMoves ------------------------------
(***************************************************************************)
(* LIR_RA_sort_phi_movs (src/lir/dfg/dfg.c) on one group of adjacent phi   *)
(* moves.  The moves at the end of a block fill the phi functions of the   *)
(* next one: they happen at once, but are executed in a sequence.  After   *)
(* the registers are known the pass reorders each group so that no move    *)
(* overwrites a register another one has still to read.                    *)
(*                                                                         *)
(* A subject is a register, the stack home of a variable that has none, or *)
(* a constant.  One step is one round of `while (pos < n)`.                *)
(***************************************************************************)
EXTENDS Sequences, Functions, Integers

CONSTANTS
    Register, Memory, Constant,     \* disjoint sets
    NoReg,                          \* the -1 of a subject without register
    Groups                          \* the groups of moves to sort

Place   == Register \union Memory
Subject == Place \union Constant
Move    == [dst : Place, src : Subject]

ASSUME PlaceAssumption ==
    /\ NoReg \notin Register
    /\ Register \intersect Memory = {} /\ Constant \intersect Place = {}

ASSUME GroupsAssumption == Groups \subseteq Seq(Move)

VARIABLES
    group,      \* the moves as the pass finds them: `copies`
    taken,      \* the indices `found` so far: copies[i].done, and pos - 1 of them
    status      \* the loop runs, has ended, or has returned 0

vars == <<group, taken, status>>

(* _subj_reg: constants and variables of colour -1 share one register.     *)
RegOf(s) == IF s \in Register THEN s ELSE NoReg

Dst(i) == RegOf(group[i].dst)
Src(i) == RegOf(group[i].src)
Done   == Range(taken)
Pending == DOMAIN group \ Done

Init ==
    /\ group \in Groups
    /\ taken = <<>>
    /\ status = IF Len(group) <= 1 THEN "sorted" ELSE "sorting"

(* _dst_used_as_src                                                        *)
DstUsedAsSrcByAny(i) == \E j \in DOMAIN group \ {i} : Dst(i) = Src(j)
DstUsedAsSrc(i) == \E j \in Pending \ {i} : Dst(i) = Src(j)

ReadyUnchecked(i) == i \in Pending
Ready(i) == i \in Pending /\ (Dst(i) = Src(i) \/ ~DstUsedAsSrc(i))

TakeFromZero ==
    /\ status = "sorting" /\ Len(taken) < Len(group)
    /\ \E i \in DOMAIN group : Ready(i) /\ taken' = Append(taken, i - 1)
    /\ UNCHANGED <<group, status>>
Take ==
    /\ status = "sorting" /\ Len(taken) < Len(group)
    /\ \E i \in DOMAIN group :
          /\ Ready(i)
          /\ \A j \in 1..(i - 1) : ~Ready(j)
          /\ taken' = Append(taken, i)
    /\ UNCHANGED <<group, status>>

(* No move is ready: return 0 at once, with the nodes as they are.         *)
GiveUp ==
    /\ status = "sorting" /\ Len(taken) < Len(group)
    /\ \A i \in DOMAIN group : ~Ready(i)
    /\ status' = "stuck"
    /\ UNCHANGED <<group, taken>>

Finish ==
    /\ status = "sorting" /\ Len(taken) = Len(group)
    /\ status' = "sorted"
    /\ UNCHANGED <<group, taken>>

Next == Take \/ GiveUp \/ Finish

Spec == Init /\ [][Next]_vars

(* The instructions in the list: _load_payload has overwritten the first   *)
(* pos of them, the others still hold their own payload.                   *)
Nodes == [p \in DOMAIN group |-> IF p <= Len(taken) THEN group[taken[p]] ELSE group[p]]
-----------------------------------------------------------------------------
TypeOK ==
    /\ group \in Seq(Move)
    /\ taken \in Seq(DOMAIN group)
    /\ status \in {"sorting", "sorted", "stuck"}

(* What the places hold after the moves of s, one after the other, and     *)
(* after all of them at once.                                              *)
Contents(s) ==
    LET after[p \in 0..Len(s)] ==
            IF p = 0 THEN [x \in Subject |-> x]
            ELSE [after[p - 1] EXCEPT ![s[p].dst] = after[p - 1][s[p].src]]
    IN  after[Len(s)]

AtOnce(s) ==
    [x \in Subject |->
        IF \E i \in DOMAIN s : s[i].dst = x
        THEN s[CHOOSE i \in DOMAIN s : s[i].dst = x].src
        ELSE x]

(* Some moves wait for each other in a circle: no order of them is right   *)
(* without a scratch register.                                             *)
Cyclic(s) ==
    \E C \in (SUBSET DOMAIN s) \ {{}} :
        \A i \in C : \E j \in C \ {i} : s[i].dst = s[j].src /\ s[i].dst # s[i].src

(* Every move is emitted after the reads of its destination register, but  *)
(* for a move of a register to itself.                                     *)
ReadsComeFirst ==
    \A p, q \in DOMAIN taken :
        p < q => Dst(taken[p]) # Src(taken[q]) \/ Dst(taken[p]) = Src(taken[p])

(* When the pass leaves a group, executing it in sequence does what the    *)
(* phi functions ask, all moves at once: no value is overwritten before it *)
(* is read, no move is lost and none happens twice.  This is the sentence  *)
(* of src/include/lir/dfg.h on the pass.                                   *)
MovesHappenAtOnce ==
    (status # "sorting" /\ ~Cyclic(group)) => Contents(Nodes) = AtOnce(group)

(* A group in which no register is read after it was overwritten.          *)
InOrder == \A i, j \in DOMAIN group : i < j => Dst(i) # Src(j)

(* Such a group is left as it is: the allocator, which took the moves for  *)
(* a sequence, has the order it relied on.                                 *)
OrderedIsLeftAlone == InOrder => Nodes = group /\ status # "stuck"
=============================================================================
