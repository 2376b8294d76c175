---------------------------- MODULE LivenessProofs ----------------------------
(***************************************************************************)
(* Liveness is right for every function: any number of blocks and          *)
(* variables, any code, any edges.  The invariant says what a pass in      *)
(* progress has made of the sets, and that nothing is ever in a set that   *)
(* is not live; when two passes agree the equations hold, so that the sets *)
(* are closed backwards and hold everything that is live.                  *)
(***************************************************************************)
EXTENDS Liveness, TLAPS

ThisProgram == IsProgram(liveProg)

Shape ==
    /\ liveBb \in 0..(NB + 1) /\ liveInst \in Nat
    /\ livePhase \in {"usedef", "flow", "done"}
    /\ livePhase = "flow" => liveBb \in 0..NB

Sets ==
    /\ use \in BlockVars /\ def \in BlockVars
    /\ currIn \in BlockVars /\ currOut \in BlockVars
    /\ prevIn \in BlockVars /\ prevOut \in BlockVars

(* The use and def sets gathered so far.                                   *)
Gathered ==
    /\ livePhase = "usedef" =>
        /\ liveBb <= NB => liveInst <= Len(liveProg.code[liveBb])
        /\ liveBb \in Block => use[liveBb] = Exposed(liveProg.code[liveBb], liveInst) /\ def[liveBb] = Written(liveProg.code[liveBb], liveInst)
        /\ \A b \in Block : b > liveBb => use[b] = {} /\ def[b] = {}
        /\ \A b \in Block : b < liveBb => use[b] = BlockUse(liveProg, b) /\ def[b] = BlockDef(liveProg, b)
        /\ liveBb >= 1
    /\ livePhase # "usedef" =>
        \A b \in Block : use[b] = BlockUse(liveProg, b) /\ def[b] = BlockDef(liveProg, b)

(* The blocks behind bb have been computed in this pass, from what it left *)
(* behind them and from what the last pass left before them.               *)
Pass ==
    livePhase = "flow" =>
        /\ \A b \in Block : b > liveBb =>
            /\ currIn[b]  = use[b] \union (currOut[b] \ def[b])
            /\ currOut[b] = UNION {IF s > b THEN currIn[s] ELSE prevIn[s] : s \in liveProg.succ[b]}
        /\ \A b \in Block : b <= liveBb => currIn[b] = prevIn[b] /\ currOut[b] = prevOut[b]

(* The last pass left no more than the equations allow, and this one has   *)
(* taken nothing back.                                                     *)
Growing ==
    \A b \in Block :
        /\ prevIn[b] \subseteq currIn[b] /\ prevOut[b] \subseteq currOut[b]
        /\ prevOut[b] \subseteq UNION {prevIn[s] : s \in liveProg.succ[b]}
        /\ livePhase # "usedef" => prevIn[b] \subseteq use[b] \union (prevOut[b] \ def[b])
        /\ livePhase = "usedef" => prevIn[b] = {} /\ prevOut[b] = {}

(* Nothing is in a set that is not live.                                   *)
OnlyLive ==
    \A b \in Block : currIn[b] \subseteq LiveAtStart(liveProg, b) /\ currOut[b] \subseteq LiveAtEnd(liveProg, b)

(* Before the first pass all sets are empty.                               *)
Started == livePhase = "usedef" => \A b \in Block : currIn[b] = {} /\ currOut[b] = {}

Solved == livePhase = "done" => SolvesLiveness(liveProg, currIn, currOut)

IInv ==
    /\ ThisProgram /\ Shape /\ Sets /\ Gathered /\ Pass /\ Growing /\ OnlyLive /\ Solved /\ Started
-----------------------------------------------------------------------------
(* One instruction more: it exposes what it reads and nothing before it    *)
(* wrote.                                                                  *)
LEMMA OneMore ==
    ASSUME NEW is \in Seq(Instruction), NEW n \in Nat, n < Len(is)
    PROVE  /\ Exposed(is, n + 1) = Exposed(is, n) \union (InstUse(is[n + 1]) \ Written(is, n))
           /\ Written(is, n + 1) = Written(is, n) \union InstDef(is[n + 1])
<1>1. is[n + 1] \in Instruction
    OBVIOUS
<1>2. InstUse(is[n + 1]) \subseteq Var /\ InstDef(is[n + 1]) \subseteq Var
    BY <1>1 DEF InstUse, InstDef, Instruction, Op
<1>3. Written(is, n + 1) = Written(is, n) \union InstDef(is[n + 1])
    BY <1>2 DEF Written
<1>4. ASSUME NEW v \in Exposed(is, n + 1)
      PROVE  v \in Exposed(is, n) \union (InstUse(is[n + 1]) \ Written(is, n))
    BY DEF Exposed, Written
<1>5. ASSUME NEW v \in Exposed(is, n)
      PROVE  v \in Exposed(is, n + 1)
    BY DEF Exposed
<1>6. ASSUME NEW v \in InstUse(is[n + 1]) \ Written(is, n)
      PROVE  v \in Exposed(is, n + 1)
    BY <1>2 DEF Exposed, Written
<1>7. QED
    BY <1>3, <1>4, <1>5, <1>6

(* No instruction taken: nothing exposed and nothing written.              *)
LEMMA NothingYet ==
    ASSUME NEW is
    PROVE  Exposed(is, 0) = {} /\ Written(is, 0) = {}
BY DEF Exposed, Written

(* What the equations put in a set is live when what they take from is.    *)
LEMMA LiveBackwards ==
    ASSUME NEW p, NEW b \in Block, NEW v \in Var,
           \/ v \in BlockUse(p, b)
           \/ v \notin BlockDef(p, b) /\ v \in LiveAtEnd(p, b)
    PROVE  v \in LiveAtStart(p, b)
<1> SUFFICES ASSUME NEW S \in SUBSET Block, ClosedForLive(p, v, S)
             PROVE  b \in S
    BY DEF LiveAtStart
<1>1. CASE v \in BlockUse(p, b)
    BY <1>1 DEF ClosedForLive
<1>2. CASE v \notin BlockDef(p, b) /\ v \in LiveAtEnd(p, b)
    <2>1. PICK s \in p.succ[b] : v \in LiveAtStart(p, s)
        BY <1>2 DEF LiveAtEnd
    <2>2. s \in S
        BY <2>1 DEF LiveAtStart
    <2>3. QED
        BY <1>2, <2>1, <2>2 DEF ClosedForLive
<1>3. QED
    BY <1>1, <1>2

(* A solution of the equations holds everything that is live.              *)
LEMMA SolutionsHoldAll ==
    ASSUME NEW p, IsProgram(p), NEW i \in BlockVars, NEW o \in BlockVars, SolvesLiveness(p, i, o)
    PROVE  \A b \in Block : LiveAtStart(p, b) \subseteq i[b] /\ LiveAtEnd(p, b) \subseteq o[b]
<1>1. ASSUME NEW b \in Block, NEW v \in LiveAtStart(p, b)
      PROVE  v \in i[b]
    <2> DEFINE S == {x \in Block : v \in i[x]}
    <2>1. v \in Var
        BY <1>1 DEF LiveAtStart
    <2>2. \A x \in Block : v \in BlockUse(p, x) => x \in S
        BY DEF SolvesLiveness
    <2>3. ASSUME NEW x \in Block, v \notin BlockDef(p, x), p.succ[x] \cap S # {}
          PROVE  x \in S
        <3>1. PICK s \in p.succ[x] : v \in i[s]
            BY <2>3
        <3>2. v \in o[x]
            BY <3>1 DEF SolvesLiveness
        <3>3. QED
            BY <3>2, <2>3 DEF SolvesLiveness
    <2>4. ClosedForLive(p, v, S)
        BY <2>2, <2>3 DEF ClosedForLive
    <2>5. QED
        BY <1>1, <2>4 DEF LiveAtStart
<1>2. ASSUME NEW b \in Block, NEW v \in LiveAtEnd(p, b)
      PROVE  v \in o[b]
    <2>1. PICK s \in p.succ[b] : v \in LiveAtStart(p, s)
        BY <1>2 DEF LiveAtEnd
    <2>2. s \in Block
        BY <2>1 DEF IsProgram
    <2>3. v \in i[s]
        BY <1>1, <2>1, <2>2
    <2>4. QED
        BY <2>1, <2>3 DEF SolvesLiveness
<1>3. QED
    BY <1>1, <1>2
-----------------------------------------------------------------------------
(* The invariant holds when LIR_DFG_compute_usedef starts.                 *)
LEMMA InitInv == LiveInit => IInv
<1> SUFFICES ASSUME LiveInit PROVE IInv
    OBVIOUS
<1> USE BlocksAssumption
<1>1. ThisProgram
    BY ProgramsAssumption DEF LiveInit, ThisProgram
<1>2. Shape
    BY DEF LiveInit, Shape
<1>3. Sets
    BY DEF LiveInit, Sets, BlockVars, Nowhere
<1>4. Gathered
    <2>1. liveProg.code[1] \in Seq(Instruction)
        BY <1>1 DEF ThisProgram, IsProgram, Block
    <2>2. Exposed(liveProg.code[1], 0) = {} /\ Written(liveProg.code[1], 0) = {}
        BY NothingYet
    <2>3. QED
        <3>1. /\ livePhase = "usedef" /\ liveBb = 1 /\ liveInst = 0
              /\ \A b \in Block : use[b] = {} /\ def[b] = {}
            BY DEF LiveInit, Nowhere
        <3>2. 1 \in Block /\ 0 <= Len(liveProg.code[1])
            BY <2>1 DEF Block
        <3>3. \A b \in Block : ~(b < 1)
            BY DEF Block
        <3>4. liveInst <= Len(liveProg.code[liveBb])
            BY <3>1, <3>2
        <3>5. use[liveBb] = Exposed(liveProg.code[liveBb], liveInst) /\ def[liveBb] = Written(liveProg.code[liveBb], liveInst)
            BY <3>1, <3>2, <2>2
        <3>6. \A b \in Block : ~(b < liveBb)
            BY <3>1, <3>3
        <3>7. liveBb >= 1
            BY <3>1
        <3>8. QED
            BY <3>1, <3>4, <3>5, <3>6, <3>7 DEF Gathered
<1>5. Pass /\ Solved /\ Started
    BY DEF LiveInit, Pass, Solved, Started, Nowhere
<1>6. Growing
    BY DEF LiveInit, Growing, Nowhere
<1>7. OnlyLive
    BY DEF LiveInit, OnlyLive, Nowhere
<1>8. QED
    BY <1>1, <1>2, <1>3, <1>4, <1>5, <1>6, <1>7 DEF IInv

(* One instruction of LIR_DFG_compute_usedef keeps the invariant.          *)
LEMMA UseDefInv == IInv /\ UseDef => IInv'
<1> SUFFICES ASSUME IInv, UseDef PROVE IInv'
    OBVIOUS
<1> USE BlocksAssumption
<1> DEFINE is == liveProg.code[liveBb]
<1>1. is \in Seq(Instruction) /\ liveInst \in Nat /\ liveInst < Len(is) /\ liveBb \in Block
    BY DEF IInv, ThisProgram, IsProgram, UseDef, Gathered, Shape, Block
<1>2. /\ Exposed(is, liveInst + 1) = Exposed(is, liveInst) \union (InstUse(is[liveInst + 1]) \ Written(is, liveInst))
      /\ Written(is, liveInst + 1) = Written(is, liveInst) \union InstDef(is[liveInst + 1])
    BY <1>1, OneMore
<1>3. use[liveBb] = Exposed(is, liveInst) /\ def[liveBb] = Written(is, liveInst)
    BY <1>1 DEF IInv, Gathered, UseDef
<1>4. /\ use' = [use EXCEPT ![liveBb] = Exposed(is, liveInst + 1)]
      /\ def' = [def EXCEPT ![liveBb] = Written(is, liveInst + 1)]
    BY <1>2, <1>3, <1>1 DEF UseDef
<1>5. ThisProgram' /\ Shape' /\ Pass' /\ Solved'
    BY <1>1 DEF IInv, ThisProgram, Shape, UseDef, Pass, Solved
<1>6. Sets'
    <2>1. Exposed(is, liveInst + 1) \subseteq Var /\ Written(is, liveInst + 1) \subseteq Var
        BY DEF Exposed, Written
    <2>2. use \in BlockVars /\ def \in BlockVars
        BY DEF IInv, Sets
    <2>3. use' \in BlockVars
        BY <1>4, <2>1, <2>2 DEF BlockVars
    <2>4. def' \in BlockVars
        BY <1>4, <2>1, <2>2 DEF BlockVars
    <2>5. QED
        BY <2>3, <2>4 DEF IInv, Sets, UseDef, flow
<1>7. Gathered'
    <2>1. use'[liveBb] = Exposed(is, liveInst') /\ def'[liveBb] = Written(is, liveInst')
        BY <1>1, <1>4 DEF UseDef, IInv, Sets, BlockVars
    <2>2. \A b \in Block : b # liveBb => use'[b] = use[b] /\ def'[b] = def[b]
        BY <1>4 DEF IInv, Sets, BlockVars
    <2>3. QED
        BY <1>1, <2>1, <2>2 DEF IInv, Gathered, UseDef, Shape, Block, BlockUse, BlockDef
<1>8. Growing'
    BY DEF IInv, Growing, UseDef, flow
<1>9. OnlyLive' /\ Started'
    BY DEF IInv, OnlyLive, Started, UseDef, flow
<1>10. QED
    BY <1>5, <1>6, <1>7, <1>8, <1>9 DEF IInv

(* So does going to the next block, and to the flow after the last one.    *)
LEMMA UseDefNextInv == IInv /\ (UseDefNextBlock \/ UseDefDone) => IInv'
<1> SUFFICES ASSUME IInv, UseDefNextBlock \/ UseDefDone PROVE IInv'
    OBVIOUS
<1> USE BlocksAssumption
<1>1. ThisProgram' /\ Shape'
    BY DEF IInv, ThisProgram, Shape, UseDefNextBlock, UseDefDone
<1>2. Sets'
    BY DEF IInv, Sets, UseDefNextBlock, UseDefDone, flow
<1>3. Solved' /\ OnlyLive' /\ Started'
    BY DEF IInv, Solved, OnlyLive, Started, UseDefNextBlock, UseDefDone, flow
<1>4. CASE UseDefNextBlock
    <2>1. liveBb \in Block /\ liveProg' = liveProg /\ ThisProgram
        BY <1>4 DEF IInv, Gathered, Shape, UseDefNextBlock, Block
    <2>2. use[liveBb] = BlockUse(liveProg, liveBb) /\ def[liveBb] = BlockDef(liveProg, liveBb)
        BY <1>4, <2>1 DEF IInv, Gathered, UseDefNextBlock, BlockUse, BlockDef
    <2>3. \A b \in Block : Len(liveProg.code[b]) \in Nat
        BY <2>1 DEF ThisProgram, IsProgram
    <2>4. Gathered'
        <3>1. Exposed(liveProg.code[liveBb + 1], 0) = {} /\ Written(liveProg.code[liveBb + 1], 0) = {}
            BY NothingYet
        <3>2. UNCHANGED <<liveProg, livePhase, use, def>> /\ liveBb' = liveBb + 1 /\ liveInst' = 0 /\ livePhase = "usedef"
            BY <1>4 DEF UseDefNextBlock
        <3>3. liveBb' \in Block => use[liveBb'] = {} /\ def[liveBb'] = {}
            BY <3>2, <2>1 DEF IInv, Gathered, Block
        <3>4. \A b \in Block : b > liveBb' => use[b] = {} /\ def[b] = {}
            BY <3>2, <2>1 DEF IInv, Gathered, Block
        <3>5. \A b \in Block : b < liveBb' => use[b] = BlockUse(liveProg, b) /\ def[b] = BlockDef(liveProg, b)
            BY <3>2, <2>1, <2>2 DEF IInv, Gathered, Block
        <3>6. liveBb' <= NB => liveInst' <= Len(liveProg.code[liveBb'])
            BY <3>2, <2>1, <2>3 DEF Block
        <3>7. liveBb' >= 1
            BY <3>2, <2>1 DEF Block
        <3>8. QED
            BY <3>1, <3>2, <3>3, <3>4, <3>5, <3>6, <3>7 DEF Gathered
    <2>5. Pass' /\ Growing'
        BY <1>4 DEF IInv, Pass, Growing, UseDefNextBlock, flow
    <2>6. QED
        BY <1>1, <1>2, <1>3, <2>4, <2>5 DEF IInv
<1>5. CASE UseDefDone
    <2>1. Gathered'
        BY <1>5 DEF IInv, Gathered, Shape, UseDefDone, Block
    <2>2. Growing'
        BY <1>5 DEF IInv, Growing, UseDefDone, flow
    <2>3. \A b \in Block : prevIn[b] = {} /\ prevOut[b] = {}
        BY <1>5 DEF IInv, Growing, UseDefDone
    <2>4. \A b \in Block : currIn[b] = prevIn[b] /\ currOut[b] = prevOut[b]
        BY <1>5, <2>3 DEF IInv, Started, UseDefDone
    <2>5. Pass'
        BY <1>5, <2>4 DEF Pass, UseDefDone, flow, Block
    <2>6. QED
        BY <1>1, <1>2, <1>3, <2>1, <2>2, <2>5 DEF IInv
<1>6. QED
    BY <1>4, <1>5

(* _compute_out and _compute_in of one block keep the invariant: the block *)
(* joins those this pass has computed, and only live variables are added.  *)
LEMMA ComputeInv == IInv /\ Compute => IInv'
<1> SUFFICES ASSUME IInv, Compute PROVE IInv'
    OBVIOUS
<1> USE BlocksAssumption
<1> DEFINE o == UNION {currIn[s] : s \in liveProg.succ[liveBb]}
           i == use[liveBb] \union (o \ def[liveBb])
<1>1. /\ livePhase = "flow" /\ liveBb \in Block /\ liveBb' = liveBb - 1
      /\ UNCHANGED <<liveProg, livePhase, liveInst, use, def, prevIn, prevOut>>
      /\ currOut' = [currOut EXCEPT ![liveBb] = o] /\ currIn' = [currIn EXCEPT ![liveBb] = i]
    BY DEF IInv, Shape, Compute, ComputeOut, ComputeIn, Block
<1>2. currIn \in BlockVars /\ currOut \in BlockVars /\ use \in BlockVars /\ def \in BlockVars
    BY DEF IInv, Sets
<1>3. liveProg.succ[liveBb] \subseteq Block /\ IsProgram(liveProg)
    BY <1>1 DEF IInv, ThisProgram, IsProgram
<1>4. o \subseteq Var /\ i \subseteq Var
    BY <1>1, <1>2, <1>3 DEF BlockVars
<1>5. /\ currIn'[liveBb] = i /\ currOut'[liveBb] = o
      /\ \A b \in Block \ {liveBb} : currIn'[b] = currIn[b] /\ currOut'[b] = currOut[b]
      /\ currIn' \in BlockVars /\ currOut' \in BlockVars
    BY <1>1, <1>2, <1>4 DEF BlockVars
<1> HIDE DEF o, i
<1>6. ThisProgram' /\ Shape' /\ Gathered' /\ Solved' /\ Started'
    BY <1>1 DEF IInv, ThisProgram, Shape, Gathered, Solved, Started, Block
<1>7. Sets'
    BY <1>1, <1>5 DEF IInv, Sets
<1>8. Pass'
    <2> DEFINE Seen(b, s) == IF s > b THEN currIn[s] ELSE prevIn[s]
    <2>1. ASSUME NEW b \in Block, b > liveBb
          PROVE  /\ currIn'[b] = use[b] \union (currOut'[b] \ def[b])
                 /\ currOut'[b] = UNION {IF s > b THEN currIn'[s] ELSE prevIn[s] : s \in liveProg.succ[b]}
        <3>1. /\ currIn[b] = use[b] \union (currOut[b] \ def[b])
              /\ currOut[b] = UNION {IF s > b THEN currIn[s] ELSE prevIn[s] : s \in liveProg.succ[b]}
            BY <1>1, <2>1 DEF IInv, Pass
        <3>2. \A s \in liveProg.succ[b] : s > b => currIn'[s] = currIn[s]
            BY <1>1, <1>3, <1>5, <2>1 DEF IsProgram, Block
        <3>3. currIn'[b] = currIn[b] /\ currOut'[b] = currOut[b]
            BY <1>1, <1>5, <2>1 DEF Block
        <3>4. QED
            BY <3>1, <3>2, <3>3
    <2>2. /\ currIn'[liveBb] = use[liveBb] \union (currOut'[liveBb] \ def[liveBb])
          /\ currOut'[liveBb] = UNION {IF s > liveBb THEN currIn'[s] ELSE prevIn[s] : s \in liveProg.succ[liveBb]}
        <3>1. \A s \in liveProg.succ[liveBb] : currIn[s] = IF s > liveBb THEN currIn'[s] ELSE prevIn[s]
            BY <1>1, <1>3, <1>5 DEF IInv, Pass, Block
        <3>2. o = UNION {IF s > liveBb THEN currIn'[s] ELSE prevIn[s] : s \in liveProg.succ[liveBb]}
            BY <3>1 DEF o
        <3>3. QED
            BY <1>5, <3>2 DEF i
    <2>3. \A b \in Block : b <= liveBb' => currIn'[b] = prevIn[b] /\ currOut'[b] = prevOut[b]
        BY <1>1, <1>5 DEF IInv, Pass, Block
    <2>4. \A b \in Block : b > liveBb' => b > liveBb \/ b = liveBb
        BY <1>1 DEF Block
    <2>5. QED
        BY <1>1, <2>1, <2>2, <2>3, <2>4 DEF Pass
<1>9. Growing'
    <2>1. currIn[liveBb] = prevIn[liveBb] /\ currOut[liveBb] = prevOut[liveBb]
        BY <1>1 DEF IInv, Pass, Block
    <2>2. prevOut[liveBb] \subseteq o
        <3>1. \A s \in liveProg.succ[liveBb] : prevIn[s] \subseteq currIn[s]
            BY <1>3 DEF IInv, Growing
        <3>2. prevOut[liveBb] \subseteq UNION {prevIn[s] : s \in liveProg.succ[liveBb]}
            BY <1>1 DEF IInv, Growing
        <3>3. QED
            BY <3>1, <3>2 DEF o
    <2>3. prevIn[liveBb] \subseteq i
        BY <1>1, <2>2 DEF IInv, Growing, i
    <2>4. \A b \in Block : prevIn[b] \subseteq currIn'[b] /\ prevOut[b] \subseteq currOut'[b]
        BY <1>5, <2>2, <2>3 DEF IInv, Growing
    <2>5. QED
        BY <1>1, <2>4 DEF IInv, Growing
<1>10. OnlyLive'
    <2>1. o \subseteq LiveAtEnd(liveProg, liveBb)
        BY <1>3 DEF IInv, OnlyLive, LiveAtEnd, o
    <2>2. use[liveBb] = BlockUse(liveProg, liveBb) /\ def[liveBb] = BlockDef(liveProg, liveBb)
        BY <1>1 DEF IInv, Gathered
    <2>3. i \subseteq LiveAtStart(liveProg, liveBb)
        BY <1>1, <1>4, <2>1, <2>2, LiveBackwards DEF i
    <2>4. QED
        BY <1>1, <1>5, <2>1, <2>3 DEF IInv, OnlyLive
<1>11. QED
    BY <1>6, <1>7, <1>8, <1>9, <1>10 DEF IInv

(* Starting another pass keeps it: what this pass left becomes the past.   *)
LEMMA AgainInv == IInv /\ Again => IInv'
<1> SUFFICES ASSUME IInv, Again PROVE IInv'
    OBVIOUS
<1> USE BlocksAssumption
<1>1. /\ livePhase = "flow" /\ liveBb = 0 /\ liveBb' = NB /\ prevIn' = currIn /\ prevOut' = currOut
      /\ UNCHANGED <<liveProg, livePhase, liveInst, use, def, currIn, currOut>>
    BY DEF Again
<1>2. ThisProgram' /\ Shape' /\ Gathered' /\ Solved' /\ Started' /\ OnlyLive'
    BY <1>1 DEF IInv, ThisProgram, Shape, Gathered, Solved, Started, OnlyLive
<1>3. Sets'
    BY <1>1 DEF IInv, Sets
<1>4. Pass'
    BY <1>1 DEF Pass, Block
<1>5. Growing'
    <2>1. ASSUME NEW b \in Block
          PROVE  currOut[b] \subseteq UNION {currIn[s] : s \in liveProg.succ[b]}
        <3>1. currOut[b] = UNION {IF s > b THEN currIn[s] ELSE prevIn[s] : s \in liveProg.succ[b]}
            BY <1>1 DEF IInv, Pass, Block
        <3>2. \A s \in liveProg.succ[b] : prevIn[s] \subseteq currIn[s]
            BY DEF IInv, Growing, ThisProgram, IsProgram
        <3>3. QED
            BY <3>1, <3>2
    <2>2. \A b \in Block : currIn[b] = use[b] \union (currOut[b] \ def[b])
        BY <1>1 DEF IInv, Pass, Block
    <2>3. QED
        BY <1>1, <2>1, <2>2 DEF Growing
<1>6. QED
    BY <1>2, <1>3, <1>4, <1>5 DEF IInv

(* When a pass changed nothing, its sets solve the equations.              *)
LEMMA DoneInv == IInv /\ Done => IInv'
<1> SUFFICES ASSUME IInv, Done PROVE IInv'
    OBVIOUS
<1> USE BlocksAssumption
<1>1. /\ livePhase = "flow" /\ liveBb = 0 /\ currIn = prevIn /\ livePhase' = "done"
      /\ UNCHANGED <<liveProg, liveBb, liveInst, use, def, currIn, currOut, prevIn, prevOut>>
    BY DEF Done, Same, flow
<1>2. ThisProgram' /\ Shape' /\ Sets' /\ Gathered' /\ Pass' /\ Started' /\ OnlyLive'
    BY <1>1 DEF IInv, ThisProgram, Shape, Sets, Gathered, Pass, Started, OnlyLive
<1>3. Growing'
    BY <1>1 DEF IInv, Growing
<1>4. SolvesLiveness(liveProg, currIn, currOut)
    <2>1. \A b \in Block : use[b] = BlockUse(liveProg, b) /\ def[b] = BlockDef(liveProg, b)
        BY <1>1 DEF IInv, Gathered
    <2>2. \A b \in Block : currIn[b] = use[b] \union (currOut[b] \ def[b])
        BY <1>1 DEF IInv, Pass, Block
    <2>3. \A b \in Block : currOut[b] = UNION {IF s > b THEN currIn[s] ELSE currIn[s] : s \in liveProg.succ[b]}
        BY <1>1 DEF IInv, Pass, Block
    <2>4. \A b \in Block : currOut[b] = UNION {currIn[s] : s \in liveProg.succ[b]}
        BY <2>3
    <2>5. QED
        BY <2>1, <2>2, <2>4 DEF SolvesLiveness
<1>5. Solved'
    BY <1>1, <1>4 DEF Solved
<1>6. QED
    BY <1>2, <1>3, <1>5 DEF IInv
-----------------------------------------------------------------------------
(* Every step keeps the invariant.                                         *)
LEMMA StepInv == IInv /\ [LiveNext]_liveVars => IInv'
<1> SUFFICES ASSUME IInv, [LiveNext]_liveVars PROVE IInv'
    OBVIOUS
<1>1. CASE UNCHANGED liveVars
    BY <1>1 DEF liveVars, flow, IInv, ThisProgram, Shape, Sets, Gathered, Pass, Growing, OnlyLive, Solved, Started
<1>2. QED
    BY <1>1, UseDefInv, UseDefNextInv, ComputeInv, AgainInv, DoneInv DEF LiveNext

(* The invariant holds throughout compute_usedef and compute_inout.        *)
THEOREM Invariance == LiveSpec => []IInv
BY InitInv, StepInv, PTL DEF LiveSpec

(* The sets of every block are sets of variables, whatever the function.   *)
THEOREM TypeCorrect == LiveSpec => []LiveTypeOK
<1>1. IInv => LiveTypeOK
    BY DEF IInv, Shape, Sets, LiveTypeOK
<1>2. QED
    BY <1>1, Invariance, PTL

(* When the analysis ends a variable is in the set of a block if and only  *)
(* if it is live there, for every function (src/lir/dfg/dfg.c).            *)
THEOREM FixpointIsExact == LiveSpec => []LiveExact
<1>1. IInv => LiveExact
    <2> SUFFICES ASSUME IInv, livePhase = "done" PROVE
            \A b \in Block : currIn[b] = LiveAtStart(liveProg, b) /\ currOut[b] = LiveAtEnd(liveProg, b)
        BY DEF LiveExact
    <2>1. \A b \in Block : LiveAtStart(liveProg, b) \subseteq currIn[b] /\ LiveAtEnd(liveProg, b) \subseteq currOut[b]
        BY SolutionsHoldAll DEF IInv, Solved, Sets, ThisProgram
    <2>2. \A b \in Block : currIn[b] \subseteq LiveAtStart(liveProg, b) /\ currOut[b] \subseteq LiveAtEnd(liveProg, b)
        BY DEF IInv, OnlyLive
    <2>3. QED
        BY <2>1, <2>2
<1>2. QED
    BY <1>1, Invariance, PTL

(* No step takes a variable back from a set, for every function.           *)
THEOREM SetsOnlyGrow == LiveSpec => OnlyGrows
<1> DEFINE Grow == \A b \in Block : currIn[b] \subseteq currIn'[b] /\ currOut[b] \subseteq currOut'[b]
<1>1. IInv /\ IInv' /\ [LiveNext]_liveVars => [Grow]_liveVars
    <2> SUFFICES ASSUME IInv, IInv', LiveNext PROVE Grow
        BY DEF liveVars
    <2>1. CASE Compute
        <3>1. /\ livePhase = "flow" /\ liveBb \in Block /\ UNCHANGED <<prevIn, prevOut>>
              /\ \A b \in Block \ {liveBb} : currIn'[b] = currIn[b] /\ currOut'[b] = currOut[b]
            BY <2>1 DEF Compute, IInv, Shape, Sets, BlockVars, Block
        <3>2. currIn[liveBb] = prevIn[liveBb] /\ currOut[liveBb] = prevOut[liveBb]
            BY <3>1 DEF IInv, Pass, Block
        <3>3. prevIn'[liveBb] \subseteq currIn'[liveBb] /\ prevOut'[liveBb] \subseteq currOut'[liveBb]
            BY <3>1 DEF IInv, Growing
        <3>4. QED
            BY <3>1, <3>2, <3>3
    <2>2. CASE UseDef \/ UseDefNextBlock \/ UseDefDone \/ Again \/ Done
        BY <2>2 DEF UseDef, UseDefNextBlock, UseDefDone, Again, Done, flow
    <2>3. QED
        BY <2>1, <2>2 DEF LiveNext
<1>2. QED
    BY <1>1, Invariance, PTL DEF LiveSpec, OnlyGrows
=============================================================================
