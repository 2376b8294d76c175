---------------------------- MODULE HirGraphProofs ----------------------------
(***************************************************************************)
(* Linking, cutting and squeezing keep the program's flow, for every       *)
(* number of blocks and every function; and in SSA form the phi functions  *)
(* stand exactly on the iterated dominance frontier of the definitions,    *)
(* and on every path through the renamed function every use reads what the *)
(* last definition of the variable made.                                   *)
(***************************************************************************)
EXTENDS ControlFlowGraph, SsaConstruction, FlowGraphProofs

(***************************************************************************)
(* The control flow graph.                                                 *)
(*                                                                         *)
(* The argument: a live block other than the entry has a live predecessor, *)
(* which is not cut, so the block is not cut either; a block has the one   *)
(* successor it is merged with and is its one predecessor; every block     *)
(* lies once in the bodies of the listed blocks, so what leads to the head *)
(* of a body is the end of another; and a merge never makes a block behind *)
(* the iterator mergeable, because the successors of what was merged keep  *)
(* the number of their predecessors.                                       *)
(***************************************************************************)

(* What the instructions say.                                              *)

LEMMA EntryIsBlock == Entry \in Block
  BY NAssumption DEF Entry, Block

LEMMA Terms ==
    ASSUME NEW t \in Term
    PROVE  \/ t.op = "ret"
           \/ t.op = "fall"
           \/ t.op = "jmp" /\ t.to \in Label
           \/ t.op = "table" /\ t.to \subseteq Label
           \/ t.op = "if" /\ t.true \in Label /\ t.false \in Label
  BY DEF Term

(* Control never comes back to the entry.                                  *)
LEMMA TargetsAreLabels ==
    ASSUME prog \in [Block -> Term], NEW b \in Block
    PROVE  Destinations(b) \subseteq Label
<1>1. prog[b] \in Term
  OBVIOUS
<1>2. {b + 1} \intersect Block \subseteq Label
  BY NAssumption DEF Label, Block, Entry
<1> QED BY <1>1, <1>2, Terms DEF Destinations

LEMMA FlowIsEdges ==
    ASSUME prog \in [Block -> Term]
    PROVE  /\ Flow \in Edges
           /\ \A b \in Block : Flow[b] = Destinations(b)
  BY TargetsAreLabels DEF Flow, Edges, Label

LEMMA LiveStarts ==
    ASSUME prog \in [Block -> Term]
    PROVE  Live \subseteq Block /\ Entry \in Live
  BY EntryIsBlock DEF Live, ReachableBlocks, Reachable

LEMMA FlowStays ==
    ASSUME UNCHANGED prog
    PROVE  /\ \A b \in Block : Destinations(b)' = Destinations(b)
           /\ Flow' = Flow /\ Live' = Live
<1>1. \A b \in Block : Destinations(b)' = Destinations(b)
  BY DEF Destinations
<1>2. Flow' = Flow
  BY <1>1 DEF Flow
<1> QED BY <1>1, <1>2 DEF Live

(* Control passes from live blocks to live blocks.                         *)
LEMMA LiveGoesOn ==
    ASSUME prog \in [Block -> Term], NEW p \in Live, NEW b \in Flow[p]
    PROVE  b \in Live
<1>1. p \in Block /\ b \in Block
  BY FlowIsEdges, LiveStarts DEF Edges
<1>2. SUFFICES ASSUME NEW S \in SUBSET Block, Entry \in S, \A x \in S : Flow[x] \subseteq S
               PROVE  b \in S
  BY <1>1 DEF Live, ReachableBlocks, Reachable
<1>3. p \in S
  BY <1>2 DEF Live, ReachableBlocks, Reachable
<1> QED BY <1>2, <1>3

(* A live block other than the entry has a live block before it: without   *)
(* one, the live blocks but this one were closed.                          *)
LEMMA LiveComesFrom ==
    ASSUME prog \in [Block -> Term], NEW b \in Live, b # Entry
    PROVE  \E p \in Live : b \in Flow[p]
<1>1. SUFFICES ASSUME \A p \in Live : b \notin Flow[p] PROVE FALSE
  OBVIOUS
<1> DEFINE S == Live \ {b}
<1>2. S \in SUBSET Block /\ Entry \in S
  BY LiveStarts
<1>3. \A x \in S : Flow[x] \subseteq S
  BY <1>1, LiveGoesOn
<1>4. b \in S
  BY <1>2, <1>3 DEF Live, ReachableBlocks, Reachable
<1> QED BY <1>4

-----------------------------------------------------------------------------
(* The invariant.                                                          *)

Links(b) == {l[b], jmp[b]} \ {NULL}

(* A block whose one way on is a link has no other.                        *)
OneWay(b, S) == (l[b] = NULL) # (jmp[b] = NULL) => S = {OnlyWayOn(b)}

(* What the links and the table of a block lead to is what its last        *)
(* instruction names.                                                      *)
Linked(b) ==
    /\ succ[b] \union Links(b) = Destinations(b)
    /\ OneWay(b, Destinations(b))

Linking ==
    phase = "link" =>
        \A b \in Block :
            /\ b < at => Linked(b)
            /\ b >= at => l[b] = NULL /\ jmp[b] = NULL /\ succ[b] = {}
            /\ pred[b] = {}

Joining ==
    phase = "edges" =>
        \A b \in Block :
            /\ Linked(b)
            /\ b < at => succ[b] = Destinations(b)
            /\ pred[b] = {p \in Block : p < at /\ b \in succ[p]}

(* Nothing has been merged yet.                                            *)
SideUntouched ==
    phase \in {"link", "edges", "clean"} =>
        /\ list = [i \in Block |-> i]
        /\ body = [b \in Block |-> <<b>>]
        /\ phase # "clean" => unused = {}
        /\ phase = "clean" => at >= 2

(* A block keeps its edges until it is cut off.                            *)
Cutting ==
    phase = "clean" =>
        \A b \in Block : IF b \in unused THEN succ[b] = {} ELSE succ[b] = Destinations(b)

(* From the cut on.                                                        *)
Built == phase \in {"clean", "squeeze", "squeezed"}
EdgesKnown ==
    Built => \A b \in Block :
                /\ succ[b] \subseteq Label
                /\ b \in ListedBlocks => OneWay(b, succ[b])

Squeezing == phase \in {"squeeze", "squeezed"}

(* The listed blocks, each once.                                           *)
ListOK ==
    /\ list \in Seq(Block) /\ Len(list) \in 1..N /\ DOMAIN list = 1..Len(list)
    /\ \A i, j \in 1..Len(list) : list[i] = list[j] => i = j
    /\ Squeezing => at =< Len(list) + 1
    /\ phase = "squeezed" => at = Len(list) + 1

(* A body begins with its block and is live or dead as a whole.            *)
BodyOK(b) ==
    /\ body[b] # <<>> /\ body[b][1] = b
    /\ \A i \in 1..Len(body[b]) : body[b][i] \in Live <=> b \in Live
BodyFlows(b) ==
    /\ \A i \in 1..(Len(body[b]) - 1) : Flow[body[b][i]] = {body[b][i + 1]}
    /\ succ[b] = Flow[body[b][Len(body[b])]]
Bodies == Squeezing => \A b \in ListedBlocks : BodyOK(b) /\ (b \in Live => BodyFlows(b))

Kept ==
    Squeezing =>
        /\ \A b \in Live : \E c \in ListedBlocks : \E i \in 1..Len(body[c]) : body[c][i] = b
        /\ \A c, d \in ListedBlocks : \A i \in 1..Len(body[c]) : \A j \in 1..Len(body[d]) :
              body[c][i] = body[d][j] => c = d /\ i = j

(* What the iterator has passed stays merged.                              *)
Passed == Squeezing => \A i \in 1..(at - 1) : ~Mergeable(list[i])

FlowInv ==
    /\ BuildTypeOK /\ Linking /\ Joining /\ SideUntouched /\ Cutting
    /\ EdgesMirrored /\ EdgesKnown /\ LiveNeverUnused
    /\ ListOK /\ Bodies /\ Kept /\ Passed

-----------------------------------------------------------------------------
(* Building the links and the edges.                                       *)

LEMMA InitFlow ==
    ASSUME BuildInit
    PROVE  FlowInv
<1>1. BuildTypeOK
  <2>1. prog \in [Block -> Term]
    BY ProgramsAssumption DEF BuildInit
  <2>2. list \in Seq(Block) /\ \A b \in Block : <<b>> \in Seq(Block)
    BY NAssumption DEF BuildInit, Block
  <2>3. 1 \in 1..(N + 1)
    BY NAssumption
  <2> QED BY <2>1, <2>2, <2>3 DEF BuildInit, BuildTypeOK, Edges
<1>2. Linking /\ Joining /\ SideUntouched /\ Cutting /\ EdgesMirrored /\ EdgesKnown
  <2>1. \A b \in Block : ~(b < 1)
    BY DEF Block
  <2> QED BY <2>1 DEF BuildInit, Linking, Joining, SideUntouched, Cutting, EdgesMirrored, EdgesKnown, Built
<1>3. LiveNeverUnused /\ Bodies /\ Kept /\ Passed
  BY DEF BuildInit, LiveNeverUnused, Bodies, Kept, Passed, Squeezing
<1>4. ListOK
  BY <1>1, NAssumption DEF BuildInit, ListOK, Block, Squeezing
<1> QED BY <1>1, <1>2, <1>3, <1>4 DEF FlowInv

LEMMA LinkBlockFlow ==
    ASSUME FlowInv, LinkBlock
    PROVE  FlowInv'
<1> USE DEF FlowInv
<1>1. at \in Block /\ at' = at + 1 /\ phase = "link" /\ phase' = "link"
  BY DEF LinkBlock
<1>2. prog[at] \in Term
  BY <1>1 DEF BuildTypeOK
<1>3. PICK b \in Block : b = at
  BY <1>1
<1>4. /\ l' \in [Block -> Block \union {NULL}] /\ jmp' \in [Block -> Block \union {NULL}]
      /\ succ' \in Edges
      /\ Linked(b)'
      /\ \A c \in Block \ {b} : l'[c] = l[c] /\ jmp'[c] = jmp[c] /\ succ'[c] = succ[c]
  <2>1. l[b] = NULL /\ jmp[b] = NULL /\ succ[b] = {}
    BY <1>1, <1>3, NAssumption DEF Linking, Block
  <2>2. Label \subseteq Block /\ NULL \notin Block
    BY DEF Label, NULL, Block
  <2>3. /\ l \in [Block -> Block \union {NULL}] /\ jmp \in [Block -> Block \union {NULL}]
        /\ succ \in [Block -> SUBSET Block] /\ prog' = prog
    BY DEF BuildTypeOK, Edges, LinkBlock
  <2> DEFINE Result(x, y, S) ==
               /\ l' = [l EXCEPT ![b] = x] /\ jmp' = [jmp EXCEPT ![b] = y]
               /\ succ' = [succ EXCEPT ![b] = S]
  <2>4. ASSUME NEW x \in Block \union {NULL}, NEW y \in Block \union {NULL},
               NEW S \in SUBSET Block, Result(x, y, S),
               Destinations(b) = S \union ({x, y} \ {NULL}),
               (x = NULL) # (y = NULL) => S = {}
        PROVE  <1>4!1 /\ <1>4!2 /\ <1>4!3 /\ <1>4!4
    <3>1. l'[b] = x /\ jmp'[b] = y /\ succ'[b] = S /\ Destinations(b)' = Destinations(b)
      BY <2>3, <2>4 DEF Destinations
    <3>2. Linked(b)'
      BY <2>2, <2>4, <3>1 DEF Linked, Links, OneWay, OnlyWayOn
    <3> QED BY <2>3, <2>4, <3>2 DEF Edges
  <2> HIDE DEF Result
  <2>5. CASE prog[b].op = "ret"
    <3>1. Result(NULL, NULL, {}) /\ Destinations(b) = {}
      BY <1>3, <2>1, <2>3, <2>5 DEF LinkBlock, Result, Destinations
    <3> QED BY <2>4, <3>1
  <2>6. CASE prog[b].op = "jmp"
    <3>1. prog[b].to \in Block
      BY <1>2, <1>3, <2>2, <2>6, Terms
    <3>2. Result(NULL, prog[b].to, {}) /\ Destinations(b) = {prog[b].to}
      BY <1>3, <2>1, <2>3, <2>6 DEF LinkBlock, Result, Destinations
    <3> QED BY <2>2, <2>4, <3>1, <3>2
  <2>7. CASE prog[b].op = "table"
    <3>1. prog[b].to \subseteq Block
      BY <1>2, <1>3, <2>2, <2>7, Terms
    <3>2. Result(NULL, NULL, prog[b].to) /\ Destinations(b) = prog[b].to
      BY <1>3, <2>1, <2>3, <2>7 DEF LinkBlock, Result, Destinations
    <3> QED BY <2>4, <3>1, <3>2
  <2>8. CASE prog[b].op = "if"
    <3>1. prog[b].true \in Block /\ prog[b].false \in Block
      BY <1>2, <1>3, <2>2, <2>8, Terms
    <3>2. /\ Result(prog[b].true, prog[b].false, {})
          /\ Destinations(b) = {prog[b].true, prog[b].false}
      BY <1>3, <2>1, <2>3, <2>8 DEF LinkBlock, Result, Destinations
    <3> QED BY <2>2, <2>4, <3>1, <3>2
  <2>9. CASE prog[b].op = "fall"
    <3>1. /\ Following(b) \in Block \union {NULL}
          /\ {b + 1} \intersect Block = {Following(b)} \ {NULL}
      BY NAssumption DEF Following, Block, NULL
    <3>2. Result(Following(b), NULL, {}) /\ Destinations(b) = {b + 1} \intersect Block
      BY <1>3, <2>1, <2>3, <2>9 DEF LinkBlock, Result, Destinations
    <3>3. Destinations(b) = {} \union ({Following(b), NULL} \ {NULL})
      BY <3>1, <3>2
    <3>4. DEFINE next == Following(b)
    <3>5. next \in Block \union {NULL} /\ NULL \in Block \union {NULL} /\ {} \in SUBSET Block
      BY <3>1
    <3>6. Result(next, NULL, {}) /\ Destinations(b) = {} \union ({next, NULL} \ {NULL})
      BY <3>2, <3>3
    <3> HIDE DEF next
    <3> QED BY <2>4, <3>5, <3>6
  <2> QED BY <1>2, <1>3, <2>5, <2>6, <2>7, <2>8, <2>9, Terms
<1>5. BuildTypeOK'
  BY <1>1, <1>4, NAssumption DEF BuildTypeOK, LinkBlock, Block
<1>6. Linking'
  <2>1. ASSUME NEW c \in Block, c # b
        PROVE  Linked(c) => Linked(c)'
    BY <1>4, <2>1 DEF Linked, Links, OneWay, OnlyWayOn, Destinations, LinkBlock
  <2>2. \A c \in Block : (c < at + 1 <=> c < at \/ c = b) /\ (c >= at + 1 => c >= at /\ c # b)
    BY <1>1, <1>3 DEF Block
  <2> QED BY <1>1, <1>4, <2>1, <2>2 DEF Linking, LinkBlock
<1>7. (Joining /\ SideUntouched /\ Cutting /\ EdgesMirrored /\ EdgesKnown /\ Bodies /\ Kept /\ Passed)'
  BY <1>1 DEF Joining, SideUntouched, Cutting, EdgesMirrored, EdgesKnown, Bodies, Kept, Passed,
              Built, Squeezing, LinkBlock
<1>8. LiveNeverUnused' /\ ListOK'
  BY <1>1 DEF LiveNeverUnused, ListOK, SideUntouched, Squeezing, LinkBlock
<1> QED BY <1>5, <1>6, <1>7, <1>8

LEMMA LinkDoneFlow ==
    ASSUME FlowInv, LinkDone
    PROVE  FlowInv'
<1> USE DEF FlowInv
<1>1. phase = "link" /\ phase' = "edges" /\ at = N + 1 /\ at' = 1
      /\ UNCHANGED <<prog, list, l, jmp, succ, pred, unused, body>>
  BY DEF LinkDone
<1>2. BuildTypeOK'
  BY <1>1, NAssumption DEF BuildTypeOK
<1>3. Joining'
  <2>1. \A b \in Block : b < N + 1 /\ ~(b < 1)
    BY NAssumption DEF Block
  <2>2. \A b \in Block : Linked(b) /\ pred[b] = {}
    BY <1>1, <2>1 DEF Linking
  <2>3. \A b \in Block : Linked(b)'
    BY <1>1, <2>2 DEF Linked, Links, OneWay, OnlyWayOn, Destinations
  <2> QED BY <1>1, <2>1, <2>2, <2>3 DEF Joining
<1>4. (Linking /\ SideUntouched /\ Cutting /\ EdgesMirrored /\ EdgesKnown /\ Bodies /\ Kept /\ Passed)'
  BY <1>1 DEF Linking, SideUntouched, Cutting, EdgesMirrored, EdgesKnown, Bodies, Kept, Passed,
              Built, Squeezing
<1>5. LiveNeverUnused' /\ ListOK'
  BY <1>1 DEF LiveNeverUnused, ListOK, SideUntouched, Squeezing
<1> QED BY <1>2, <1>3, <1>4, <1>5

LEMMA EdgesOfBlockFlow ==
    ASSUME FlowInv, EdgesOfBlock
    PROVE  FlowInv'
<1> USE DEF FlowInv
<1> DEFINE s == succ[at] \union ({l[at], jmp[at]} \ {NULL})
<1>1. /\ phase = "edges" /\ phase' = "edges" /\ at \in Block /\ at' = at + 1
      /\ succ' = [succ EXCEPT ![at] = s]
      /\ pred' = [b \in Block |-> IF b \in s THEN pred[b] \union {at} ELSE pred[b]]
      /\ UNCHANGED <<prog, list, l, jmp, unused, body>>
  BY DEF EdgesOfBlock
<1>2. s = Destinations(at) /\ Linked(at)
  BY <1>1 DEF Joining, Linked, Links
<1>3. s \subseteq Block
  BY <1>1, <1>2, TargetsAreLabels DEF BuildTypeOK, Label
<1> HIDE DEF s
<1>4. BuildTypeOK'
  BY <1>1, <1>3, NAssumption DEF BuildTypeOK, Edges, Block
<1>5. Joining'
  <2>1. ASSUME NEW b \in Block
        PROVE  /\ Linked(b)'
               /\ b < at + 1 => succ'[b] = Destinations(b)
               /\ pred'[b] = {p \in Block : p < at + 1 /\ b \in succ'[p]}
    <3>1. succ \in [Block -> SUBSET Block] /\ pred \in [Block -> SUBSET Block]
      BY DEF BuildTypeOK, Edges
    <3>2. Linked(b) /\ (b < at => succ[b] = Destinations(b))
          /\ pred[b] = {p \in Block : p < at /\ b \in succ[p]}
      BY <1>1 DEF Joining
    <3>3. \A p \in Block : p < at + 1 <=> p < at \/ p = at
      BY <1>1 DEF Block
    <3>4. Destinations(b)' = Destinations(b)
      BY <1>1 DEF Destinations
    <3>5. Linked(b)'
      <4>1. CASE b = at
        BY <1>1, <1>2, <3>1, <3>2, <3>4, <4>1 DEF Linked, Links, OneWay, OnlyWayOn, s
      <4>2. CASE b # at
        BY <1>1, <3>1, <3>2, <3>4, <4>2 DEF Linked, Links, OneWay, OnlyWayOn
      <4> QED BY <4>1, <4>2
    <3>6. b < at + 1 => succ'[b] = Destinations(b)
      BY <1>1, <1>2, <3>1, <3>2, <3>3
    <3>7. pred'[b] = {p \in Block : p < at + 1 /\ b \in succ'[p]}
      <4>1. pred'[b] = IF b \in s THEN pred[b] \union {at} ELSE pred[b]
        BY <1>1
      <4>2. \A p \in Block : p < at => succ'[p] = succ[p]
        BY <1>1, <3>1 DEF Block
      <4>3. succ'[at] = s /\ ~(at < at)
        BY <1>1, <3>1 DEF Block
      <4>4. ASSUME NEW p \in Block
            PROVE  p \in pred'[b] <=> p < at + 1 /\ b \in succ'[p]
        BY <1>1, <3>2, <3>3, <4>1, <4>2, <4>3
      <4>5. pred'[b] \subseteq Block
        BY <4>1, <3>1, <1>1
      <4> QED BY <4>4, <4>5
    <3> QED BY <3>5, <3>6, <3>7
  <2> QED BY <1>1, <2>1 DEF Joining, Destinations
<1>6. (Linking /\ SideUntouched /\ Cutting /\ EdgesMirrored /\ EdgesKnown /\ Bodies /\ Kept /\ Passed)'
  BY <1>1 DEF Linking, SideUntouched, Cutting, EdgesMirrored, EdgesKnown, Bodies, Kept, Passed,
              Built, Squeezing
<1>7. LiveNeverUnused' /\ ListOK'
  BY <1>1 DEF LiveNeverUnused, ListOK, SideUntouched, Squeezing
<1> QED BY <1>4, <1>5, <1>6, <1>7

LEMMA ListIsWhole ==
    ASSUME ListOK, list = [i \in Block |-> i]
    PROVE  ListedBlocks = Block /\ Len(list) = N
<1>1. 1..Len(list) = 1..N
  BY DEF ListOK, Block
<1>2. N \in 1..Len(list)
  BY <1>1, NAssumption
<1>3. Len(list) \in 1..N
  BY DEF ListOK
<1>4. Len(list) = N
  BY <1>2, <1>3, NAssumption
<1> QED BY <1>4 DEF ListedBlocks, Block

LEMMA EdgesDoneFlow ==
    ASSUME FlowInv, EdgesDone
    PROVE  FlowInv'
<1> USE DEF FlowInv
<1>1. phase = "edges" /\ phase' = "clean" /\ at = N + 1 /\ at' = 2
      /\ UNCHANGED <<prog, list, l, jmp, succ, pred, unused, body>>
  BY DEF EdgesDone
<1>2. BuildTypeOK'
  BY <1>1, NAssumption DEF BuildTypeOK
<1>3. \A b \in Block : /\ Linked(b) /\ succ[b] = Destinations(b)
                       /\ pred[b] = {p \in Block : b \in succ[p]}
  <2>1. \A b \in Block : b < N + 1
    BY NAssumption DEF Block
  <2> QED BY <1>1, <2>1 DEF Joining
<1>4. ListedBlocks = Block
  BY <1>1, ListIsWhole DEF SideUntouched
<1>5. EdgesMirrored'
  <2>1. pred = Mirror(succ)
    BY <1>3 DEF BuildTypeOK, Edges, Mirror
  <2>2. \A b \in Block : succ[b] \subseteq Block /\ pred[b] \subseteq Block
    BY DEF BuildTypeOK, Edges
  <2> QED BY <1>1, <1>4, <2>1, <2>2 DEF EdgesMirrored, ListedBlocks
<1>6. EdgesKnown'
  <2>1. ASSUME NEW b \in Block PROVE succ[b] \subseteq Label /\ OneWay(b, succ[b])
    BY <1>3, TargetsAreLabels DEF BuildTypeOK, Linked
  <2> QED BY <1>1, <2>1 DEF EdgesKnown, OneWay, OnlyWayOn
<1>7. Cutting' /\ SideUntouched' /\ LiveNeverUnused'
  <2>1. unused = {} /\ \A b \in Block : Destinations(b)' = Destinations(b)
    BY <1>1, FlowStays DEF SideUntouched
  <2> QED BY <1>1, <1>3, <2>1 DEF Cutting, SideUntouched, LiveNeverUnused
<1>8. (Linking /\ Joining /\ Bodies /\ Kept /\ Passed)'
  BY <1>1 DEF Linking, Joining, Bodies, Kept, Passed, Squeezing
<1>9. ListOK'
  BY <1>1 DEF ListOK, Squeezing
<1> QED BY <1>2, <1>5, <1>6, <1>7, <1>8, <1>9

-----------------------------------------------------------------------------
(* Cutting.                                                                *)

(* Who has no predecessor left can never run.                              *)
LEMMA NoPredIsDead ==
    ASSUME FlowInv, phase = "clean", NEW b \in Block, b # Entry, NoPred(b)
    PROVE  b \notin Live
<1> USE DEF FlowInv
<1>1. SUFFICES ASSUME b \in Live PROVE FALSE
  OBVIOUS
<1>2. prog \in [Block -> Term]
  BY DEF BuildTypeOK
<1>3. PICK p \in Live : b \in Flow[p]
  BY <1>1, <1>2, LiveComesFrom
<1>4. p \in Block /\ p \notin unused
  BY <1>2, LiveStarts DEF LiveNeverUnused
<1>5. b \in succ[p]
  BY <1>2, <1>3, <1>4, FlowIsEdges DEF Cutting
<1>6. p \in pred[b]
  BY <1>4, <1>5 DEF EdgesMirrored, Mirror
<1> QED BY <1>6 DEF NoPred

LEMMA CleanBlockFlow ==
    ASSUME FlowInv, CleanBlock
    PROVE  FlowInv'
<1> USE DEF FlowInv
<1>1. /\ phase = "clean" /\ phase' = "clean" /\ at \in Block /\ at' = at + 1
      /\ UNCHANGED <<prog, list, body>>
  BY DEF CleanBlock
<1>2. at >= 2 /\ at' \in 1..(N + 1) /\ at' >= 2 /\ list = [i \in Block |-> i]
  BY <1>1, NAssumption DEF SideUntouched, Block
<1>3. ListedBlocks = Block /\ ListedBlocks' = Block
  BY <1>1, <1>2, ListIsWhole DEF ListedBlocks
<1>4. (Linking /\ Joining /\ Bodies /\ Kept /\ Passed)' /\ SideUntouched'
  BY <1>1, <1>2 DEF Linking, Joining, Bodies, Kept, Passed, Squeezing, SideUntouched
<1>5. ListOK'
  BY <1>1 DEF ListOK, Squeezing
<1>6. Live' = Live /\ \A b \in Block : Destinations(b)' = Destinations(b)
  BY <1>1, FlowStays
<1>7. CASE ~NoPred(at)
  <2>1. UNCHANGED <<l, jmp, succ, pred, unused>>
    BY <1>7 DEF CleanBlock
  <2>2. BuildTypeOK'
    BY <1>1, <1>2, <2>1 DEF BuildTypeOK
  <2>3. (Cutting /\ EdgesMirrored /\ EdgesKnown /\ LiveNeverUnused)'
    BY <1>1, <1>6, <2>1 DEF Cutting, EdgesMirrored, EdgesKnown, OneWay, OnlyWayOn, Built,
                           LiveNeverUnused, ListedBlocks
  <2> QED BY <1>4, <1>5, <2>2, <2>3
<1>8. CASE NoPred(at)
  <2>1. /\ pred' = PredAfterCut(at)
        /\ succ' = [succ EXCEPT ![at] = {}]
        /\ l' = [l EXCEPT ![at] = NULL] /\ jmp' = [jmp EXCEPT ![at] = NULL]
        /\ unused' = unused \union {at}
    BY <1>8 DEF CleanBlock
  <2>2. succ \in [Block -> SUBSET Block] /\ pred \in [Block -> SUBSET Block]
    BY DEF BuildTypeOK, Edges
  <2>3. pred' \in [Block -> SUBSET Block] /\ succ' \in [Block -> SUBSET Block]
    BY <2>1, <2>2 DEF PredAfterCut
  <2>4. BuildTypeOK'
    BY <1>1, <1>2, <2>1, <2>3 DEF BuildTypeOK, Edges
  <2>5. LiveNeverUnused'
    BY <1>1, <1>2, <1>6, <1>8, <2>1, NoPredIsDead DEF LiveNeverUnused, Entry
  <2>6. Cutting'
    BY <1>1, <1>6, <2>1, <2>2 DEF Cutting
  <2>7. EdgesMirrored'
    <3>1. ASSUME NEW b \in Block, NEW p \in Block
          PROVE  p \in pred'[b] <=> b \in succ'[p]
      <4>1. p \in pred[b] <=> b \in succ[p]
        BY <1>1 DEF EdgesMirrored, Mirror
      <4>2. pred'[b] = IF b \in succ[at] THEN pred[b] \ {at} ELSE pred[b]
        BY <2>1 DEF PredAfterCut
      <4>3. succ'[p] = IF p = at THEN {} ELSE succ[p]
        BY <2>1, <2>2
      <4> QED BY <4>1, <4>2, <4>3
    <3>2. pred' = Mirror(succ')
      BY <2>3, <3>1 DEF Mirror
    <3> QED BY <1>3, <2>3, <3>2 DEF EdgesMirrored
  <2>8. EdgesKnown'
    <3>1. ASSUME NEW b \in Block
          PROVE  succ'[b] \subseteq Label /\ OneWay(b, succ[b])'
      <4>1. succ[b] \subseteq Label /\ OneWay(b, succ[b])
        BY <1>1, <1>3 DEF EdgesKnown, Built
      <4>2. CASE b = at
        BY <2>1, <2>2, <4>2 DEF OneWay, BuildTypeOK
      <4>3. CASE b # at
        <5>1. succ'[b] = succ[b] /\ l'[b] = l[b] /\ jmp'[b] = jmp[b]
          BY <2>1, <2>2, <4>3 DEF BuildTypeOK
        <5> QED BY <4>1, <5>1 DEF OneWay, OnlyWayOn
      <4> QED BY <4>2, <4>3
    <3> QED BY <3>1 DEF EdgesKnown
  <2> QED BY <1>4, <1>5, <2>4, <2>5, <2>6, <2>7, <2>8
<1> QED BY <1>7, <1>8

LEMMA CleanDoneFlow ==
    ASSUME FlowInv, CleanDone
    PROVE  FlowInv'
<1> USE DEF FlowInv
<1>1. phase = "clean" /\ phase' = "squeeze" /\ at' = 1
      /\ UNCHANGED <<prog, list, l, jmp, succ, pred, unused, body>>
  BY DEF CleanDone
<1>2. /\ list = [i \in Block |-> i] /\ body = [b \in Block |-> <<b>>]
      /\ prog \in [Block -> Term]
  BY <1>1 DEF SideUntouched, BuildTypeOK
<1>3. ListedBlocks = Block /\ ListedBlocks' = Block /\ Len(list) = N
  BY <1>1, <1>2, ListIsWhole DEF ListedBlocks
<1>4. Live' = Live /\ Flow' = Flow /\ Live \subseteq Block
  BY <1>1, <1>2, LiveStarts, FlowStays
<1>5. BuildTypeOK'
  BY <1>1, NAssumption DEF BuildTypeOK
<1>6. (Linking /\ Joining /\ SideUntouched /\ Cutting)'
  BY <1>1 DEF Linking, Joining, SideUntouched, Cutting
<1>7. (EdgesMirrored /\ EdgesKnown /\ LiveNeverUnused)'
  BY <1>1, <1>4 DEF EdgesMirrored, EdgesKnown, OneWay, OnlyWayOn, Built, LiveNeverUnused, ListedBlocks
<1>8. ListOK'
  BY <1>1, <1>3, NAssumption DEF ListOK
<1>9. Bodies'
  <2>1. ASSUME NEW b \in Block
        PROVE  BodyOK(b)' /\ (b \in Live => BodyFlows(b)')
    <3>1. body[b] = <<b>> /\ body'[b] = <<b>>
      BY <1>1, <1>2
    <3>2. BodyOK(b)'
      BY <1>4, <3>1 DEF BodyOK
    <3>3. ASSUME b \in Live PROVE succ[b] = Flow[b]
      BY <1>1, <1>2, <3>3, FlowIsEdges DEF Cutting, LiveNeverUnused
    <3>4. ASSUME b \in Live PROVE BodyFlows(b)'
      BY <1>1, <1>4, <3>1, <3>3, <3>4 DEF BodyFlows
    <3> QED BY <3>2, <3>4
  <2> QED BY <1>3, <1>4, <2>1 DEF Bodies
<1>10. Kept'
  <2>1. \A b \in Block : body'[b] = <<b>>
    BY <1>1, <1>2
  <2>2. ASSUME NEW b \in Live' PROVE \E c \in ListedBlocks' : \E i \in 1..Len(body'[c]) : body'[c][i] = b
    <3>1. b \in Block /\ body'[b] = <<b>>
      BY <1>4, <2>1
    <3>2. 1 \in 1..Len(body'[b]) /\ body'[b][1] = b
      BY <3>1
    <3> QED BY <1>3, <3>1, <3>2
  <2>3. \A c, d \in ListedBlocks' : \A i \in 1..Len(body'[c]) : \A j \in 1..Len(body'[d]) :
              body'[c][i] = body'[d][j] => c = d /\ i = j
    BY <1>3, <2>1
  <2> QED BY <2>2, <2>3 DEF Kept
<1>11. Passed'
  BY <1>1 DEF Passed
<1> QED BY <1>5, <1>6, <1>7, <1>8, <1>9, <1>10, <1>11

-----------------------------------------------------------------------------
(* Squeezing.                                                              *)

LEMMA WithoutOne ==
    ASSUME NEW s \in Seq(Block), NEW k \in 1..Len(s),
           \A i, j \in 1..Len(s) : s[i] = s[j] => i = j
    PROVE  /\ Without(s, s[k]) \in Seq(Block)
           /\ Len(Without(s, s[k])) = Len(s) - 1
           /\ DOMAIN Without(s, s[k]) = 1..(Len(s) - 1)
           /\ \A i \in 1..(Len(s) - 1) :
                 Without(s, s[k])[i] = IF i < k THEN s[i] ELSE s[i + 1]
<1>1. Position(s, s[k]) = k
  BY DEF Position
<1>2. Len(s) \in Nat /\ \A i \in 1..Len(s) : s[i] \in Block
  OBVIOUS
<1> DEFINE w == [i \in 1..(Len(s) - 1) |-> IF i < k THEN s[i] ELSE s[i + 1]]
<1>3. Without(s, s[k]) = w
  BY <1>1 DEF Without
<1>4. \A i \in 1..(Len(s) - 1) : i \in 1..Len(s) /\ i + 1 \in 1..Len(s)
  BY <1>2
<1>5. w \in Seq(Block) /\ Len(w) = Len(s) - 1
  <2>1. Len(s) - 1 \in Nat
    BY <1>2
  <2>2. w \in [1..(Len(s) - 1) -> Block]
    BY <1>2, <1>4
  <2> QED BY <2>1, <2>2, LenProperties, IsASeq
<1> QED BY <1>3, <1>5

(* What is merged: a block and the one way on from it, whose one way in it *)
(* is.                                                                     *)
LEMMA MergedPair ==
    ASSUME FlowInv, Squeezing, NEW b \in ListedBlocks, Mergeable(b)
    PROVE  /\ succ[b] = {OnlyWayOn(b)} /\ pred[OnlyWayOn(b)] = {b}
           /\ OnlyWayOn(b) \in ListedBlocks /\ OnlyWayOn(b) \in Label
           /\ OnlyWayOn(b) # b
<1> USE DEF FlowInv
<1>1. b \in Block
  BY DEF ListedBlocks, ListOK
<1>2. succ[b] = {OnlyWayOn(b)} /\ succ[b] \subseteq Label /\ succ[b] \subseteq ListedBlocks
  BY <1>1 DEF EdgesKnown, EdgesMirrored, Built, Squeezing, OneWay, Mergeable
<1>3. OnlyWayOn(b) \in Block
  BY <1>2 DEF Label
<1>4. b \in pred[OnlyWayOn(b)]
  BY <1>1, <1>2, <1>3 DEF EdgesMirrored, Squeezing, Mirror
<1> QED BY <1>2, <1>4 DEF Mergeable

(* A step that only moves the iterator.                                    *)
LEMMA SqueezeSteps ==
    ASSUME FlowInv, Squeezing, UNCHANGED <<prog, list, l, jmp, succ, pred, unused, body>>,
           Squeezing', at' \in 1..(N + 1), phase' \in {"squeeze", "squeezed"},
           at' =< Len(list) + 1, phase' = "squeezed" => at' = Len(list) + 1,
           \A i \in 1..(at' - 1) : i \in 1..(at - 1) \/ ~Mergeable(list[i])
    PROVE  FlowInv'
<1> USE DEF FlowInv
<1>1. prog \in [Block -> Term] /\ Flow' = Flow /\ Live' = Live
  BY FlowStays DEF BuildTypeOK
<1>2. BuildTypeOK' /\ ListOK'
  BY DEF BuildTypeOK, ListOK
<1>3. (Linking /\ Joining /\ SideUntouched /\ Cutting)'
  BY DEF Linking, Joining, SideUntouched, Cutting, Squeezing
<1>4. (EdgesMirrored /\ EdgesKnown /\ LiveNeverUnused)'
  BY <1>1 DEF EdgesMirrored, EdgesKnown, OneWay, OnlyWayOn, Built, LiveNeverUnused, ListedBlocks,
              Squeezing
<1>5. Bodies'
  <2>1. \A b \in ListedBlocks : BodyOK(b) /\ (b \in Live => BodyFlows(b))
    BY DEF Bodies
  <2>2. ListedBlocks' = ListedBlocks
    BY DEF ListedBlocks
  <2>3. ASSUME NEW b \in ListedBlocks PROVE BodyOK(b)' /\ (b \in Live => BodyFlows(b)')
    <3>1. body' = body /\ succ' = succ
      OBVIOUS
    <3>2. (BodyOK(b)' <=> BodyOK(b)) /\ (BodyFlows(b)' <=> BodyFlows(b))
      BY ONLY <1>1, <3>1 DEF BodyOK, BodyFlows
    <3> QED BY <2>1, <3>2
  <2> QED BY <1>1, <2>2, <2>3 DEF Bodies
<1>6. Kept'
  BY <1>1 DEF Kept, ListedBlocks
<1>7. Passed'
  BY DEF Passed, Mergeable, OnlyWayOn
<1> QED BY <1>2, <1>3, <1>4, <1>5, <1>6, <1>7

LEMMA AdvanceFlow ==
    ASSUME FlowInv, Advance
    PROVE  FlowInv'
<1>1. /\ phase = "squeeze" /\ phase' = "squeeze" /\ at' = at + 1 /\ at =< Len(list)
      /\ ~Mergeable(list[at])
      /\ UNCHANGED <<prog, list, l, jmp, succ, pred, unused, body>>
  BY DEF Advance
<1>2. at \in 1..(N + 1) /\ Len(list) \in 1..N
  BY DEF FlowInv, BuildTypeOK, ListOK
<1>3. at' \in 1..(N + 1) /\ at' =< Len(list) + 1
  BY <1>1, <1>2, NAssumption
<1>4. \A i \in 1..(at' - 1) : i \in 1..(at - 1) \/ i = at
  BY <1>1, <1>2
<1>5. Squeezing /\ Squeezing'
  BY <1>1 DEF Squeezing
<1> QED BY <1>1, <1>3, <1>4, <1>5, SqueezeSteps

LEMMA SqueezeDoneFlow ==
    ASSUME FlowInv, SqueezeDone
    PROVE  FlowInv'
<1>1. /\ phase = "squeeze" /\ phase' = "squeezed" /\ at' = at /\ at = Len(list) + 1
      /\ UNCHANGED <<prog, list, l, jmp, succ, pred, unused, body>>
  BY DEF SqueezeDone
<1>2. at \in 1..(N + 1)
  BY DEF FlowInv, BuildTypeOK
<1>3. Squeezing /\ Squeezing'
  BY <1>1 DEF Squeezing
<1> QED BY <1>1, <1>2, <1>3, SqueezeSteps

(* Where control comes from: out of the middle of a body only to what      *)
(* stands behind it there, out of its end along an edge.                   *)
LEMMA FlowSource ==
    ASSUME FlowInv, Squeezing, NEW p \in Live, NEW x \in Flow[p]
    PROVE  \E c \in ListedBlocks : \E i \in 1..Len(body[c]) :
               /\ c \in Live /\ body[c][i] = p
               /\ \/ i < Len(body[c]) /\ x = body[c][i + 1]
                  \/ i = Len(body[c]) /\ x \in succ[c]
<1> USE DEF FlowInv
<1>1. PICK c \in ListedBlocks : \E i \in 1..Len(body[c]) : body[c][i] = p
  BY DEF Kept
<1>2. PICK i \in 1..Len(body[c]) : body[c][i] = p
  BY <1>1
<1>3. BodyOK(c) /\ (c \in Live => BodyFlows(c))
  BY DEF Bodies
<1>4. c \in Live
  BY <1>2, <1>3 DEF BodyOK
<1>5. body[c] \in Seq(Block)
  BY DEF BuildTypeOK, ListedBlocks, ListOK
<1>6. Len(body[c]) \in Nat
  BY <1>5
<1>7. CASE i = Len(body[c])
  BY <1>2, <1>3, <1>4, <1>7 DEF BodyFlows
<1>8. CASE i < Len(body[c])
  <2>1. i \in 1..(Len(body[c]) - 1)
    BY <1>6, <1>8
  <2>2. Flow[p] = {body[c][i + 1]}
    BY <1>2, <1>3, <1>4, <2>1 DEF BodyFlows
  <2> QED BY <1>2, <1>4, <1>8, <2>2
<1> QED BY <1>6, <1>7, <1>8

(* A pair to be merged is live or dead as a pair.                          *)
LEMMA PairLivesTogether ==
    ASSUME FlowInv, Squeezing, NEW b \in ListedBlocks, Mergeable(b)
    PROVE  /\ b \in Live <=> OnlyWayOn(b) \in Live
           /\ \A p \in Live : OnlyWayOn(b) \in Flow[p] => p = body[b][Len(body[b])]
<1> USE DEF FlowInv
<1> DEFINE x == OnlyWayOn(b)
<1>1. /\ succ[b] = {x} /\ pred[x] = {b} /\ x \in ListedBlocks /\ x \in Label /\ x # b
      /\ prog \in [Block -> Term]
  BY MergedPair DEF BuildTypeOK
<1> HIDE DEF x
<1>2. /\ BodyOK(b) /\ BodyOK(x) /\ (b \in Live => BodyFlows(b))
      /\ body[b] \in Seq(Block) /\ body[x] \in Seq(Block) /\ b \in Block
  BY <1>1 DEF Bodies, BuildTypeOK, ListedBlocks, ListOK
<1>3. /\ Len(body[b]) \in 1..Len(body[b]) /\ 1 \in 1..Len(body[x]) /\ body[x][1] = x
  BY <1>2 DEF BodyOK
<1>4. ASSUME b \in Live PROVE x \in Live
  <2>1. body[b][Len(body[b])] \in Live
    BY <1>2, <1>3, <1>4 DEF BodyOK
  <2>2. x \in Flow[body[b][Len(body[b])]]
    BY <1>1, <1>2, <1>4 DEF BodyFlows
  <2> QED BY <1>1, <2>1, <2>2, LiveGoesOn
<1>5. ASSUME NEW p \in Live, x \in Flow[p]
      PROVE  b \in Live /\ p = body[b][Len(body[b])]
  <2>0. PICK c \in ListedBlocks : \E i \in 1..Len(body[c]) :
               /\ c \in Live /\ body[c][i] = p
               /\ \/ i < Len(body[c]) /\ x = body[c][i + 1]
                  \/ i = Len(body[c]) /\ x \in succ[c]
    BY <1>5, FlowSource
  <2>1. PICK i \in 1..Len(body[c]) :
               /\ c \in Live /\ body[c][i] = p
               /\ \/ i < Len(body[c]) /\ x = body[c][i + 1]
                  \/ i = Len(body[c]) /\ x \in succ[c]
    BY <2>0
  <2>2. body[c] \in Seq(Block) /\ c \in Block
    BY DEF BuildTypeOK, ListedBlocks, ListOK
  <2>3. CASE i < Len(body[c]) /\ x = body[c][i + 1]
    <3>1. i + 1 \in 1..Len(body[c]) /\ i + 1 # 1
      BY <2>1, <2>2, <2>3
    <3> QED BY <1>1, <1>3, <2>3, <3>1 DEF Kept
  <2>4. CASE i = Len(body[c]) /\ x \in succ[c]
    <3>1. c \in pred[x]
      BY <1>1, <2>2, <2>4 DEF EdgesMirrored, Squeezing, Mirror, Label
    <3> QED BY <1>1, <2>1, <2>4, <3>1
  <2> QED BY <2>1, <2>3, <2>4
<1>6. ASSUME x \in Live PROVE b \in Live
  BY <1>1, <1>5, <1>6, LiveComesFrom DEF Label
<1> QED BY <1>4, <1>5, <1>6 DEF x

LEMMA JoinedBodies ==
    ASSUME NEW s \in Seq(Block), NEW t \in Seq(Block)
    PROVE  /\ Len(s \o t) = Len(s) + Len(t)
           /\ \A i \in 1..(Len(s) + Len(t)) :
                 (s \o t)[i] = IF i =< Len(s) THEN s[i] ELSE t[i - Len(s)]
  BY ConcatProperties

LEMMA ListedAreBlocks ==
    ASSUME ListOK
    PROVE  ListedBlocks \subseteq Block
  BY DEF ListedBlocks, ListOK

LEMMA MergeFlow ==
    ASSUME FlowInv, Merge
    PROVE  FlowInv'
<1> USE DEF FlowInv
<1>1. /\ phase = "squeeze" /\ phase' = "squeeze" /\ at =< Len(list)
      /\ Mergeable(list[at]) /\ UNCHANGED <<prog, unused>>
  BY DEF Merge
<1>2. /\ at \in 1..Len(list) /\ Len(list) \in 1..N /\ list \in Seq(Block)
      /\ Squeezing /\ Squeezing' /\ prog \in [Block -> Term]
  BY <1>1 DEF BuildTypeOK, ListOK, Squeezing
<1>3. PICK cb \in ListedBlocks : cb = list[at]
  BY <1>2 DEF ListedBlocks
<1>4. PICK nx \in ListedBlocks : nx = OnlyWayOn(cb)
  BY <1>1, <1>2, <1>3, MergedPair
<1>5. /\ succ[cb] = {nx} /\ pred[nx] = {cb} /\ nx \in Label /\ nx # cb
      /\ cb \in Block /\ nx \in Block
  BY <1>1, <1>2, <1>3, <1>4, MergedPair, ListedAreBlocks
<1>6. /\ body' = [body EXCEPT ![cb] = @ \o body[nx], ![nx] = <<>>]
      /\ l' = [l EXCEPT ![cb] = l[nx]] /\ jmp' = [jmp EXCEPT ![cb] = jmp[nx]]
      /\ succ' = [succ EXCEPT ![cb] = succ[nx], ![nx] = {}]
      /\ pred' = [b \in Block |->
                   IF b = nx THEN {}
                   ELSE IF b \in succ[nx] THEN (pred[b] \ {nx}) \union {cb}
                   ELSE pred[b]]
      /\ list' = Without(list, nx) /\ at' = Iterator(nx)
  BY <1>3, <1>4 DEF Merge, BodyAfterMerge
<1>7. PICK k \in 1..Len(list) : list[k] = nx
  BY DEF ListedBlocks
<1>8. k # at
  BY <1>3, <1>5, <1>7
<1>9. /\ succ \in [Block -> SUBSET Block] /\ pred \in [Block -> SUBSET Block]
      /\ body \in [Block -> Seq(Block)]
      /\ l \in [Block -> Block \union {NULL}] /\ jmp \in [Block -> Block \union {NULL}]
  BY DEF BuildTypeOK, Edges
<1>10. /\ list' \in Seq(Block) /\ Len(list') = Len(list) - 1
       /\ DOMAIN list' = 1..(Len(list) - 1)
       /\ \A i \in 1..(Len(list) - 1) : list'[i] = IF i < k THEN list[i] ELSE list[i + 1]
  BY <1>2, <1>6, <1>7, WithoutOne DEF ListOK
<1>11. at' = IF k < at THEN at - 1 ELSE at
  <2>1. (\E i \in 1..(at - 1) : list[i] = nx) <=> k < at
    BY <1>2, <1>7 DEF ListOK
  <2> QED BY <1>6, <2>1 DEF Iterator
<1>12. \A i, j \in 1..Len(list) : list[i] = list[j] => i = j
  BY DEF ListOK
<1>13. ListedBlocks' = ListedBlocks \ {nx}
  <2>1. ASSUME NEW i \in 1..Len(list') PROVE list'[i] \in ListedBlocks \ {nx}
    <3>1. i \in 1..(Len(list) - 1) /\ i \in 1..Len(list) /\ i + 1 \in 1..Len(list)
      BY <1>2, <1>10
    <3>2. CASE i < k
      BY <1>7, <1>10, <1>12, <3>1, <3>2 DEF ListedBlocks
    <3>3. CASE ~(i < k)
      <4>1. i + 1 # k
        BY <3>1, <3>3
      <4> QED BY <1>7, <1>10, <1>12, <3>1, <3>3, <4>1 DEF ListedBlocks
    <3> QED BY <3>2, <3>3
  <2>2. ASSUME NEW j \in 1..Len(list), list[j] # nx PROVE \E i \in 1..Len(list') : list'[i] = list[j]
    <3>1. CASE j < k
      <4>1. j \in 1..(Len(list) - 1)
        BY <1>2, <3>1
      <4> QED BY <1>10, <3>1, <4>1
    <3>2. CASE ~(j < k)
      <4>1. j # k
        BY <1>7, <2>2
      <4>2. j - 1 \in 1..(Len(list) - 1) /\ ~(j - 1 < k) /\ (j - 1) + 1 = j
        BY <1>2, <3>2, <4>1
      <4>3. list'[j - 1] = list[j]
        BY <1>10, <4>2
      <4> QED BY <1>10, <4>2, <4>3
    <3> QED BY <3>1, <3>2
  <2>3. ListedBlocks' \subseteq ListedBlocks \ {nx}
    BY <2>1 DEF ListedBlocks
  <2>4. ListedBlocks \ {nx} \subseteq ListedBlocks'
    BY <2>2 DEF ListedBlocks
  <2> QED BY <2>3, <2>4
<1>14. ListOK'
  <2>1. Len(list') \in 1..N
    BY <1>2, <1>8, <1>10, NAssumption
  <2>2. ASSUME NEW i \in 1..Len(list'), NEW j \in 1..Len(list'), list'[i] = list'[j]
        PROVE  i = j
    <3>1. /\ i \in 1..(Len(list) - 1) /\ i \in 1..Len(list) /\ i + 1 \in 1..Len(list)
          /\ j \in 1..(Len(list) - 1) /\ j \in 1..Len(list) /\ j + 1 \in 1..Len(list)
      BY <1>2, <1>10
    <3> DEFINE u == IF i < k THEN i ELSE i + 1
               v == IF j < k THEN j ELSE j + 1
    <3>2. list[u] = list[v] /\ u \in 1..Len(list) /\ v \in 1..Len(list)
      BY <1>10, <2>2, <3>1
    <3>3. u = v
      BY <1>12, <3>2
    <3> QED BY <3>1, <3>3
  <2>3. at' =< Len(list') + 1
    BY <1>2, <1>8, <1>10, <1>11
  <2> QED BY <1>1, <1>10, <2>1, <2>2, <2>3 DEF ListOK
<1>15. BuildTypeOK'
  <2>1. body' \in [Block -> Seq(Block)]
    <3>1. body[cb] \o body[nx] \in Seq(Block) /\ <<>> \in Seq(Block)
      BY <1>5, <1>9
    <3> QED BY <1>5, <1>6, <1>9, <3>1
  <2>2. l' \in [Block -> Block \union {NULL}] /\ jmp' \in [Block -> Block \union {NULL}]
    BY <1>5, <1>6, <1>9
  <2>3. succ' \in [Block -> SUBSET Block] /\ pred' \in [Block -> SUBSET Block]
    BY <1>5, <1>6, <1>9
  <2>4. at' \in 1..(N + 1)
    BY <1>2, <1>7, <1>8, <1>11, NAssumption
  <2> QED BY <1>1, <1>10, <2>1, <2>2, <2>3, <2>4 DEF BuildTypeOK, Edges
<1>16. \A b \in Block \ {cb, nx} : /\ l'[b] = l[b] /\ jmp'[b] = jmp[b] /\ succ'[b] = succ[b]
                                /\ body'[b] = body[b]
  BY <1>5, <1>6, <1>9
<1>17. /\ l'[cb] = l[nx] /\ jmp'[cb] = jmp[nx] /\ succ'[cb] = succ[nx] /\ succ'[nx] = {}
       /\ body'[cb] = body[cb] \o body[nx] /\ body'[nx] = <<>>
  BY <1>5, <1>6, <1>9
<1>18. \A b, p \in Block : p \in pred[b] <=> b \in succ[p]
  BY <1>1 DEF EdgesMirrored, Mirror
<1>19. nx \notin succ[nx] /\ \A p \in Block \ {cb} : nx \notin succ[p]
  BY <1>5, <1>18
<1>20. EdgesMirrored'
  <2>1. ASSUME NEW b \in Block, NEW p \in Block
        PROVE  p \in pred'[b] <=> b \in succ'[p]
    <3>1. pred'[b] = IF b = nx THEN {}
                     ELSE IF b \in succ[nx] THEN (pred[b] \ {nx}) \union {cb} ELSE pred[b]
      BY <1>6
    <3>2. succ'[p] = IF p = nx THEN {} ELSE IF p = cb THEN succ[nx] ELSE succ[p]
      BY <1>16, <1>17
    <3> QED BY <1>5, <1>18, <1>19, <3>1, <3>2
  <2>2. pred' = Mirror(succ')
    BY <1>15, <2>1 DEF Mirror, BuildTypeOK, Edges
  <2>3. ASSUME NEW b \in ListedBlocks'
        PROVE  succ'[b] \subseteq ListedBlocks' /\ pred'[b] \subseteq ListedBlocks'
    <3>0. b \in ListedBlocks /\ b # nx /\ b \in Block
      BY <1>13, <2>3, ListedAreBlocks
    <3>1. /\ succ[b] \subseteq ListedBlocks /\ pred[b] \subseteq ListedBlocks
          /\ succ[nx] \subseteq ListedBlocks
          /\ b \in ListedBlocks /\ b # nx /\ b \in Block
      BY <1>1, <3>0 DEF EdgesMirrored
    <3>2. succ'[b] \subseteq ListedBlocks'
      BY <1>5, <1>13, <1>16, <1>17, <1>19, <3>1
    <3>3. pred'[b] = IF b \in succ[nx] THEN (pred[b] \ {nx}) \union {cb} ELSE pred[b]
      BY <1>6, <3>1
    <3>4. b \notin succ[nx] => nx \notin pred[b]
      BY <1>5, <1>18, <3>1
    <3> QED BY <1>5, <1>13, <3>1, <3>2, <3>3, <3>4
  <2> QED BY <2>2, <2>3 DEF EdgesMirrored
<1>21. EdgesKnown'
  <2>1. \A b \in Block : succ[b] \subseteq Label /\ (b \in ListedBlocks => OneWay(b, succ[b]))
    BY <1>1 DEF EdgesKnown, Built
  <2>2. \A b \in Block : succ'[b] \subseteq Label
    BY <1>5, <1>16, <1>17, <2>1
  <2>3. ASSUME NEW b \in Block, b \in ListedBlocks' PROVE OneWay(b, succ[b])'
    <3>1. CASE b = cb
      BY <1>5, <1>17, <2>1, <3>1 DEF OneWay, OnlyWayOn
    <3>2. CASE b # cb
      BY <1>13, <1>16, <2>1, <2>3, <3>2 DEF OneWay, OnlyWayOn
    <3> QED BY <3>1, <3>2
  <2> QED BY <2>2, <2>3 DEF EdgesKnown
<1>22. Flow' = Flow /\ Live' = Live
  BY <1>1, FlowStays
<1>23. (LiveNeverUnused /\ Linking /\ Joining /\ SideUntouched /\ Cutting)'
  BY <1>1, <1>22 DEF LiveNeverUnused, Linking, Joining, SideUntouched, Cutting
<1> DEFINE m == Len(body[cb])
           n == Len(body[nx])
<1>24. /\ body[cb] \in Seq(Block) /\ body[nx] \in Seq(Block)
       /\ m \in Nat /\ n \in Nat /\ m >= 1 /\ n >= 1
       /\ BodyOK(cb) /\ BodyOK(nx)
       /\ cb \in Live => BodyFlows(cb)
       /\ nx \in Live => BodyFlows(nx)
  <2>1. BodyOK(cb) /\ BodyOK(nx) /\ (cb \in Live => BodyFlows(cb)) /\ (nx \in Live => BodyFlows(nx))
    BY <1>2 DEF Bodies
  <2>2. body[cb] \in Seq(Block) /\ body[nx] \in Seq(Block)
    BY <1>5, <1>9
  <2> QED BY <2>1, <2>2 DEF BodyOK
<1>25. /\ Len(body'[cb]) = m + n
       /\ \A i \in 1..(m + n) :
             body'[cb][i] = IF i =< m THEN body[cb][i] ELSE body[nx][i - m]
  <2>1. body[cb] \in Seq(Block) /\ body[nx] \in Seq(Block)
    BY <1>24
  <2>2. /\ Len(body[cb] \o body[nx]) = m + n
        /\ \A i \in 1..(m + n) :
              (body[cb] \o body[nx])[i] = IF i =< m THEN body[cb][i] ELSE body[nx][i - m]
    BY <2>1, JoinedBodies
  <2>3. body'[cb] = body[cb] \o body[nx]
    BY <1>17
  <2> QED BY <2>2, <2>3, Zenon
<1> HIDE DEF m, n
<1>26. cb \in Live <=> nx \in Live
  BY <1>1, <1>2, <1>3, <1>4, PairLivesTogether
<1>27. Bodies'
  <2>1. ASSUME NEW b \in ListedBlocks', b # cb
        PROVE  BodyOK(b)' /\ (b \in Live => BodyFlows(b)')
    <3>1. b \in ListedBlocks /\ b \in Block \ {cb, nx}
      BY <1>13, <2>1, ListedAreBlocks
    <3>2. body'[b] = body[b] /\ succ'[b] = succ[b]
      BY <1>16, <3>1
    <3>3. BodyOK(b) /\ (b \in Live => BodyFlows(b))
      BY <1>2, <3>1 DEF Bodies
    <3> QED BY <1>22, <3>2, <3>3 DEF BodyOK, BodyFlows
  <2>2. BodyOK(cb)'
    <3>1. /\ \A i \in 1..m : body[cb][i] \in Live <=> cb \in Live
          /\ \A i \in 1..n : body[nx][i] \in Live <=> nx \in Live
          /\ body[cb][1] = cb
      BY <1>24 DEF BodyOK, m, n
    <3>2. \A i \in 1..(m + n) : (i =< m => i \in 1..m) /\ (~(i =< m) => i - m \in 1..n)
      BY <1>24
    <3>3. \A i \in 1..(m + n) : body'[cb][i] \in Live <=> cb \in Live
      BY <1>25, <1>26, <3>1, <3>2
    <3>4. 1 \in 1..(m + n) /\ 1 =< m
      BY <1>24
    <3>5. body'[cb][1] = cb
      BY <1>25, <3>1, <3>4
    <3>6. body'[cb] # <<>>
      BY <1>24, <1>25
    <3> QED BY <1>22, <1>25, <3>3, <3>5, <3>6 DEF BodyOK
  <2>3. ASSUME cb \in Live PROVE BodyFlows(cb)'
    <3>1. /\ \A i \in 1..(m - 1) : Flow[body[cb][i]] = {body[cb][i + 1]}
          /\ Flow[body[cb][m]] = {nx}
          /\ \A i \in 1..(n - 1) : Flow[body[nx][i]] = {body[nx][i + 1]}
          /\ succ[nx] = Flow[body[nx][n]]
          /\ body[nx][1] = nx
      BY <1>5, <1>24, <1>26, <2>3 DEF BodyFlows, BodyOK, m, n
    <3>2. ASSUME NEW i \in 1..(m + n - 1)
          PROVE  Flow[body'[cb][i]] = {body'[cb][i + 1]}
      <4>0. i \in 1..(m + n) /\ i + 1 \in 1..(m + n)
        BY <1>24
      <4>1. CASE i < m
        <5>1. i =< m /\ i + 1 =< m /\ i \in 1..(m - 1)
          BY <1>24, <4>1
        <5> QED BY <1>25, <3>1, <4>0, <5>1
      <4>2. CASE i = m
        <5>1. i =< m /\ ~(i + 1 =< m) /\ (i + 1) - m = 1
          BY <1>24, <4>2
        <5> QED BY <1>25, <3>1, <4>0, <4>2, <5>1
      <4>3. CASE i > m
        <5>1. ~(i =< m) /\ ~(i + 1 =< m) /\ i - m \in 1..(n - 1) /\ (i + 1) - m = (i - m) + 1
          BY <1>24, <4>3
        <5>2. /\ body'[cb][i] = body[nx][i - m] /\ body'[cb][i + 1] = body[nx][(i - m) + 1]
          BY <1>25, <4>0, <5>1
        <5> QED BY <3>1, <5>1, <5>2
      <4> QED BY <1>24, <4>1, <4>2, <4>3
    <3>3. m + n \in 1..(m + n) /\ ~(m + n =< m) /\ (m + n) - m = n
      BY <1>24
    <3>4. succ'[cb] = Flow[body'[cb][m + n]]
      BY <1>17, <1>25, <3>1, <3>3
    <3>5. Len(body'[cb]) = m + n
      BY <1>25
    <3>6. /\ \A i \in 1..(Len(body'[cb]) - 1) : Flow'[body'[cb][i]] = {body'[cb][i + 1]}
          /\ succ'[cb] = Flow'[body'[cb][Len(body'[cb])]]
      <4>1. \A i \in 1..(Len(body'[cb]) - 1) : Flow'[body'[cb][i]] = {body'[cb][i + 1]}
        <5>1. Len(body'[cb]) - 1 = m + n - 1
          BY <1>24, <3>5
        <5> QED BY <1>22, <3>2, <5>1, Zenon
      <4>2. succ'[cb] = Flow'[body'[cb][Len(body'[cb])]]
        BY <1>22, <3>4, <3>5, Zenon
      <4> QED BY <4>1, <4>2
    <3> QED BY <3>6 DEF BodyFlows
  <2> QED BY <1>22, <2>1, <2>2, <2>3 DEF Bodies
<1>28. Kept'
  <2>1. /\ \A b \in Live : \E c \in ListedBlocks : \E i \in 1..Len(body[c]) : body[c][i] = b
        /\ \A c, d \in ListedBlocks : \A i \in 1..Len(body[c]) : \A j \in 1..Len(body[d]) :
              body[c][i] = body[d][j] => c = d /\ i = j
    BY <1>2 DEF Kept
  <2>2. cb \in ListedBlocks' /\ \A c \in ListedBlocks' \ {cb} : c \in ListedBlocks /\ body'[c] = body[c]
    BY <1>5, <1>13, <1>16, ListedAreBlocks
  <2>3. ASSUME NEW b \in Live
        PROVE  \E c \in ListedBlocks' : \E i \in 1..Len(body'[c]) : body'[c][i] = b
    <3>1. PICK c \in ListedBlocks : \E i \in 1..Len(body[c]) : body[c][i] = b
      BY <2>1
    <3>2. PICK i \in 1..Len(body[c]) : body[c][i] = b
      BY <3>1
    <3>3. CASE c = cb
      <4>1. i \in 1..(m + n) /\ i =< m
        BY <1>24, <3>3 DEF m
      <4> QED BY <1>25, <2>2, <3>2, <3>3, <4>1
    <3>4. CASE c = nx
      <4>1. i + m \in 1..(m + n) /\ ~(i + m =< m) /\ (i + m) - m = i
        BY <1>24, <3>4 DEF n
      <4> QED BY <1>25, <2>2, <3>2, <3>4, <4>1
    <3>5. CASE c # cb /\ c # nx
      BY <1>13, <2>2, <3>2, <3>5
    <3> QED BY <3>3, <3>4, <3>5
  <2>4. ASSUME NEW i \in 1..(m + n)
        PROVE  \/ i \in 1..m /\ body'[cb][i] = body[cb][i]
               \/ i - m \in 1..n /\ body'[cb][i] = body[nx][i - m]
    BY <1>24, <1>25
  <2>5. /\ \A i, j \in 1..m : body[cb][i] = body[cb][j] => i = j
        /\ \A i, j \in 1..n : body[nx][i] = body[nx][j] => i = j
        /\ \A i \in 1..m, j \in 1..n : body[cb][i] # body[nx][j]
        /\ \A d \in ListedBlocks' \ {cb} : \A j \in 1..Len(body[d]) :
              /\ \A i \in 1..m : body[cb][i] # body[d][j]
              /\ \A i \in 1..n : body[nx][i] # body[d][j]
    BY <1>5, <1>13, <2>1 DEF m, n
  <2>6. ASSUME NEW i \in 1..(m + n), NEW j \in 1..(m + n), body'[cb][i] = body'[cb][j]
        PROVE  i = j
    <3>1. CASE i \in 1..m /\ body'[cb][i] = body[cb][i]
      BY <2>4, <2>5, <2>6, <3>1
    <3>2. CASE i - m \in 1..n /\ body'[cb][i] = body[nx][i - m]
      <4>1. CASE j \in 1..m /\ body'[cb][j] = body[cb][j]
        BY <2>5, <2>6, <3>2, <4>1
      <4>2. CASE j - m \in 1..n /\ body'[cb][j] = body[nx][j - m]
        <5>1. i - m = j - m
          BY <2>5, <2>6, <3>2, <4>2
        <5> QED BY <1>24, <5>1
      <4> QED BY <2>4, <4>1, <4>2
    <3> QED BY <2>4, <3>1, <3>2
  <2>8. ASSUME NEW i \in 1..(m + n), NEW d \in ListedBlocks' \ {cb}, NEW j \in 1..Len(body[d]),
               body'[cb][i] = body[d][j]
        PROVE  FALSE
    BY <2>4, <2>5, <2>8
  <2>7. ASSUME NEW c \in ListedBlocks', NEW d \in ListedBlocks',
               NEW i \in 1..Len(body'[c]), NEW j \in 1..Len(body'[d]), body'[c][i] = body'[d][j]
        PROVE  c = d /\ i = j
    <3>1. CASE c = cb /\ d = cb
      BY <1>25, <2>6, <2>7, <3>1
    <3>2. CASE c = cb /\ d # cb
      BY <1>25, <2>2, <2>7, <2>8, <3>2
    <3>3. CASE c # cb /\ d = cb
      BY <1>25, <2>2, <2>7, <2>8, <3>3
    <3>4. CASE c # cb /\ d # cb
      BY <2>1, <2>2, <2>7, <3>4
    <3> QED BY <3>1, <3>2, <3>3, <3>4
  <2> QED BY <1>22, <2>3, <2>7 DEF Kept
<1>29. Passed'
  <2>1. ASSUME NEW i \in 1..(at' - 1)
        PROVE  \E j \in 1..(at - 1) : j # k /\ list'[i] = list[j]
    <3>1. CASE k < at
      <4>1. i \in 1..(at - 2) /\ i \in 1..(Len(list) - 1)
        BY <1>2, <1>11, <3>1
      <4>2. CASE i < k
        BY <1>2, <1>10, <4>1, <4>2
      <4>3. CASE ~(i < k)
        <5>1. i + 1 \in 1..(at - 1) /\ i + 1 # k
          BY <1>2, <1>7, <4>1, <4>3
        <5> QED BY <1>10, <4>1, <4>3, <5>1
      <4> QED BY <4>2, <4>3
    <3>2. CASE ~(k < at)
      <4>1. i \in 1..(at - 1) /\ i \in 1..(Len(list) - 1) /\ i < k
        BY <1>2, <1>7, <1>8, <1>11, <3>2
      <4> QED BY <1>10, <4>1
    <3> QED BY <3>1, <3>2
  <2>2. ASSUME NEW d \in ListedBlocks, d # cb, d # nx, ~Mergeable(d)
        PROVE  ~Mergeable(d)'
    <3>1. d \in Block
      BY ListedAreBlocks
    <3>2. l'[d] = l[d] /\ jmp'[d] = jmp[d]
      BY <1>16, <2>2, <3>1
    <3>3. SUFFICES ASSUME (l[d] = NULL) # (jmp[d] = NULL), d # OnlyWayOn(d),
                          NEW q \in Block, pred'[OnlyWayOn(d)] = {q}
                   PROVE  FALSE
      BY <3>2 DEF Mergeable, OnlyWayOn
    <3>4. PICK t \in Block : t = OnlyWayOn(d)
      BY <1>9, <3>1, <3>3 DEF OnlyWayOn
    <3>5. t \in succ[d] /\ d \in pred[t] /\ t # nx
      <4>1. succ[d] = {t}
        BY <1>1, <3>1, <3>3, <3>4 DEF EdgesKnown, Built, OneWay
      <4> QED BY <1>18, <1>19, <2>2, <3>1, <4>1
    <3>6. pred'[t] = IF t \in succ[nx] THEN (pred[t] \ {nx}) \union {cb} ELSE pred[t]
      BY <1>6, <3>5
    <3>7. CASE t \in succ[nx]
      <4>1. d \in pred'[t] /\ cb \in pred'[t]
        BY <2>2, <3>5, <3>6, <3>7
      <4>2. pred'[t] = {q}
        BY <3>3, <3>4
      <4> QED BY <2>2, <4>1, <4>2
    <3>8. CASE t \notin succ[nx]
      BY <2>2, <3>3, <3>4, <3>6, <3>8 DEF Mergeable
    <3> QED BY <3>7, <3>8
  <2>3. ASSUME NEW i \in 1..(at' - 1)
        PROVE  \E d \in ListedBlocks : d = list'[i] /\ ~Mergeable(d)'
    <3>1. PICK j \in 1..(at - 1) : j # k /\ list'[i] = list[j]
      BY <2>1
    <3>2. j \in 1..Len(list) /\ j # at
      BY <1>2
    <3>3. list[j] \in ListedBlocks /\ list[j] # cb /\ list[j] # nx /\ ~Mergeable(list[j])
      BY <1>2, <1>3, <1>7, <1>12, <3>1, <3>2 DEF Passed, ListedBlocks
    <3> QED BY <2>2, <3>1, <3>3
  <2> QED BY <2>3 DEF Passed, Mergeable, OnlyWayOn
<1> QED BY <1>14, <1>15, <1>20, <1>21, <1>23, <1>27, <1>28, <1>29

-----------------------------------------------------------------------------
(* What the invariant says of the program.                                 *)

LEMMA NextFlow ==
    ASSUME FlowInv, BuildNext
    PROVE  FlowInv'
  BY LinkBlockFlow, LinkDoneFlow, EdgesOfBlockFlow, EdgesDoneFlow, CleanBlockFlow,
     CleanDoneFlow, MergeFlow, AdvanceFlow, SqueezeDoneFlow DEF BuildNext

LEMMA StutterFlow ==
    ASSUME FlowInv, UNCHANGED buildVars
    PROVE  FlowInv'
<1>1. UNCHANGED <<prog, list, l, jmp, succ, pred, unused, body, phase, at>>
  BY DEF buildVars
<1>2. Flow' = Flow /\ Live' = Live /\ \A b \in Block : Destinations(b)' = Destinations(b)
  BY <1>1, FlowStays
<1> USE DEF FlowInv
<1>3. (BuildTypeOK /\ ListOK /\ SideUntouched /\ EdgesMirrored /\ Passed)'
  <2>1. (BuildTypeOK /\ ListOK /\ SideUntouched)'
    BY <1>1 DEF BuildTypeOK, ListOK, SideUntouched, Squeezing
  <2>2. EdgesMirrored'
    BY <1>1 DEF EdgesMirrored, ListedBlocks
  <2>3. Passed'
    BY <1>1 DEF Passed, Mergeable, OnlyWayOn, Squeezing
  <2> QED BY <2>1, <2>2, <2>3
<1>4. (Linking /\ Joining /\ Cutting /\ EdgesKnown /\ LiveNeverUnused)'
  BY <1>1, <1>2 DEF Linking, Joining, Cutting, EdgesKnown, LiveNeverUnused, Linked, Links,
                    OneWay, OnlyWayOn, Built, ListedBlocks
<1>5. (Bodies /\ Kept)'
  <2>1. /\ ListedBlocks' = ListedBlocks /\ (Squeezing' <=> Squeezing) /\ body' = body /\ succ' = succ
    BY <1>1 DEF ListedBlocks, Squeezing
  <2>2. \A b \in ListedBlocks : (BodyOK(b)' <=> BodyOK(b)) /\ (BodyFlows(b)' <=> BodyFlows(b))
    BY <1>2, <2>1 DEF BodyOK, BodyFlows
  <2> QED BY <1>2, <2>1, <2>2 DEF Bodies, Kept
<1> QED BY <1>3, <1>4, <1>5

LEMMA FlowInvHolds == BuildSpec => []FlowInv
<1>1. BuildInit => FlowInv
  BY InitFlow
<1>2. FlowInv /\ [BuildNext]_buildVars => FlowInv'
  BY NextFlow, StutterFlow
<1> QED BY <1>1, <1>2, PTL DEF BuildSpec

LEMMA BodiesRunTheProgram ==
    ASSUME FlowInv
    PROVE  BlocksFollowFlow
<1> USE DEF FlowInv
<1>1. SUFFICES ASSUME Squeezing, NEW b \in ListedBlocks \intersect Live
               PROVE  /\ body[b] # <<>> /\ body[b][1] = b
                      /\ \A i \in 1..(Len(body[b]) - 1) :
                           /\ Flow[body[b][i]] = {body[b][i + 1]}
                           /\ \A p \in Live : body[b][i + 1] \in Flow[p] => p = body[b][i]
                      /\ Heads(succ[b]) = Flow[body[b][Len(body[b])]]
  BY DEF BlocksFollowFlow, Squeezing
<1>2. BodyOK(b) /\ BodyFlows(b) /\ body[b] \in Seq(Block) /\ b \in Block
  BY <1>1, ListedAreBlocks DEF Bodies, BuildTypeOK
<1>3. ASSUME NEW i \in 1..(Len(body[b]) - 1), NEW p \in Live, body[b][i + 1] \in Flow[p]
      PROVE  p = body[b][i]
  <2>1. PICK c \in ListedBlocks : \E j \in 1..Len(body[c]) :
               /\ c \in Live /\ body[c][j] = p
               /\ \/ j < Len(body[c]) /\ body[b][i + 1] = body[c][j + 1]
                  \/ j = Len(body[c]) /\ body[b][i + 1] \in succ[c]
    BY <1>1, <1>3, FlowSource
  <2>2. PICK j \in 1..Len(body[c]) :
               /\ c \in Live /\ body[c][j] = p
               /\ \/ j < Len(body[c]) /\ body[b][i + 1] = body[c][j + 1]
                  \/ j = Len(body[c]) /\ body[b][i + 1] \in succ[c]
    BY <2>1
  <2>3. i \in 1..Len(body[b]) /\ i + 1 \in 1..Len(body[b]) /\ i + 1 # 1
    BY <1>2
  <2>4. \A d \in ListedBlocks : \A n \in 1..Len(body[d]) :
          body[b][i + 1] = body[d][n] => b = d /\ i + 1 = n
    BY <1>1, <2>3 DEF Kept
  <2>5. CASE j < Len(body[c]) /\ body[b][i + 1] = body[c][j + 1]
    <3>1. j + 1 \in 1..Len(body[c])
      BY <2>5
    <3>2. b = c /\ i + 1 = j + 1
      BY <2>4, <2>5, <3>1
    <3>3. i = j
      BY <3>2
    <3> QED BY <2>2, <3>2, <3>3
  <2>6. CASE j = Len(body[c]) /\ body[b][i + 1] \in succ[c]
    <3>1. PICK x \in ListedBlocks : x = body[b][i + 1]
      BY <1>1, <2>6 DEF EdgesMirrored, Squeezing
    <3>2. 1 \in 1..Len(body[x]) /\ body[x][1] = x
      BY <1>1, ListedAreBlocks DEF Bodies, BodyOK, BuildTypeOK
    <3> QED BY <2>3, <2>4, <3>1, <3>2
  <2> QED BY <2>2, <2>5, <2>6
<1>4. Heads(succ[b]) = succ[b]
  <2>1. \A x \in succ[b] : body[x][1] = x
    BY <1>1 DEF EdgesMirrored, Squeezing, Bodies, BodyOK
  <2> QED BY <2>1 DEF Heads
<1> QED BY <1>2, <1>3, <1>4 DEF BodyOK, BodyFlows

LEMMA EveryBlockKept ==
    ASSUME FlowInv
    PROVE  CodeKeptOnce /\ FullySqueezed
<1> USE DEF FlowInv
<1>1. CodeKeptOnce
  <2>1. SUFFICES ASSUME phase = "squeezed", NEW b \in Live
                 PROVE  \E c \in ListedBlocks :
                          /\ \E i \in 1..Len(body[c]) :
                               body[c][i] = b /\ \A j \in 1..Len(body[c]) : body[c][j] = b => j = i
                          /\ \A d \in ListedBlocks \ {c} : \A i \in 1..Len(body[d]) : body[d][i] # b
    BY DEF CodeKeptOnce
  <2>2. Squeezing
    BY <2>1 DEF Squeezing
  <2>3. PICK c \in ListedBlocks : \E i \in 1..Len(body[c]) : body[c][i] = b
    BY <2>2 DEF Kept
  <2> QED BY <2>2, <2>3 DEF Kept
<1>2. FullySqueezed
  <2>1. SUFFICES ASSUME phase = "squeezed", NEW i \in 1..Len(list) PROVE ~Mergeable(list[i])
    BY DEF FullySqueezed, ListedBlocks
  <2>2. i \in 1..(at - 1)
    BY <2>1 DEF ListOK
  <2> QED BY <2>1, <2>2 DEF Passed, Squeezing
<1> QED BY <1>1, <1>2

(* The states of the passes are well formed.                               *)
THEOREM BuildTypeCorrect == BuildSpec => []BuildTypeOK
<1>1. FlowInv => BuildTypeOK
  BY DEF FlowInv
<1> QED BY <1>1, FlowInvHolds, PTL

(* From the cut on, in whatever order blocks are cut and merged, the graph *)
(* of the listed blocks runs the program: both halves of an edge agree, no *)
(* code that can run is marked unused, what is merged follows the only     *)
(* flow there is, nothing is lost, and no pair is left to merge.           *)
THEOREM FlowIsPreserved == BuildSpec => []FlowPreserved
<1>1. FlowInv => FlowPreserved
  BY BodiesRunTheProgram, EveryBlockKept DEF FlowInv, FlowPreserved
<1> QED BY <1>1, FlowInvHolds, PTL

(***************************************************************************)
(* SSA.                                                                    *)
(*                                                                         *)
(* A block gets its version from one place: from its phi function, or from *)
(* the nearest block above it that has a definition or a phi function      *)
(* (Nearest).  That every edge into a block without a phi function brings  *)
(* this version is what phi functions on the frontier are for (Parts 1, 2).*)
(* The traversal hands every arm the version at the end of its block       *)
(* (Parts 3 to 5), and the run carries the value along (Part 6).           *)
(***************************************************************************)

(* Induction along an interval, for a set.                                 *)
LEMMA IntervalInduction ==
    ASSUME NEW n \in Nat, NEW S \in SUBSET (0..n), 0 \in S,
           \A p \in 0..n : p \in S /\ p < n => p + 1 \in S
    PROVE  S = 0..n
<1> SUFFICES ASSUME S # 0..n PROVE FALSE
  OBVIOUS
<1>1. PICK x \in 0..n : x \notin S
  OBVIOUS
<1> DEFINE T == (0..n) \ S
<1>2. T \subseteq Nat /\ T # {}
  BY <1>1
<1>3. PICK y \in T : \A z \in T : y <= z
  BY <1>2, LeastNat
<1>4. y \in 1..n /\ y - 1 \in 0..n /\ y - 1 < n /\ (y - 1) + 1 = y /\ y \notin S
  OBVIOUS
<1>5. y - 1 \in S
  BY <1>3, <1>4
<1> QED
  BY <1>4, <1>5
-----------------------------------------------------------------------------
(* Part 1.  Dominance in the graph of a function.                          *)

(* d is the lowest block of S above b.                                     *)
IsNearest(g, S, d, b) ==
    /\ d \in S /\ d # b /\ Dominates(g, d, b)
    /\ \A e \in S : e # b /\ Dominates(g, e, b) => Dominates(g, e, d)
Nearest(g, S, b) == CHOOSE d \in S : IsNearest(g, S, d, b)

(* Of the blocks of S above b, the one with the most dominators.           *)
LEMMA NearestExists ==
    ASSUME NEW g \in Edges, NEW S \in SUBSET Block, Entry \in S,
           NEW b \in Block, b # Entry, Reachable(g, b)
    PROVE  IsNearest(g, S, Nearest(g, S, b), b)
<1> DEFINE C == {d \in S : d # b /\ Dominates(g, d, b)}
           size(d) == Cardinality(Dominators(g, d))
           Sizes == {size(d) : d \in C}
<1>1. \A d \in Block : IsFiniteSet(Dominators(g, d)) /\ size(d) \in 0 .. N
  <2> TAKE d \in Block
  <2>1. Dominators(g, d) \in SUBSET Block
    BY DEF Dominators
  <2>2. IsFiniteSet(Dominators(g, d)) /\ size(d) <= N
    BY <2>1, BlocksAreFinite, FS_Subset
  <2>3. size(d) \in Nat
    BY <2>2, FS_CardinalityType
  <2> QED BY <2>2, <2>3, NAssumption
<1>2. Entry \in C
  BY EntryDominates
<1>3. PICK d \in C : \A e \in C : size(e) <= size(d)
  <2> DEFINE T == {n + 1 : n \in Sizes}
  <2>1. \A d \in C : d \in Block
    OBVIOUS
  <2>2. T \subseteq 1 .. N + 1
    BY <1>1, <2>1, NAssumption
  <2>3. T # {}
    BY <1>2
  <2> HIDE DEF size, C
  <2>4. N + 1 \in Nat
    BY NAssumption
  <2>5. PICK m \in T : \A x \in T : x <= m
    <3> HIDE DEF T
    <3> QED BY <2>2, <2>3, <2>4, GreatestNat
  <2>6. PICK d \in C : m = size(d) + 1
    OBVIOUS
  <2>7. \A e \in C : size(e) + 1 <= size(d) + 1 /\ size(e) \in Nat /\ size(d) \in Nat
    BY <1>1, <2>1, <2>5, <2>6
  <2> QED BY <2>7
<1>4. ASSUME NEW e \in C PROVE Dominates(g, e, d)
  <2>1. CASE Dominates(g, e, d)
    BY <2>1
  <2>2. CASE Dominates(g, d, e)
    <3>1. Dominators(g, d) \subseteq Dominators(g, e)
      BY <2>2, DominatesTrans DEF Dominators
    <3>2. size(e) <= size(d) /\ size(d) <= size(e) /\ size(e) \in Nat /\ size(d) \in Nat
      BY <1>1, <1>3, <3>1, FS_Subset
    <3>3. size(e) = size(d)
      BY <3>2
    <3>4. Dominators(g, e) = Dominators(g, d)
      BY <1>1, <3>1, <3>3, FS_Subset
    <3>5. e \in Dominators(g, e)
      BY DominatesSelf DEF Dominators
    <3> QED BY <3>4, <3>5 DEF Dominators
  <2> QED BY <2>1, <2>2, DominatorsAreAChain
<1>5. IsNearest(g, S, d, b)
  BY <1>4 DEF IsNearest
<1> QED
  BY <1>5 DEF Nearest

LEMMA NearestUnique ==
    ASSUME NEW g \in Edges, NEW S \in SUBSET Block, NEW b \in Block, Reachable(g, b),
           NEW d, IsNearest(g, S, d, b), NEW e, IsNearest(g, S, e, b)
    PROVE  d = e
<1>1. d \in Block /\ e \in Block /\ Dominates(g, d, e) /\ Dominates(g, e, d) /\ Dominates(g, e, b)
  BY DEF IsNearest
<1>2. Reachable(g, e)
  BY <1>1, DominatorReachable
<1> QED
  BY <1>1, <1>2, DominatesAntisym

(* An edge into a block that is on no frontier of S leads from below the   *)
(* nearest block of S to below it.                                         *)
Source(g, S, p) == IF p \in S THEN p ELSE Nearest(g, S, p)
LEMMA EdgeKeepsNearest ==
    ASSUME NEW g \in Edges, NEW S \in SUBSET Block, Entry \in S,
           NEW p \in Block, Reachable(g, p), NEW b \in g[p], b # Entry,
           \A d \in S : b \notin Frontier(g, d)
    PROVE  Nearest(g, S, b) = Source(g, S, p)
<1> DEFINE d == Source(g, S, p)
<1>1. b \in Block /\ Reachable(g, b)
  BY SuccessorReachable
<1>2. d \in S /\ Dominates(g, d, p) /\ \A e \in S : Dominates(g, e, p) => Dominates(g, e, d)
  <2>1. CASE p \in S
    BY <2>1, DominatesSelf DEF Source
  <2>2. CASE p \notin S
    <3>1. IsNearest(g, S, Nearest(g, S, p), p)
      BY <2>2, NearestExists
    <3> QED BY <2>2, <3>1 DEF Source, IsNearest
  <2> QED BY <2>1, <2>2
<1> HIDE DEF d
<1>3. d # b /\ Dominates(g, d, b)
  <2>1. p \in ReachableBlocks(g)
    BY DEF ReachableBlocks
  <2>2. d \in StrictDominators(g, b)
    BY <1>1, <1>2, <2>1 DEF Frontier
  <2> QED BY <2>2 DEF StrictDominators, Dominators
<1>4. ASSUME NEW e \in S, e # b, Dominates(g, e, b) PROVE Dominates(g, e, d)
  <2>1. e \in Dominators(g, p)
    BY <1>1, <1>4, DominatorsOfPredecessors DEF Dominators
  <2> QED BY <1>2, <2>1 DEF Dominators
<1>5. IsNearest(g, S, d, b)
  BY <1>2, <1>3, <1>4 DEF IsNearest
<1>6. IsNearest(g, S, Nearest(g, S, b), b)
  BY <1>1, NearestExists
<1> QED
  BY <1>1, <1>5, <1>6, NearestUnique DEF d
-----------------------------------------------------------------------------
(* Part 2.  The phi functions.                                             *)

LEMMA GivenParts ==
    ASSUME NEW p, Given(p)
    PROVE  /\ SuccOf(p) \in Edges
           /\ p.code \in [Block -> Seq({"use", "def"})]
           /\ \A b \in Block : SuccOf(p)[b] = {p.l[b], p.jmp[b]} \ {NULL}
           /\ \A b \in Block : Entry \notin SuccOf(p)[b]
           /\ Len(p.code[Entry]) >= 1 /\ p.code[Entry][1] = "def"
           /\ Plain(p)
<1>1. /\ p.l \in [Block -> Block \union {NULL}] /\ p.jmp \in [Block -> Block \union {NULL}]
      /\ p.code \in [Block -> Seq({"use", "def"})]
  BY DEF Given
<1>2. SuccOf(p) \in Edges
  BY <1>1 DEF SuccOf, Edges
<1>3. Entry \in Block
  BY NAssumption DEF Entry, Block
<1>4. Len(p.code[Entry]) >= 1
  <2>1. p.code[Entry] \in Seq({"use", "def"}) /\ p.code[Entry] # <<>>
    BY <1>1, <1>3 DEF Given
  <2> QED BY <2>1, EmptySeq, LenProperties
<1> QED
  BY <1>1, <1>2, <1>4 DEF Given, SuccOf

Phases == {"insert", "visit entry", "rename", "run", "returned"}
PhiInv ==
    /\ func \in SsaPrograms /\ succs = SuccOf(func) /\ domf = [b \in Block |-> Frontier(succs, b)]
    /\ ssaPhase \in Phases /\ phi \subseteq Block /\ defs \subseteq Block
    /\ \A S \in SUBSET Block : Iterated(S) => phi \subseteq S
    /\ ssaPhase = "insert" => /\ phi \subseteq defs /\ \A b \in Block : Defines(b) => b \in defs
                              /\ \A d \in defs : Defines(d) \/ d \in phi
    /\ ssaPhase # "insert" => Iterated(phi)

LEMMA PhiInvariant == SsaSpec => []PhiInv
<1>1. SsaInit => PhiInv
  BY DEF SsaInit, PhiInv, Phases
<1>2. PhiInv /\ [SsaNext]_ssaVars => PhiInv'
  <2> SUFFICES ASSUME PhiInv, [SsaNext]_ssaVars PROVE PhiInv'
    OBVIOUS
  <2>1. CASE InsertPhi
    <3>1. /\ ssaPhase = "insert" /\ phi' = phi \union Joins /\ defs' = defs \union Pending
          /\ ssaPhase' = (IF Pending = {} THEN "visit entry" ELSE ssaPhase)
          /\ func' = func /\ succs' = succs /\ domf' = domf
      BY <2>1 DEF InsertPhi, funcVars
    <3>2. \A b \in Block : domf[b] \subseteq Block
      BY DEF PhiInv, Frontier
    <3>3. Joins \subseteq Block /\ Pending \subseteq Joins /\ Joins \subseteq defs \union Pending
      BY <3>2 DEF Joins, Pending, PhiInv
    <3>4. ASSUME NEW S \in SUBSET Block, Iterated(S) PROVE phi \union Joins \subseteq S
      <4>1. phi \subseteq S
        BY <3>4 DEF PhiInv
      <4>2. \A d \in defs : domf[d] \subseteq S
        BY <3>1, <3>4, <4>1 DEF PhiInv, Iterated
      <4> QED BY <4>1, <4>2 DEF Joins
    <3>5. \A S \in SUBSET Block : Iterated(S)' <=> Iterated(S)
      BY <3>1 DEF Iterated, Defines
    <3>6. \A b \in Block : Defines(b)' <=> Defines(b)
      BY <3>1 DEF Defines
    <3>7. Pending = {} => Iterated(phi)'
      <4> SUFFICES ASSUME Pending = {} PROVE Iterated(phi)'
        OBVIOUS
      <4>1. \A d \in defs : domf[d] \subseteq phi'
        BY <3>1 DEF Joins
      <4>2. phi' \subseteq defs
        BY <3>1, <3>3 DEF PhiInv
      <4>3. Iterated(phi')
        BY <3>1, <4>1, <4>2 DEF Iterated, PhiInv
      <4> QED BY <3>1, <4>3 DEF Iterated, Defines
    <3>8. phi' \subseteq Block /\ defs' \subseteq Block /\ phi' \subseteq defs'
      BY <3>1, <3>3 DEF PhiInv
    <3>9. /\ \A b \in Block : Defines(b)' => b \in defs'
          /\ \A d \in defs' : Defines(d)' \/ d \in phi'
      BY <3>1, <3>3, <3>6 DEF PhiInv
    <3>10. \A S \in SUBSET Block : Iterated(S)' => phi' \subseteq S
      BY <3>1, <3>4, <3>5
    <3> QED BY <3>1, <3>7, <3>8, <3>9, <3>10 DEF PhiInv, Phases
  <2>2. ASSUME /\ ssaPhase # "insert" /\ ssaPhase' # "insert" /\ ssaPhase' \in Phases
               /\ func' = func /\ succs' = succs /\ domf' = domf /\ phi' = phi /\ defs' = defs
        PROVE  PhiInv'
    <3>1. \A S : Iterated(S)' <=> Iterated(S)
      BY <2>2 DEF Iterated, Defines
    <3> QED BY <2>2, <3>1 DEF PhiInv
  <2>3. CASE VisitEntry \/ Descend \/ Skip \/ LeaveBlock \/ RunSsaBlock \/ RunSsaLast
    <3>1. /\ func' = func /\ succs' = succs /\ domf' = domf /\ phi' = phi /\ defs' = defs
      BY <2>3 DEF VisitEntry, Descend, Skip, LeaveBlock, RunSsaBlock, RunSsaLast, funcVars, ssaPassVars
    <3>2. ssaPhase # "insert" /\ ssaPhase' # "insert" /\ ssaPhase' \in Phases
      BY <2>3 DEF VisitEntry, Descend, Skip, LeaveBlock, RunSsaBlock, RunSsaLast, Phases
    <3> QED BY <2>2, <3>1, <3>2
  <2>4. CASE UNCHANGED ssaVars
    <3>1. /\ func' = func /\ succs' = succs /\ domf' = domf /\ phi' = phi /\ defs' = defs /\ ssaPhase' = ssaPhase
      BY <2>4 DEF ssaVars, funcVars, ssaPassVars
    <3>2. \A S : Iterated(S)' <=> Iterated(S)
      BY <3>1 DEF Iterated, Defines
    <3>3. \A b : Defines(b)' <=> Defines(b)
      BY <3>1 DEF Defines
    <3> QED BY <3>1, <3>2, <3>3 DEF PhiInv
  <2> QED BY <2>1, <2>3, <2>4 DEF SsaNext
<1> QED
  BY <1>1, <1>2, PTL DEF SsaSpec

(* The phi functions stand exactly on the iterated dominance frontier of   *)
(* the definitions when HIR_SSA_insert_phi ends.                           *)
THEOREM PhisAreExact == SsaSpec => []PhisExact
<1>1. PhiInv => PhisExact
  BY DEF PhiInv, PhisExact
<1> QED
  BY <1>1, PhiInvariant, PTL
-----------------------------------------------------------------------------
(* Part 3.  The versions of a renamed function: q the function, F the      *)
(* blocks with a phi function, c the code, a the versions of the phi       *)
(* functions.                                                              *)

DefinesIn(q, b) == \E i \in DOMAIN q.code[b] : q.code[b][i] = "def"
Sources(q, F) == {b \in Block : DefinesIn(q, b)} \union F
Above(q, F, b) == Nearest(SuccOf(q), Sources(q, F), b)

DefsOf(c, b, n) == {i \in 1 .. n : c[b][i].op = "def"}
LastOf(T) == CHOOSE i \in T : \A j \in T : j <= i

(* The version at the end of a source, and at the start, after n           *)
(* operations and at the end of any block.                                 *)
EndVer(c, a, d) ==
    LET T == DefsOf(c, d, Len(c[d])) IN IF T = {} THEN a[d] ELSE c[d][LastOf(T)].ver
InVer(q, F, c, a, b) ==
    IF b \in F THEN a[b] ELSE IF b = Entry THEN Base ELSE EndVer(c, a, Above(q, F, b))
VerAt(q, F, c, a, b, n) ==
    LET T == DefsOf(c, b, n) IN IF T = {} THEN InVer(q, F, c, a, b) ELSE c[b][LastOf(T)].ver
OutVer(q, F, c, a, b) == VerAt(q, F, c, a, b, Len(c[b]))

(* What HIR_SSA_insert_phi leaves to HIR_SSA_rename.                       *)
Ground(q, F) ==
    /\ Given(q) /\ SuccOf(q) \in Edges /\ F \subseteq Block \ {Entry}
    /\ DefinesIn(q, Entry)
    /\ \A b \in Block : Entry \notin SuccOf(q)[b]
    /\ \A d \in Sources(q, F), b \in Block \ F : b \notin Frontier(SuccOf(q), d)

LEMMA GroundHolds ==
    ASSUME PhiInv, ssaPhase # "insert", \A p \in SsaPrograms : Given(p)
    PROVE  Ground(func, phi) /\ succs = SuccOf(func)
<1>1. Given(func) /\ succs = SuccOf(func) /\ succs \in Edges /\ func.code[Entry][1] = "def"
      /\ Len(func.code[Entry]) >= 1 /\ \A b \in Block : Entry \notin succs[b]
  BY GivenParts DEF PhiInv
<1>2. Entry \in Block
  BY NAssumption DEF Entry, Block
<1>3. DefinesIn(func, Entry)
  <2>1. func.code[Entry] \in Seq({"use", "def"})
    BY <1>1, <1>2, GivenParts
  <2>2. 1 \in DOMAIN func.code[Entry]
    BY <1>1, <2>1
  <2> QED BY <1>1, <2>2 DEF DefinesIn
<1>4. phi \subseteq Block \ {Entry}
  <2>1. \A b \in Block : domf[b] \subseteq Block \ {Entry}
    <3>1. \A b \in Block : domf[b] = Frontier(succs, b)
      BY DEF PhiInv
    <3>2. \A b \in Block : \A f \in Frontier(succs, b) : \E p \in Block : f \in Block /\ f \in succs[p]
      BY DEF Frontier, ReachableBlocks
    <3> QED BY <1>1, <3>1, <3>2
  <2>2. Iterated(Block \ {Entry})
    BY <2>1 DEF Iterated
  <2> QED BY <2>2 DEF PhiInv
<1>5. \A d \in Sources(func, phi) : d \in Block /\ Frontier(succs, d) \subseteq phi
  <2>1. \A d \in Sources(func, phi) : d \in Block /\ (d \in phi \/ Defines(d))
    BY DEF Sources, PhiInv, DefinesIn, Defines
  <2> QED BY <2>1 DEF PhiInv, Iterated
<1>6. SuccOf(func) \in Edges /\ \A b \in Block : Entry \notin SuccOf(func)[b]
  BY <1>1
<1>7. \A d \in Sources(func, phi), b \in Block \ phi : b \notin Frontier(SuccOf(func), d)
  BY <1>1, <1>5
<1> QED
  BY <1>1, <1>3, <1>4, <1>6, <1>7 DEF Ground

Codes(q, c) ==
    /\ c \in [Block -> Seq([op : {"use", "def"}, ver : Nat])]
    /\ \A b \in Block : Len(c[b]) = Len(q.code[b])
    /\ \A b \in Block : \A i \in 1 .. Len(c[b]) : c[b][i].op = q.code[b][i]

LEMMA LastOfIs ==
    ASSUME NEW n \in Nat, NEW T, T \subseteq 1 .. n, T # {}
    PROVE  LastOf(T) \in T /\ \A j \in T : j <= LastOf(T)
<1>1. \E i \in T : \A j \in T : j <= i
  BY GreatestNat
<1> QED
  BY <1>1 DEF LastOf

LEMMA CodesParts ==
    ASSUME NEW q, NEW F, Ground(q, F), NEW c, Codes(q, c), NEW b \in Block
    PROVE  /\ c[b] \in Seq([op : {"use", "def"}, ver : Nat]) /\ Len(c[b]) \in Nat
           /\ DOMAIN c[b] = 1 .. Len(c[b])
           /\ DefinesIn(q, b) <=> DefsOf(c, b, Len(c[b])) # {}
<1>1. c[b] \in Seq([op : {"use", "def"}, ver : Nat])
  BY DEF Codes
<1>2. Len(c[b]) \in Nat /\ DOMAIN c[b] = 1 .. Len(c[b])
  BY <1>1
<1>3. DOMAIN q.code[b] = 1 .. Len(c[b])
  <2>1. q.code[b] \in Seq({"use", "def"})
    BY GivenParts DEF Ground
  <2>2. DOMAIN q.code[b] = 1 .. Len(q.code[b])
    BY <2>1
  <2> QED BY <2>2 DEF Codes
<1>4. \A i \in 1 .. Len(c[b]) : c[b][i].op = q.code[b][i]
  BY DEF Codes
<1> QED
  BY <1>1, <1>2, <1>3, <1>4 DEF DefinesIn, DefsOf

LEMMA SourceFacts ==
    ASSUME NEW q, NEW F, Ground(q, F)
    PROVE  Sources(q, F) \in SUBSET Block /\ Entry \in Sources(q, F) /\ Entry \in Block
<1>1. Entry \in Block
  BY NAssumption DEF Entry, Block
<1> QED
  BY <1>1 DEF Ground, Sources

(* An edge into a block without a phi function brings the version the    *)
(* block starts with.                                                      *)
LEMMA EdgeVersion ==
    ASSUME NEW q, NEW F, Ground(q, F), NEW c, NEW a, Codes(q, c),
           NEW p \in Block, Reachable(SuccOf(q), p), NEW b \in SuccOf(q)[p], b \notin F
    PROVE  InVer(q, F, c, a, b) = OutVer(q, F, c, a, p)
<1>1. SuccOf(q) \in Edges /\ b \in Block /\ b # Entry /\ \A d \in Sources(q, F) : b \notin Frontier(SuccOf(q), d)
  BY DEF Ground, Edges
<1>2. Above(q, F, b) = Source(SuccOf(q), Sources(q, F), p)
  BY <1>1, SourceFacts, EdgeKeepsNearest DEF Above
<1>3. InVer(q, F, c, a, b) = EndVer(c, a, Source(SuccOf(q), Sources(q, F), p))
  BY <1>1, <1>2 DEF InVer
<1>4. CASE p \in Sources(q, F)
  <2>1. InVer(q, F, c, a, b) = EndVer(c, a, p)
    BY <1>3, <1>4 DEF Source
  <2>2. DefsOf(c, p, Len(c[p])) = {} => p \in F
    BY <1>4, CodesParts DEF Sources
  <2> QED BY <2>1, <2>2 DEF EndVer, OutVer, VerAt, InVer
<1>5. CASE p \notin Sources(q, F)
  <2>1. InVer(q, F, c, a, b) = EndVer(c, a, Above(q, F, p))
    BY <1>3, <1>5 DEF Source, Above
  <2>2. DefsOf(c, p, Len(c[p])) = {} /\ p \notin F /\ p # Entry
    BY <1>5, SourceFacts, CodesParts DEF Sources
  <2> QED BY <2>1, <2>2 DEF OutVer, VerAt, InVer
<1> QED
  BY <1>4, <1>5

(* A block before its first visit and after it; n is the last version.     *)
Blank(c, a, b) == a[b] = NULL /\ \A i \in 1 .. Len(c[b]) : c[b][i].ver = Base
Done(q, F, c, a, n, b) ==
    /\ Reachable(SuccOf(q), b)
    /\ b \in F => a[b] \in 1 .. n
    /\ b # Entry => InVer(q, F, c, a, b) \in 1 .. n
    /\ \A i \in 1 .. Len(c[b]) : c[b][i].ver \in 1 .. n
    /\ \A i \in 1 .. Len(c[b]) : c[b][i].op = "use" => c[b][i].ver = VerAt(q, F, c, a, b, i - 1)

LEMMA OutVerMade ==
    ASSUME NEW q, NEW F, Ground(q, F), NEW c, NEW a, Codes(q, c), NEW n \in Nat, NEW b \in Block, Done(q, F, c, a, n, b)
    PROVE  OutVer(q, F, c, a, b) \in 1 .. n
<1> DEFINE D == DefsOf(c, b, Len(c[b]))
<1>1. CASE D = {}
  <2>1. b # Entry
    BY <1>1, CodesParts DEF Ground
  <2> QED BY <1>1, <2>1 DEF OutVer, VerAt, Done
<1>2. CASE D # {}
  <2>1. LastOf(D) \in D /\ D \subseteq 1 .. Len(c[b])
    BY <1>2, CodesParts, LastOfIs DEF DefsOf
  <2>2. OutVer(q, F, c, a, b) = c[b][LastOf(D)].ver
    BY <1>2 DEF OutVer, VerAt
  <2> HIDE DEF D
  <2> QED BY <2>1, <2>2 DEF Done
<1> QED
  BY <1>1, <1>2

(* What is renamed stays so while other blocks are renamed: the block it   *)
(* gets its version from is renamed too.                                   *)
LEMMA DoneStays ==
    ASSUME NEW q, NEW F, Ground(q, F), NEW c, NEW a, Codes(q, c), NEW n \in Nat,
           NEW w, NEW c2, NEW a2, NEW n2 \in Nat,
           n <= n2,
           \A x \in Block : w[x] = {} => Blank(c, a, x),
           \A x \in Block : w[x] # {} => c2[x] = c[x] /\ a2[x] = a[x],
           NEW b \in Block, w[b] # {}, Done(q, F, c, a, n, b)
    PROVE  /\ InVer(q, F, c2, a2, b) = InVer(q, F, c, a, b)
           /\ OutVer(q, F, c2, a2, b) = OutVer(q, F, c, a, b)
           /\ Done(q, F, c2, a2, n2, b)
<1>1. c2[b] = c[b] /\ a2[b] = a[b]
  OBVIOUS
<1>2. InVer(q, F, c2, a2, b) = InVer(q, F, c, a, b)
  <2>1. CASE b \in F \/ b = Entry
    BY <1>1, <2>1 DEF InVer
  <2>2. CASE b \notin F /\ b # Entry
    <3>1. Above(q, F, b) \in Block
      <4>1. IsNearest(SuccOf(q), Sources(q, F), Above(q, F, b), b)
        BY <2>2, SourceFacts, NearestExists DEF Ground, Done, Above
      <4> QED BY <4>1, SourceFacts DEF IsNearest
    <3>2. EndVer(c, a, Above(q, F, b)) \in 1 .. n
      BY <2>2 DEF Done, InVer
    <3>3. w[Above(q, F, b)] # {}
      <4> SUFFICES ASSUME Blank(c, a, Above(q, F, b)) PROVE FALSE
        BY <3>1
      <4> DEFINE D == DefsOf(c, Above(q, F, b), Len(c[Above(q, F, b)]))
      <4>1. D # {} => LastOf(D) \in 1 .. Len(c[Above(q, F, b)])
        BY <3>1, CodesParts, LastOfIs DEF DefsOf
      <4>2. EndVer(c, a, Above(q, F, b)) = 0
        <5>1. CASE D = {}
          BY <5>1 DEF EndVer, Blank, NULL
        <5>2. CASE D # {}
          <6>1. EndVer(c, a, Above(q, F, b)) = c[Above(q, F, b)][LastOf(D)].ver
            BY <5>2 DEF EndVer
          <6> HIDE DEF D
          <6> QED BY <4>1, <5>2, <6>1 DEF Blank, Base
        <5> QED BY <5>1, <5>2
      <4> QED BY <3>2, <4>2
    <3>4. EndVer(c2, a2, Above(q, F, b)) = EndVer(c, a, Above(q, F, b))
      BY <3>1, <3>3 DEF EndVer, DefsOf
    <3> QED BY <2>2, <3>4 DEF InVer
  <2> QED BY <2>1, <2>2
<1>3. \A k : VerAt(q, F, c2, a2, b, k) = VerAt(q, F, c, a, b, k)
  BY <1>1, <1>2 DEF VerAt, DefsOf
<1>4. 1 .. n \subseteq 1 .. n2
  OBVIOUS
<1> QED
  BY <1>1, <1>2, <1>3, <1>4 DEF OutVer, Done
-----------------------------------------------------------------------------
(* Part 4.  The visit of a block.                                          *)

Op == [op : {"use", "def"}, ver : Nat]
DefsIn(ops, n) == {i \in 1 .. n : ops[i].op = "def"}

LEMMA DefsInFinite ==
    ASSUME NEW ops, NEW n \in Nat, NEW k \in 0 .. n
    PROVE  /\ IsFiniteSet(DefsIn(ops, k)) /\ Cardinality(DefsIn(ops, k)) \in Nat
           /\ Cardinality(DefsIn(ops, k)) <= Cardinality(DefsIn(ops, n))
           /\ DefsIn(ops, k) # {} => Cardinality(DefsIn(ops, k)) >= 1
           /\ DefsIn(ops, k) # {} => DefsIn(ops, LastOf(DefsIn(ops, k))) = DefsIn(ops, k)
<1>1. \A j \in Nat : IsFiniteSet(1 .. j)
  BY FS_Interval
<1>2. \A j \in Nat : DefsIn(ops, j) \subseteq 1 .. j /\ IsFiniteSet(DefsIn(ops, j))
  BY <1>1, FS_Subset DEF DefsIn
<1>3. k \in Nat /\ DefsIn(ops, k) \subseteq DefsIn(ops, n)
  BY DEF DefsIn
<1>4. IsFiniteSet(DefsIn(ops, k)) /\ Cardinality(DefsIn(ops, k)) \in Nat
  BY <1>2, <1>3, FS_CardinalityType
<1>5. Cardinality(DefsIn(ops, k)) <= Cardinality(DefsIn(ops, n))
  BY <1>2, <1>3, FS_Subset
<1>6. DefsIn(ops, k) # {} => Cardinality(DefsIn(ops, k)) # 0
  BY <1>4, FS_EmptySet
<1>7. DefsIn(ops, k) # {} => DefsIn(ops, LastOf(DefsIn(ops, k))) = DefsIn(ops, k)
  <2> SUFFICES ASSUME DefsIn(ops, k) # {} PROVE DefsIn(ops, LastOf(DefsIn(ops, k))) = DefsIn(ops, k)
    OBVIOUS
  <2>1. PICK m : m = LastOf(DefsIn(ops, k))
    OBVIOUS
  <2>2. m \in DefsIn(ops, k) /\ \A j \in DefsIn(ops, k) : j <= m
    BY <1>2, <1>3, <2>1, LastOfIs
  <2>3. m \in 1 .. k
    BY <2>2 DEF DefsIn
  <2>4. DefsIn(ops, m) = DefsIn(ops, k)
    BY <1>3, <2>2, <2>3 DEF DefsIn
  <2> QED BY <2>1, <2>4
<1> QED
  BY <1>4, <1>5, <1>6, <1>7

(* The first visit gives every operation its version.                      *)
LEMMA RenamedBlank ==
    ASSUME NEW ops \in Seq(Op), \A i \in 1 .. Len(ops) : ops[i].ver = Base,
           NEW v \in Nat, NEW id \in Nat,
           NEW r, r = Renamed(ops, v, id)
    PROVE  /\ r \in Seq(Op) /\ Len(r) = Len(ops)
           /\ \A i \in 1 .. Len(ops) : r[i].op = ops[i].op
           /\ \A n \in 0 .. Len(ops) :
                  VersionAfter(ops, n, v, id) =
                      IF DefsIn(r, n) = {} THEN v ELSE r[LastOf(DefsIn(r, n))].ver
           /\ {i \in DOMAIN ops : ops[i].op = "def" /\ ops[i].ver = Base} = DefsIn(r, Len(ops))
           /\ \A i \in 1 .. Len(ops) : ops[i].op = "def" =>
                  r[i].ver \in id + 1 .. id + Cardinality(DefsIn(r, Len(ops)))
           /\ \A i \in 1 .. Len(ops) : ops[i].op = "use" =>
                  r[i].ver = VersionAfter(ops, i - 1, v, id)
<1> DEFINE L == Len(ops)
<1>1. L \in Nat /\ DOMAIN ops = 1 .. L
  OBVIOUS
<1>2. \A i \in 1 .. L : ops[i] \in Op
  OBVIOUS
<1>3. \A n \in 0 .. L : {i \in 1 .. n : ops[i].op = "def" /\ ops[i].ver = Base} = DefsIn(ops, n)
  BY <1>1 DEF DefsIn
<1>4. \A n \in 0 .. L : VersionAfter(ops, n, v, id) =
          IF DefsIn(ops, n) = {} THEN v ELSE id + Cardinality(DefsIn(ops, n))
  BY <1>3 DEF VersionAfter
<1>5. \A n \in 0 .. L : VersionAfter(ops, n, v, id) \in Nat
  BY <1>1, <1>4, DefsInFinite
<1>6. \A i \in 1 .. L : ops[i].ver = 0 /\ ops[i].op \in {"use", "def"}
  BY <1>2 DEF Op, Base
<1>7. DOMAIN r = 1 .. L /\ \A i \in 1 .. L :
          r[i] = [ops[i] EXCEPT !.ver = VersionAfter(ops, IF ops[i].op = "def" THEN i ELSE i - 1, v, id)]
  BY <1>1, <1>6 DEF Renamed, Base
<1>8. \A i \in 1 .. L :
          /\ r[i].op = ops[i].op
          /\ r[i].ver = VersionAfter(ops, IF ops[i].op = "def" THEN i ELSE i - 1, v, id)
          /\ r[i] \in Op
  <2> TAKE i \in 1 .. L
  <2>1. PICK x \in Nat : x = VersionAfter(ops, IF ops[i].op = "def" THEN i ELSE i - 1, v, id)
    BY <1>1, <1>5
  <2>2. r[i] = [ops[i] EXCEPT !.ver = x]
    BY <1>7, <2>1
  <2> QED BY <1>2, <2>1, <2>2 DEF Op
<1>9. r \in Seq(Op) /\ Len(r) = L
  <2>1. r = [i \in 1 .. L |-> r[i]]
    BY <1>7 DEF Renamed
  <2>2. \A i \in 1 .. L : r[i] \in Op
    BY <1>8
  <2>3. r \in [1 .. L -> Op]
    BY <2>1, <2>2
  <2> QED BY <1>1, <2>3
<1>10. \A n \in 0 .. L : DefsIn(r, n) = DefsIn(ops, n)
  BY <1>1, <1>8 DEF DefsIn
<1>11. \A i \in 1 .. L : ops[i].op = "def" =>
          r[i].ver = id + Cardinality(DefsIn(ops, i)) /\ DefsIn(ops, i) # {}
  <2> SUFFICES ASSUME NEW i \in 1 .. L, ops[i].op = "def"
               PROVE  r[i].ver = id + Cardinality(DefsIn(ops, i)) /\ DefsIn(ops, i) # {}
    OBVIOUS
  <2>1. i \in DefsIn(ops, i) /\ i \in 0 .. L
    BY <1>1 DEF DefsIn
  <2> QED BY <1>4, <1>8, <2>1
<1>12. ASSUME NEW n \in 0 .. L
       PROVE  VersionAfter(ops, n, v, id) = IF DefsIn(r, n) = {} THEN v ELSE r[LastOf(DefsIn(r, n))].ver
  <2>1. CASE DefsIn(ops, n) = {}
    BY <1>4, <1>10, <2>1
  <2>2. CASE DefsIn(ops, n) # {}
    <3>1. PICK m : m = LastOf(DefsIn(ops, n))
      OBVIOUS
    <3>2. m \in DefsIn(ops, n) /\ DefsIn(ops, m) = DefsIn(ops, n)
      <4>1. DefsIn(ops, n) \subseteq 1 .. L
        BY <1>1 DEF DefsIn
      <4>2. m \in DefsIn(ops, n)
        BY <1>1, <2>2, <3>1, <4>1, LastOfIs
      <4>3. DefsIn(ops, m) = DefsIn(ops, n)
        BY <1>1, <2>2, <3>1, DefsInFinite
      <4> QED BY <4>2, <4>3
    <3>3. m \in 1 .. L /\ ops[m].op = "def"
      BY <1>1, <3>2 DEF DefsIn
    <3>4. r[m].ver = id + Cardinality(DefsIn(ops, n))
      BY <1>11, <3>2, <3>3
    <3> QED BY <1>4, <1>10, <2>2, <3>1, <3>4
  <2> QED BY <2>1, <2>2
<1>13. ASSUME NEW i \in 1 .. L, ops[i].op = "def"
       PROVE  r[i].ver \in id + 1 .. id + Cardinality(DefsIn(r, L))
  <2>1. i \in 0 .. L /\ L \in 0 .. L
    BY <1>1
  <2>2. /\ Cardinality(DefsIn(ops, i)) \in Nat /\ Cardinality(DefsIn(ops, i)) >= 1
        /\ Cardinality(DefsIn(ops, i)) <= Cardinality(DefsIn(ops, L))
        /\ Cardinality(DefsIn(ops, L)) \in Nat
    BY <1>1, <1>11, <1>13, <2>1, DefsInFinite
  <2>3. r[i].ver = id + Cardinality(DefsIn(ops, i)) /\ DefsIn(r, L) = DefsIn(ops, L)
    BY <1>10, <1>11, <1>13, <2>1
  <2> QED BY <2>2, <2>3
<1>14. \A i \in 1 .. L : ops[i].op = "use" => r[i].ver = VersionAfter(ops, i - 1, v, id)
  BY <1>8
<1>15. {i \in DOMAIN ops : ops[i].op = "def" /\ ops[i].ver = Base} = DefsIn(r, L)
  BY <1>1, <1>3, <1>10
<1> QED
  BY <1>8, <1>9, <1>12, <1>13, <1>14, <1>15

(* A later visit changes nothing and goes on with the version it came with. *)
LEMMA RenamedAgain ==
    ASSUME NEW ops \in Seq(Op), \A i \in 1 .. Len(ops) : ops[i].ver # Base, NEW v, NEW id
    PROVE  /\ Renamed(ops, v, id) = ops
           /\ VersionAfter(ops, Len(ops), v, id) = v
           /\ Cardinality({i \in DOMAIN ops : ops[i].op = "def" /\ ops[i].ver = Base}) = 0
<1>1. DOMAIN ops = 1 .. Len(ops)
  OBVIOUS
<1>2. Renamed(ops, v, id) = [i \in DOMAIN ops |-> ops[i]]
  BY <1>1 DEF Renamed
<1>3. {i \in 1 .. Len(ops) : ops[i].op = "def" /\ ops[i].ver = Base} = {}
  OBVIOUS
<1>4. Cardinality({}) = 0
  BY FS_EmptySet
<1>5. ops = [i \in DOMAIN ops |-> ops[i]]
  OBVIOUS
<1> QED
  BY <1>1, <1>2, <1>3, <1>4, <1>5 DEF VersionAfter

(* The code as the traversal leaves it at any time: m the preambles, w the *)
(* visitors, n the last version.                                           *)
From(q, w, p, b) ==
    (p = NULL /\ b = Entry) \/ (p \in Block /\ w[p] # {} /\ b \in SuccOf(q)[p])
CopyOf(q, F, c, a, w, p, x) ==
    \E s \in SuccOf(q)[p] \intersect F :
        /\ w[s] # {} /\ a[s] # OutVer(q, F, c, a, p)
        /\ x = <<a[s], OutVer(q, F, c, a, p)>>
CopiesDone(q, F, c, a, m, w, p) ==
    /\ \A i \in 1 .. Len(m[p]) : w[p] # {} /\ CopyOf(q, F, c, a, w, p, m[p][i])
    /\ \A s \in SuccOf(q)[p] \intersect F :
           p \in w[s] /\ a[s] # OutVer(q, F, c, a, p)
           => \E i \in 1 .. Len(m[p]) : m[p][i] = <<a[s], OutVer(q, F, c, a, p)>>
CodeInv(q, F, c, a, m, w, n) ==
    /\ n \in Nat /\ Codes(q, c) /\ a \in [Block -> Nat]
    /\ m \in [Block -> Seq(Nat \X Nat)]
    /\ w \in [Block -> SUBSET (Block \union {NULL})]
    /\ \A b \in Block : w[b] = {} => Blank(c, a, b)
    /\ \A b \in Block : w[b] # {} => Done(q, F, c, a, n, b)
    /\ \A b \in Block : \A p \in w[b] : From(q, w, p, b)
    /\ \A p \in Block : CopiesDone(q, F, c, a, m, w, p)

(* A visit of b from p, after which the code, the versions of the phi      *)
(* functions, the preambles and the visitors are c2, a2, m2 and w2.        *)
Visited(q, F, c, a, m, w, n, b, p, c2, a2, m2, w2) ==
    /\ CodeInv(q, F, c, a, m, w, n) /\ b \in Block /\ From(q, w, p, b)
    /\ \A x \in Block : w[x] # {} =>
           a2[x] = a[x] /\ OutVer(q, F, c2, a2, x) = OutVer(q, F, c, a, x)
    /\ a2[b] \in Nat
    /\ p # NULL => OutVer(q, F, c, a, p) \in Nat
    /\ w2 = [w EXCEPT ![b] = @ \union {p}]
    /\ m2 = IF b \in F /\ p # NULL /\ a2[b] # OutVer(q, F, c, a, p)
            THEN [m EXCEPT ![p] = Append(@, <<a2[b], OutVer(q, F, c, a, p)>>)] ELSE m

(* It adds the copy to b's phi function and no other.                      *)
LEMMA CopiesAfterVisit ==
    ASSUME NEW q, NEW F, Ground(q, F), NEW c, NEW a, NEW m, NEW w, NEW n, NEW b, NEW p,
           NEW c2, NEW a2, NEW m2, NEW w2, Visited(q, F, c, a, m, w, n, b, p, c2, a2, m2, w2)
    PROVE  /\ m2 \in [Block -> Seq(Nat \X Nat)]
           /\ \A x \in Block : CopiesDone(q, F, c2, a2, m2, w2, x)
<1> b \in Block
  BY DEF Visited
<1>0. /\ CodeInv(q, F, c, a, m, w, n) /\ From(q, w, p, b)
      /\ \A x \in Block : w[x] # {} =>
             a2[x] = a[x] /\ OutVer(q, F, c2, a2, x) = OutVer(q, F, c, a, x)
      /\ a2[b] \in Nat
      /\ p # NULL => OutVer(q, F, c, a, p) \in Nat
      /\ w2 = [w EXCEPT ![b] = @ \union {p}]
      /\ m2 = IF b \in F /\ p # NULL /\ a2[b] # OutVer(q, F, c, a, p)
              THEN [m EXCEPT ![p] = Append(@, <<a2[b], OutVer(q, F, c, a, p)>>)] ELSE m
  BY DEF Visited
<1> USE <1>0
<1>1. /\ \A x \in Block : m[x] \in Seq(Nat \X Nat) /\ Len(m[x]) \in Nat
      /\ m \in [Block -> Seq(Nat \X Nat)]
      /\ \A x \in Block : CopiesDone(q, F, c, a, m, w, x)
      /\ w \in [Block -> SUBSET (Block \union {NULL})]
      /\ \A x \in Block : \A y \in w[x] : From(q, w, y, x)
  BY DEF CodeInv
<1>2. /\ \A s \in Block : w2[s] = IF s = b THEN w[s] \union {p} ELSE w[s]
      /\ NULL \notin Block
  <2>1. \A s \in Block : w2[s] = IF s = b THEN w[s] \union {p} ELSE w[s]
    BY <1>1
  <2>2. NULL \notin Block
    BY NAssumption DEF NULL, Block
  <2> QED BY <2>1, <2>2
<1>3. p # NULL => p \in Block /\ w[p] # {} /\ b \in SuccOf(q)[p]
  BY DEF From
<1>4. \A x \in Block : SuccOf(q)[x] \subseteq Block
  BY DEF Ground, Edges
<1>5. m2 \in [Block -> Seq(Nat \X Nat)]
  <2>1. CASE b \in F /\ p # NULL /\ a2[b] # OutVer(q, F, c, a, p)
    <3>1. Append(m[p], <<a2[b], OutVer(q, F, c, a, p)>>) \in Seq(Nat \X Nat)
      BY <1>1, <1>3, <2>1, AppendProperties
    <3> QED BY <1>1, <1>3, <2>1, <3>1
  <2>2. CASE ~(b \in F /\ p # NULL /\ a2[b] # OutVer(q, F, c, a, p))
    BY <1>1, <2>2
  <2> QED BY <2>1, <2>2
<1>6. ASSUME NEW x \in Block, w[x] = {} PROVE CopiesDone(q, F, c2, a2, m2, w2, x)
  <2>1. x # p /\ m2[x] = m[x]
    BY <1>1, <1>2, <1>3, <1>6
  <2>2. \A i \in 1 .. Len(m2[x]) : FALSE
    BY <1>1, <1>6, <2>1 DEF CopiesDone
  <2>3. \A s \in SuccOf(q)[x] : x \notin w2[s]
    <3> SUFFICES ASSUME NEW s \in SuccOf(q)[x], x \in w2[s] PROVE FALSE
      OBVIOUS
    <3>1. s \in Block /\ x \in w[s]
      BY <1>2, <1>4, <2>1
    <3>2. From(q, w, x, s)
      BY <1>1, <3>1
    <3> QED BY <1>2, <1>6, <3>2 DEF From
  <2> QED BY <2>2, <2>3 DEF CopiesDone
<1>7. ASSUME NEW x \in Block, w[x] # {} PROVE CopiesDone(q, F, c2, a2, m2, w2, x)
  <2>1. PICK o : o = OutVer(q, F, c, a, x)
    OBVIOUS
  <2>2. OutVer(q, F, c2, a2, x) = o /\ CopiesDone(q, F, c, a, m, w, x)
    BY <1>1, <1>7, <2>1
  <2>3. /\ \A i \in 1 .. Len(m[x]) : \E s \in SuccOf(q)[x] \intersect F :
               w[s] # {} /\ a[s] # o /\ m[x][i] = <<a[s], o>>
        /\ \A s \in SuccOf(q)[x] \intersect F : x \in w[s] /\ a[s] # o
               => \E i \in 1 .. Len(m[x]) : m[x][i] = <<a[s], o>>
    BY <2>1, <2>2 DEF CopiesDone, CopyOf
  <2>4. \A s \in Block : w[s] # {} => w2[s] # {} /\ a2[s] = a[s]
    BY <1>2
  <2>5. w2[x] # {} /\ (x = p => w2[b] # {})
    <3>1. \A s \in Block : w[s] \subseteq w2[s]
      BY <1>2
    <3>2. w2[b] = w[b] \union {p}
      BY <1>2
    <3>3. w2[b] # {}
      BY <3>2, Zenon
    <3> QED BY <1>7, <3>1, <3>3
  <2>6. CASE b \in F /\ x = p /\ a2[b] # o
    <3>1. PICK y : y = <<a2[b], o>>
      OBVIOUS
    <3>2. m2[x] = Append(m[x], y)
      BY <1>1, <1>2, <2>1, <2>6, <3>1
    <3>3. /\ Len(m2[x]) = Len(m[x]) + 1 /\ m2[x][Len(m[x]) + 1] = y
          /\ \A i \in 1 .. Len(m[x]) : m2[x][i] = m[x][i]
      BY <1>1, <3>2
    <3>4. ASSUME NEW i \in 1 .. Len(m2[x])
          PROVE  \E s \in SuccOf(q)[x] \intersect F : w2[s] # {} /\ a2[s] # o /\ m2[x][i] = <<a2[s], o>>
      <4>1. i \in 1 .. Len(m[x]) \/ i = Len(m[x]) + 1
        BY <1>1, <3>3
      <4>2. CASE i \in 1 .. Len(m[x])
        BY <1>4, <2>3, <2>4, <3>3, <4>2
      <4>3. CASE i = Len(m[x]) + 1
        BY <1>2, <1>3, <2>5, <2>6, <3>1, <3>3, <4>3
      <4> QED BY <4>1, <4>2, <4>3
    <3>5. ASSUME NEW s \in SuccOf(q)[x] \intersect F, x \in w2[s], a2[s] # o
          PROVE  \E i \in 1 .. Len(m2[x]) : m2[x][i] = <<a2[s], o>>
      <4>1. CASE x \in w[s]
        <5>1. PICK i \in 1 .. Len(m[x]) : m[x][i] = <<a[s], o>> /\ a2[s] = a[s]
          BY <1>4, <2>3, <2>4, <3>5, <4>1
        <5>2. i \in 1 .. Len(m2[x])
          BY <1>1, <3>3
        <5> QED BY <3>3, <5>1, <5>2
      <4>2. CASE x \notin w[s]
        <5>1. s = b /\ Len(m[x]) + 1 \in 1 .. Len(m2[x])
          BY <1>1, <1>2, <1>4, <3>3, <3>5, <4>2
        <5> QED BY <3>1, <3>3, <5>1
      <4> QED BY <4>1, <4>2
    <3>6. \A i \in 1 .. Len(m2[x]) : CopyOf(q, F, c2, a2, w2, x, m2[x][i])
      BY <2>2, <3>4 DEF CopyOf
    <3> QED BY <2>2, <2>5, <3>5, <3>6 DEF CopiesDone
  <2>7. CASE ~(b \in F /\ x = p /\ a2[b] # o)
    <3>1. m2[x] = m[x]
      BY <1>1, <1>2, <1>3, <2>1, <2>7
    <3>2. \A i \in 1 .. Len(m2[x]) : \E s \in SuccOf(q)[x] \intersect F :
               w2[s] # {} /\ a2[s] # o /\ m2[x][i] = <<a2[s], o>>
      <4> TAKE i \in 1 .. Len(m2[x])
      <4>1. PICK s \in SuccOf(q)[x] \intersect F : w[s] # {} /\ a[s] # o /\ m[x][i] = <<a[s], o>>
        BY <2>3, <3>1
      <4>2. s \in Block /\ w2[s] # {} /\ a2[s] = a[s]
        BY <1>4, <2>4, <4>1
      <4> QED BY <3>1, <4>1, <4>2
    <3>3. ASSUME NEW s \in SuccOf(q)[x] \intersect F, x \in w2[s], a2[s] # o
          PROVE  \E i \in 1 .. Len(m2[x]) : m2[x][i] = <<a2[s], o>>
      <4>1. x \in w[s] /\ s \in Block
        BY <1>2, <1>4, <2>7, <3>3
      <4>2. a2[s] = a[s]
        BY <2>4, <4>1
      <4> QED BY <2>3, <3>1, <3>3, <4>1, <4>2
    <3>4. \A i \in 1 .. Len(m2[x]) : CopyOf(q, F, c2, a2, w2, x, m2[x][i])
      BY <2>2, <3>2 DEF CopyOf
    <3> QED BY <2>2, <2>5, <3>3, <3>4 DEF CopiesDone
  <2> QED BY <2>6, <2>7
<1> QED
  BY <1>5, <1>6, <1>7

(* p hands version v to b: the version at its end.                         *)
Arrives(q, F, c, a, w, p, b, v) ==
    /\ From(q, w, p, b)
    /\ v = IF p = NULL THEN Base ELSE OutVer(q, F, c, a, p)

LEMMA Arrival ==
    ASSUME NEW q, NEW F, Ground(q, F), NEW c, NEW a, NEW m, NEW w, NEW n,
           CodeInv(q, F, c, a, m, w, n),
           NEW b \in Block, NEW p, NEW v, Arrives(q, F, c, a, w, p, b, v)
    PROVE  /\ Reachable(SuccOf(q), b)
           /\ b # Entry => p # NULL /\ v \in 1 .. n
           /\ p # NULL => b # Entry /\ OutVer(q, F, c, a, p) = v
           /\ b = Entry => v = Base /\ b \notin F
           /\ b \notin F => InVer(q, F, c, a, b) = v
           /\ v \in 0 .. n
<1>1. n \in Nat /\ Codes(q, c) /\ \A x \in Block : w[x] # {} => Done(q, F, c, a, n, x)
  BY DEF CodeInv
<1>2. SuccOf(q) \in Edges /\ Entry \notin F /\ Entry \in Block /\ \A x \in Block : Entry \notin SuccOf(q)[x]
  BY SourceFacts DEF Ground
<1>3. CASE p = NULL
  <2>1. b = Entry /\ v = Base
    BY <1>3, NAssumption DEF Arrives, From, Block, NULL
  <2> QED BY <1>1, <1>2, <1>3, <2>1, EntryReachable DEF InVer, Base
<1>4. CASE p # NULL
  <2>1. p \in Block /\ w[p] # {} /\ b \in SuccOf(q)[p] /\ v = OutVer(q, F, c, a, p)
    BY <1>4 DEF Arrives, From
  <2>2. Done(q, F, c, a, n, p) /\ b # Entry
    BY <1>1, <1>2, <2>1
  <2>3. Reachable(SuccOf(q), p)
    BY <2>2 DEF Done
  <2>4. Reachable(SuccOf(q), b)
    BY <1>2, <2>1, <2>3, SuccessorReachable
  <2>5. v \in 1 .. n
    BY <1>1, <2>1, <2>2, OutVerMade
  <2>6. b \notin F => InVer(q, F, c, a, b) = v
    BY <1>1, <2>1, <2>3, EdgeVersion
  <2> QED BY <1>1, <1>4, <2>1, <2>2, <2>4, <2>5, <2>6
<1> QED
  BY <1>3, <1>4

(* The first visit of a block renames it and goes on with the version at   *)
(* its end.                                                                *)
LEMMA FirstVisit ==
    ASSUME Ground(func, phi), CodeInv(func, phi, code, sarg, preamble, visitors, lastId),
           NEW b \in Block, visitors[b] = {}, NEW p, NEW v,
           Arrives(func, phi, code, sarg, visitors, p, b, v), Visit(b, p, v)
    PROVE  /\ CodeInv(func, phi, code', sarg', preamble', visitors', lastId')
           /\ lastId <= lastId' /\ vers' = OutVer(func, phi, code', sarg', b)
           /\ \A x \in Block : visitors[x] # {} =>
                  /\ OutVer(func, phi, code', sarg', x) = OutVer(func, phi, code, sarg, x)
                  /\ sarg'[x] = sarg[x]
<1> DEFINE joins == b \in phi
           in == IF joins THEN lastId + 1 ELSE v
           id == IF joins THEN lastId + 1 ELSE lastId
           L == Len(code[b])
<1>1. /\ lastId \in Nat /\ Codes(func, code) /\ sarg \in [Block -> Nat]
      /\ visitors \in [Block -> SUBSET (Block \union {NULL})]
      /\ \A x \in Block : visitors[x] = {} => Blank(code, sarg, x)
      /\ \A x \in Block : visitors[x] # {} => Done(func, phi, code, sarg, lastId, x)
      /\ \A x \in Block : \A y \in visitors[x] : From(func, visitors, y, x)
      /\ code \in [Block -> Seq(Op)]
  BY DEF CodeInv, Codes, Op
<1>2. sarg[b] = NULL /\ \A i \in 1 .. L : code[b][i].ver = Base
  BY <1>1 DEF Blank
<1>3. /\ Reachable(SuccOf(func), b) /\ v \in 0 .. lastId
      /\ b # Entry => p # NULL /\ v \in 1 .. lastId
      /\ p # NULL => b # Entry /\ OutVer(func, phi, code, sarg, p) = v
      /\ b = Entry => v = Base /\ b \notin phi
      /\ b \notin phi => InVer(func, phi, code, sarg, b) = v
  BY Arrival
<1>4. PhiTakesPart(b, v) <=> joins
  BY <1>1, <1>2, <1>3 DEF PhiTakesPart, Base, NULL
<1>5. /\ sarg' = (IF joins THEN [sarg EXCEPT ![b] = in] ELSE sarg)
      /\ preamble' = (IF joins /\ p # NULL THEN [preamble EXCEPT ![p] = Append(@, <<in, v>>)] ELSE preamble)
      /\ code' = [code EXCEPT ![b] = Renamed(code[b], in, id)]
      /\ vers' = VersionAfter(code[b], L, in, id)
      /\ lastId' = id + Cardinality({i \in DOMAIN code[b] : code[b][i].op = "def" /\ code[b][i].ver = Base})
      /\ visitors' = [visitors EXCEPT ![b] = @ \union {p}]
  BY <1>2, <1>4 DEF Visit, PhiId
<1>6. PICK ops : ops = code[b]
  OBVIOUS
<1>7. PICK i0, n0 : i0 = in /\ n0 = id
  OBVIOUS
<1>8. i0 \in Nat /\ n0 \in Nat /\ i0 <= n0 /\ lastId <= n0 /\ ops \in Seq(Op) /\ (joins => i0 = lastId + 1 /\ n0 = i0)
      /\ (~joins => i0 = v /\ n0 = lastId) /\ Len(ops) \in Nat
  BY <1>1, <1>3, <1>6, <1>7
<1>9. PICK r : r = Renamed(ops, i0, n0)
  OBVIOUS
<1>10. /\ r \in Seq(Op) /\ Len(r) = Len(ops)
       /\ \A i \in 1 .. Len(ops) : r[i].op = ops[i].op
       /\ \A n \in 0 .. Len(ops) :
                  VersionAfter(ops, n, i0, n0) =
                      IF DefsIn(r, n) = {} THEN i0 ELSE r[LastOf(DefsIn(r, n))].ver
       /\ {i \in DOMAIN ops : ops[i].op = "def" /\ ops[i].ver = Base} = DefsIn(r, Len(ops))
       /\ \A i \in 1 .. Len(ops) : ops[i].op = "def" =>
                  r[i].ver \in n0 + 1 .. n0 + Cardinality(DefsIn(r, Len(ops)))
       /\ \A i \in 1 .. Len(ops) : ops[i].op = "use" =>
                  r[i].ver = VersionAfter(ops, i - 1, i0, n0)
  BY <1>2, <1>6, <1>8, <1>9, RenamedBlank
<1>11. /\ code' = [code EXCEPT ![b] = r] /\ code'[b] = r
       /\ vers' = VersionAfter(ops, Len(ops), i0, n0)
       /\ lastId' = n0 + Cardinality(DefsIn(r, Len(ops)))
  BY <1>1, <1>5, <1>6, <1>7, <1>9, <1>10
<1>12. Cardinality(DefsIn(r, Len(ops))) \in Nat
  BY <1>8, DefsInFinite
<1>13. lastId' \in Nat /\ lastId <= lastId' /\ n0 <= lastId'
  BY <1>1, <1>8, <1>11, <1>12
<1>14. \A x \in Block : x # b => code'[x] = code[x] /\ sarg'[x] = sarg[x] /\ visitors'[x] = visitors[x]
  BY <1>1, <1>5, <1>11
<1>15. Codes(func, code')
  <2>1. code' \in [Block -> Seq(Op)]
    BY <1>1, <1>10, <1>11
  <2>2. \A x \in Block : Len(code'[x]) = Len(func.code[x])
    BY <1>1, <1>6, <1>10, <1>11, <1>14 DEF Codes
  <2>3. \A x \in Block : \A i \in 1 .. Len(code'[x]) : code'[x][i].op = func.code[x][i]
    BY <1>1, <1>6, <1>10, <1>11, <1>14 DEF Codes
  <2> QED BY <2>1, <2>2, <2>3 DEF Codes, Op
<1>16. sarg' \in [Block -> Nat] /\ (joins => sarg'[b] = i0) /\ (~joins => sarg' = sarg)
  BY <1>1, <1>5, <1>7, <1>8
<1>17. ASSUME NEW x \in Block, visitors[x] # {}
       PROVE  /\ InVer(func, phi, code', sarg', x) = InVer(func, phi, code, sarg, x)
              /\ OutVer(func, phi, code', sarg', x) = OutVer(func, phi, code, sarg, x)
              /\ Done(func, phi, code', sarg', lastId', x)
  <2>1. \A y \in Block : visitors[y] # {} => code'[y] = code[y] /\ sarg'[y] = sarg[y]
    BY <1>14
  <2> QED BY <1>1, <1>13, <1>17, <2>1, DoneStays
<1>18. InVer(func, phi, code', sarg', b) = i0
  <2>1. CASE joins
    BY <1>16, <2>1 DEF InVer
  <2>2. CASE ~joins /\ b = Entry
    BY <1>3, <1>8, <2>2 DEF InVer
  <2>3. CASE ~joins /\ b # Entry
    <3>1. p \in Block /\ visitors[p] # {} /\ b \in SuccOf(func)[p]
      BY <1>3, <2>3 DEF Arrives, From
    <3>2. Reachable(SuccOf(func), p)
      BY <1>1, <3>1 DEF Done
    <3>3. InVer(func, phi, code', sarg', b) = OutVer(func, phi, code', sarg', p)
      BY <1>15, <2>3, <3>1, <3>2, EdgeVersion
    <3> QED BY <1>3, <1>8, <1>17, <2>3, <3>1, <3>3
  <2> QED BY <2>1, <2>2, <2>3
<1>19. /\ \A n : DefsOf(code', b, n) = DefsIn(r, n)
       /\ \A n \in 0 .. Len(ops) : VerAt(func, phi, code', sarg', b, n) = VersionAfter(ops, n, i0, n0)
  <2>1. \A n : DefsOf(code', b, n) = DefsIn(r, n)
    BY <1>11 DEF DefsOf, DefsIn
  <2> QED BY <1>10, <1>11, <1>18, <2>1 DEF VerAt
<1>20. vers' = OutVer(func, phi, code', sarg', b)
  <2>1. Len(ops) \in 0 .. Len(ops) /\ Len(code'[b]) = Len(ops)
    BY <1>8, <1>10, <1>11
  <2>2. VerAt(func, phi, code', sarg', b, Len(ops)) = VersionAfter(ops, Len(ops), i0, n0)
    BY <1>19, <2>1
  <2> QED BY <1>11, <2>1, <2>2 DEF OutVer
<1>21. Done(func, phi, code', sarg', lastId', b)
  <2>1. b # Entry => i0 \in 1 .. lastId'
    BY <1>1, <1>3, <1>8, <1>13
  <2>2. \A i \in 1 .. Len(ops) : r[i].op = "use" => r[i].ver = VerAt(func, phi, code', sarg', b, i - 1)
    <3> TAKE i \in 1 .. Len(ops)
    <3>1. i - 1 \in 0 .. Len(ops)
      BY <1>8
    <3> QED BY <1>10, <1>19, <3>1
  <2>3. ASSUME NEW i \in 1 .. Len(ops) PROVE r[i].ver \in 1 .. lastId'
    <3>1. ops[i] \in Op
      BY <1>8
    <3>2. CASE ops[i].op = "def"
      BY <1>8, <1>10, <1>11, <1>12, <3>2
    <3>3. CASE ops[i].op = "use"
      <4>1. i - 1 \in 0 .. Len(ops)
        BY <1>8
      <4>2. r[i].ver = IF DefsIn(r, i - 1) = {} THEN i0 ELSE r[LastOf(DefsIn(r, i - 1))].ver
        BY <1>10, <3>3, <4>1
      <4>3. CASE DefsIn(r, i - 1) # {}
        <5>1. PICK k : k = LastOf(DefsIn(r, i - 1))
          OBVIOUS
        <5>2. DefsIn(r, i - 1) \subseteq 1 .. i - 1
          BY DEF DefsIn
        <5>3. k \in DefsIn(r, i - 1)
          BY <4>1, <4>3, <5>1, <5>2, LastOfIs
        <5>4. k \in 1 .. Len(ops) /\ ops[k].op = "def"
          BY <1>8, <1>10, <5>3 DEF DefsIn
        <5>5. r[k].ver \in n0 + 1 .. n0 + Cardinality(DefsIn(r, Len(ops)))
          BY <1>10, <5>4
        <5> QED BY <1>8, <1>11, <1>12, <4>2, <4>3, <5>1, <5>5
      <4>4. CASE DefsIn(r, i - 1) = {}
        <5>1. b # Entry
          <6> SUFFICES ASSUME b = Entry PROVE FALSE
            OBVIOUS
          <6>1. func.code[Entry][1] = "def" /\ Len(func.code[Entry]) >= 1
            BY GivenParts DEF Ground
          <6>2. ops[1].op = "def" /\ 1 \in 1 .. Len(ops) /\ i # 1
            BY <1>1, <1>6, <3>3, <6>1 DEF Codes
          <6>3. 1 \in DefsIn(r, i - 1)
            BY <1>8, <1>10, <6>2 DEF DefsIn
          <6> QED BY <4>4, <6>3
        <5> QED BY <2>1, <4>2, <4>4, <5>1
      <4> QED BY <4>3, <4>4
    <3> QED BY <3>1, <3>2, <3>3 DEF Op
  <2>4. joins => sarg'[b] \in 1 .. lastId'
    BY <1>1, <1>8, <1>13, <1>16
  <2> QED BY <1>3, <1>10, <1>11, <1>18, <2>1, <2>2, <2>3, <2>4 DEF Done
<1>22. /\ preamble' \in [Block -> Seq(Nat \X Nat)]
       /\ \A x \in Block : CopiesDone(func, phi, code', sarg', preamble', visitors', x)
  <2>1. preamble' = IF b \in phi /\ p # NULL /\ sarg'[b] # OutVer(func, phi, code, sarg, p)
                    THEN [preamble EXCEPT ![p] = Append(@, <<sarg'[b], OutVer(func, phi, code, sarg, p)>>)]
                    ELSE preamble
    <3>1. CASE joins /\ p # NULL
      <4>1. in = sarg'[b] /\ v = OutVer(func, phi, code, sarg, p) /\ sarg'[b] # v
        BY <1>1, <1>3, <1>7, <1>8, <1>16, <3>1
      <4> QED BY <1>5, <3>1, <4>1
    <3>2. CASE ~(joins /\ p # NULL)
      BY <1>5, <3>2
    <3> QED BY <3>1, <3>2
  <2>2. From(func, visitors, p, b) /\ sarg'[b] \in Nat
    BY <1>16 DEF Arrives
  <2>3. p # NULL => OutVer(func, phi, code, sarg, p) \in Nat
    BY <1>1, <1>3
  <2>4. \A x \in Block : visitors[x] # {} => sarg'[x] = sarg[x]
    BY <1>14
  <2>5. visitors' = [visitors EXCEPT ![b] = @ \union {p}]
    BY <1>5
  <2>6. \A x \in Block : visitors[x] # {} =>
            sarg'[x] = sarg[x] /\ OutVer(func, phi, code', sarg', x) = OutVer(func, phi, code, sarg, x)
    BY <1>17, <2>4
  <2>7. Visited(func, phi, code, sarg, preamble, visitors, lastId, b, p, code', sarg', preamble', visitors')
    BY <2>1, <2>2, <2>3, <2>5, <2>6 DEF Visited
  <2> QED BY <2>7, CopiesAfterVisit
<1>23. /\ visitors' \in [Block -> SUBSET (Block \union {NULL})] /\ visitors'[b] # {}
       /\ \A x \in Block : \A y \in visitors'[x] : From(func, visitors', y, x)
       /\ \A x \in Block : visitors[x] \subseteq visitors'[x]
  <2>1. p \in Block \union {NULL} /\ From(func, visitors, p, b)
    BY DEF Arrives, From
  <2>2. visitors'[b] = visitors[b] \union {p}
    BY <1>1, <1>5
  <2>3. \A x \in Block : visitors[x] \subseteq visitors'[x]
    BY <1>14, <2>2
  <2>4. \A x \in Block : \A y \in visitors'[x] : From(func, visitors, y, x)
    BY <1>1, <1>14, <2>1, <2>2
  <2>5. \A x \in Block : \A y : From(func, visitors, y, x) => From(func, visitors', y, x)
    BY <2>3 DEF From
  <2>6. visitors' \in [Block -> SUBSET (Block \union {NULL})]
    BY <1>1, <1>5, <2>1
  <2>7. visitors'[b] # {}
    BY <2>2, Zenon
  <2> QED BY <2>3, <2>4, <2>5, <2>6, <2>7
<1>24. \A x \in Block : visitors'[x] = {} => Blank(code', sarg', x)
  <2>1. \A x \in Block : visitors'[x] = {} => x # b /\ visitors[x] = {}
    BY <1>14, <1>23
  <2> TAKE x \in Block
  <2>2. visitors'[x] = {} => code'[x] = code[x] /\ sarg'[x] = sarg[x] /\ Blank(code, sarg, x)
    BY <1>1, <1>14, <2>1
  <2> QED BY <2>2 DEF Blank
<1>25. \A x \in Block : visitors'[x] # {} => Done(func, phi, code', sarg', lastId', x)
  BY <1>14, <1>17, <1>21
<1>26. CodeInv(func, phi, code', sarg', preamble', visitors', lastId')
  BY <1>13, <1>15, <1>16, <1>22, <1>23, <1>24, <1>25 DEF CodeInv
<1> QED
  BY <1>13, <1>14, <1>17, <1>20, <1>26

(* A later visit renames nothing and goes on with the version at the       *)
(* block's start.                                                          *)
LEMMA LaterVisit ==
    ASSUME Ground(func, phi), CodeInv(func, phi, code, sarg, preamble, visitors, lastId),
           NEW b \in Block, visitors[b] # {}, NEW p, NEW v,
           Arrives(func, phi, code, sarg, visitors, p, b, v), Visit(b, p, v)
    PROVE  /\ CodeInv(func, phi, code', sarg', preamble', visitors', lastId')
           /\ code' = code /\ sarg' = sarg /\ lastId' = lastId
           /\ b # Entry => vers' = InVer(func, phi, code, sarg, b)
           /\ b = Entry => vers' = Base
<1>1. /\ lastId \in Nat /\ Codes(func, code) /\ sarg \in [Block -> Nat]
      /\ visitors \in [Block -> SUBSET (Block \union {NULL})]
      /\ preamble \in [Block -> Seq(Nat \X Nat)]
      /\ \A x \in Block : visitors[x] = {} => Blank(code, sarg, x)
      /\ \A x \in Block : visitors[x] # {} => Done(func, phi, code, sarg, lastId, x)
      /\ \A x \in Block : \A y \in visitors[x] : From(func, visitors, y, x)
      /\ code \in [Block -> Seq(Op)]
  BY DEF CodeInv, Codes, Op
<1>2. /\ v \in 0 .. lastId
      /\ b # Entry => p # NULL /\ v \in 1 .. lastId
      /\ p # NULL => b # Entry /\ OutVer(func, phi, code, sarg, p) = v
      /\ b = Entry => v = Base /\ b \notin phi
      /\ b \notin phi => InVer(func, phi, code, sarg, b) = v
  BY Arrival
<1>3. /\ b \in phi => sarg[b] \in 1 .. lastId
      /\ \A i \in 1 .. Len(code[b]) : code[b][i].ver \in 1 .. lastId
  BY <1>1 DEF Done
<1>4. PICK i0 : i0 = IF b \in phi THEN sarg[b] ELSE v
  OBVIOUS
<1>5. PhiTakesPart(b, v) <=> (b \in phi /\ v # sarg[b])
  BY <1>2 DEF PhiTakesPart, Base
<1>6. (IF PhiTakesPart(b, v) THEN PhiId(b, v) ELSE v) = i0
  BY <1>3, <1>4, <1>5 DEF PhiId, NULL
<1>7. (IF PhiTakesPart(b, v) /\ sarg[b] = NULL THEN lastId + 1 ELSE lastId) = lastId
  BY <1>3, <1>5 DEF NULL
<1>8. /\ sarg' = (IF PhiTakesPart(b, v) THEN [sarg EXCEPT ![b] = i0] ELSE sarg)
      /\ preamble' = (IF PhiTakesPart(b, v) /\ p # NULL
                      THEN [preamble EXCEPT ![p] = Append(@, <<i0, v>>)] ELSE preamble)
      /\ code' = [code EXCEPT ![b] = Renamed(code[b], i0, lastId)]
      /\ vers' = VersionAfter(code[b], Len(code[b]), i0, lastId)
      /\ lastId' = lastId + Cardinality({i \in DOMAIN code[b] :
                                 code[b][i].op = "def" /\ code[b][i].ver = Base})
      /\ visitors' = [visitors EXCEPT ![b] = @ \union {p}]
  BY <1>6, <1>7 DEF Visit
<1>9. /\ Renamed(code[b], i0, lastId) = code[b]
      /\ VersionAfter(code[b], Len(code[b]), i0, lastId) = i0
      /\ Cardinality({i \in DOMAIN code[b] : code[b][i].op = "def" /\ code[b][i].ver = Base}) = 0
  <2>1. code[b] \in Seq(Op) /\ \A i \in 1 .. Len(code[b]) : code[b][i].ver # Base
    BY <1>1, <1>3 DEF Base
  <2> QED BY <2>1, RenamedAgain
<1>10. code' = code /\ lastId' = lastId /\ vers' = i0
  BY <1>1, <1>8, <1>9
<1>11. sarg' = sarg
  BY <1>1, <1>4, <1>5, <1>8
<1>12. /\ preamble' \in [Block -> Seq(Nat \X Nat)]
       /\ \A x \in Block : CopiesDone(func, phi, code', sarg', preamble', visitors', x)
  <2>1. preamble' = IF b \in phi /\ p # NULL /\ sarg'[b] # OutVer(func, phi, code, sarg, p)
                    THEN [preamble EXCEPT ![p] = Append(@, <<sarg'[b], OutVer(func, phi, code, sarg, p)>>)]
                    ELSE preamble
    <3>1. CASE b \in phi /\ p # NULL /\ v # sarg[b]
      BY <1>2, <1>4, <1>5, <1>8, <1>11, <3>1
    <3>2. CASE ~(b \in phi /\ p # NULL /\ v # sarg[b])
      BY <1>2, <1>5, <1>8, <1>11, <3>2
    <3> QED BY <3>1, <3>2
  <2>2. From(func, visitors, p, b) /\ sarg'[b] \in Nat
    BY <1>1, <1>11 DEF Arrives
  <2>3. p # NULL => OutVer(func, phi, code, sarg, p) \in Nat
    BY <1>1, <1>2
  <2>4. visitors' = [visitors EXCEPT ![b] = @ \union {p}]
    BY <1>8
  <2>5. \A x \in Block : visitors[x] # {} =>
            sarg'[x] = sarg[x] /\ OutVer(func, phi, code', sarg', x) = OutVer(func, phi, code, sarg, x)
    BY <1>10, <1>11
  <2>6. Visited(func, phi, code, sarg, preamble, visitors, lastId, b, p, code', sarg', preamble', visitors')
    BY <2>1, <2>2, <2>3, <2>4, <2>5 DEF Visited
  <2> QED BY <2>6, CopiesAfterVisit
<1>13. /\ visitors' \in [Block -> SUBSET (Block \union {NULL})]
       /\ \A x \in Block : \A y \in visitors'[x] : From(func, visitors', y, x)
       /\ \A x \in Block : visitors[x] \subseteq visitors'[x]
  <2>1. p \in Block \union {NULL} /\ From(func, visitors, p, b)
    BY DEF Arrives, From
  <2>2. \A x \in Block : visitors'[x] = IF x = b THEN visitors[x] \union {p} ELSE visitors[x]
    BY <1>1, <1>8
  <2>3. \A x \in Block : visitors[x] \subseteq visitors'[x]
    BY <2>2
  <2>4. \A x \in Block : \A y \in visitors'[x] : From(func, visitors, y, x)
    BY <1>1, <2>1, <2>2
  <2>5. \A x \in Block : \A y : From(func, visitors, y, x) => From(func, visitors', y, x)
    BY <2>3 DEF From
  <2>6. visitors' \in [Block -> SUBSET (Block \union {NULL})]
    BY <1>1, <1>8, <2>1
  <2> QED BY <2>3, <2>4, <2>5, <2>6
<1>14. \A x \in Block : (visitors'[x] = {} => visitors[x] = {}) /\ (visitors'[x] # {} => visitors[x] # {})
  BY <1>1, <1>8, <1>13
<1>15. CodeInv(func, phi, code', sarg', preamble', visitors', lastId')
  BY <1>1, <1>10, <1>11, <1>12, <1>13, <1>14 DEF CodeInv
<1> QED
  BY <1>2, <1>4, <1>10, <1>11, <1>15 DEF InVer
-----------------------------------------------------------------------------
(* Part 5.  The traversal: s the activations, v the current version.       *)

ArmsOf(q, b) == IF TwoArms(q, b) THEN <<q.jmp[b], q.l[b]>>
                ELSE IF q.jmp[b] # NULL THEN <<q.jmp[b]>>
                ELSE IF q.l[b] # NULL THEN <<q.l[b]>> ELSE <<>>
(* What may be left of the arms of b.                                      *)
Left(q, b, t) == t = ArmsOf(q, b) \/ t = <<>> \/ (TwoArms(q, b) /\ t = <<q.l[b]>>)

LEMMA ArmsParts ==
    ASSUME NEW q, Given(q), NEW b \in Block
    PROVE  /\ ArmsOf(q, b) \in Seq(Block)
           /\ TwoArms(q, b) => /\ q.l[b] \in Block /\ q.jmp[b] \in Block
                               /\ ArmsOf(q, b) = <<q.jmp[b], q.l[b]>>
           /\ \A x \in SuccOf(q)[b] : \E j \in 1 .. Len(ArmsOf(q, b)) : ArmsOf(q, b)[j] = x
<1>1. /\ q.l[b] \in Block \union {NULL} /\ q.jmp[b] \in Block \union {NULL}
      /\ SuccOf(q)[b] = {q.l[b], q.jmp[b]} \ {NULL}
  BY GivenParts DEF Given
<1>2. CASE TwoArms(q, b)
  <2>1. ArmsOf(q, b) = <<q.jmp[b], q.l[b]>> /\ q.l[b] \in Block /\ q.jmp[b] \in Block
    BY <1>1, <1>2 DEF ArmsOf, TwoArms
  <2> QED BY <1>1, <2>1
<1>3. CASE ~TwoArms(q, b) /\ q.jmp[b] # NULL
  <2>1. ArmsOf(q, b) = <<q.jmp[b]>> /\ q.jmp[b] \in Block
    BY <1>1, <1>3 DEF ArmsOf
  <2>2. SuccOf(q)[b] = {q.jmp[b]}
    BY <1>1, <1>3 DEF TwoArms
  <2> QED BY <1>3, <2>1, <2>2
<1>4. CASE ~TwoArms(q, b) /\ q.jmp[b] = NULL /\ q.l[b] # NULL
  <2>1. ArmsOf(q, b) = <<q.l[b]>> /\ q.l[b] \in Block
    BY <1>1, <1>4 DEF ArmsOf
  <2>2. SuccOf(q)[b] = {q.l[b]}
    BY <1>1, <1>4
  <2> QED BY <1>4, <2>1, <2>2
<1>5. CASE ~TwoArms(q, b) /\ q.jmp[b] = NULL /\ q.l[b] = NULL
  <2>1. ArmsOf(q, b) = <<>> /\ SuccOf(q)[b] = {}
    BY <1>1, <1>5 DEF ArmsOf
  <2> QED BY <1>5, <2>1
<1> QED
  BY <1>2, <1>3, <1>4, <1>5

(* u is t with one arm taken off.                                          *)
OneLess(q, b, t, u) ==
    /\ t \in Seq(Block) /\ u \in Seq(Block) /\ Left(q, b, u)
    /\ Head(t) \in SuccOf(q)[b] /\ Head(t) = t[1] /\ 1 \in 1 .. Len(t)
    /\ u # <<>> => TwoArms(q, b) /\ u = <<q.l[b]>> /\ Head(t) = q.jmp[b]
    /\ u # <<>> => Len(u) < Len(ArmsOf(q, b))
    /\ \A j \in 1 .. Len(t) : t[j] = Head(t) \/ \E k \in 1 .. Len(u) : t[j] = u[k]
    /\ \A k \in 1 .. Len(u) : \E j \in 1 .. Len(t) : u[k] = t[j]

LEMMA LeftShrinks ==
    ASSUME NEW q, Given(q), NEW b \in Block, NEW t, Left(q, b, t), t # <<>>,
           NEW u, u = Tail(t)
    PROVE  OneLess(q, b, t, u)
<1>1. /\ q.l[b] \in Block \union {NULL} /\ q.jmp[b] \in Block \union {NULL}
      /\ SuccOf(q)[b] = {q.l[b], q.jmp[b]} \ {NULL}
  BY GivenParts DEF Given
<1>2. CASE TwoArms(q, b) /\ t = ArmsOf(q, b)
  <2>1. PICK x \in Block, y \in Block : x = q.jmp[b] /\ y = q.l[b] /\ x # NULL /\ y # NULL
    BY <1>1, <1>2 DEF TwoArms
  <2>2. t = <<x, y>> /\ ArmsOf(q, b) = <<x, y>>
    BY <1>2, <2>1 DEF ArmsOf
  <2>3. Head(t) = x /\ u = <<y>> /\ Len(t) = 2 /\ Len(u) = 1 /\ t[1] = x /\ t[2] = y
        /\ u[1] = y /\ t \in Seq(Block) /\ u \in Seq(Block) /\ Len(ArmsOf(q, b)) = 2
    BY <2>2
  <2>4. /\ \A j \in 1 .. Len(t) : t[j] = Head(t) \/ \E k \in 1 .. Len(u) : t[j] = u[k]
        /\ \A k \in 1 .. Len(u) : \E j \in 1 .. Len(t) : u[k] = t[j]
    <3>1. \A j \in 1 .. Len(t) : j = 1 \/ j = 2
      BY <2>3
    <3>2. \A k \in 1 .. Len(u) : k = 1 /\ 2 \in 1 .. Len(t) /\ u[k] = t[2]
      BY <2>3
    <3>3. 1 \in 1 .. Len(u)
      BY <2>3
    <3> QED BY <2>3, <3>1, <3>2, <3>3
  <2>5. Left(q, b, u) /\ u = <<q.l[b]>> /\ Head(t) = q.jmp[b]
    BY <1>2, <2>1, <2>3 DEF Left
  <2>6. Head(t) \in SuccOf(q)[b]
    BY <1>1, <2>1, <2>3
  <2>7. 1 \in 1 .. Len(t) /\ Head(t) = t[1] /\ Len(u) < Len(ArmsOf(q, b))
    BY <2>3
  <2> QED BY <1>2, <2>3, <2>4, <2>5, <2>6, <2>7 DEF OneLess
<1>3. CASE t # ArmsOf(q, b) \/ ~TwoArms(q, b)
  <2>1. PICK x \in Block : t = <<x>> /\ x \in SuccOf(q)[b]
    <3>1. CASE t # ArmsOf(q, b)
      BY <1>1, <3>1 DEF Left, TwoArms
    <3>2. CASE t = ArmsOf(q, b)
      BY <1>1, <1>3, <3>2 DEF ArmsOf, TwoArms
    <3> QED BY <3>1, <3>2
  <2>2. Head(t) = x /\ u = <<>> /\ Len(t) = 1 /\ t[1] = x /\ t \in Seq(Block) /\ u \in Seq(Block)
        /\ Len(u) = 0
    BY <2>1
  <2>3. \A j \in 1 .. Len(t) : t[j] = Head(t)
    BY <2>2
  <2>4. \A k \in 1 .. Len(u) : FALSE
    BY <2>2
  <2>5. Left(q, b, u) /\ 1 \in 1 .. Len(t)
    BY <2>2 DEF Left
  <2> QED BY <2>1, <2>2, <2>3, <2>4, <2>5 DEF OneLess
<1> QED
  BY <1>2, <1>3

Act == [block : Block, todo : Seq(Block), saved : Nat]
Acts(q, w, n, s) ==
    /\ s \in Seq(Act)
    /\ \A k \in 1 .. Len(s) : /\ w[s[k].block] # {} /\ s[k].saved \in 0 .. n
                              /\ Left(q, s[k].block, s[k].todo)

(* An activation with an arm left, below another one, is in its jmp arm,   *)
(* and this led to the other one.                                          *)
Towards(q, r, b) ==
    r.todo # <<>> => /\ TwoArms(q, r.block) /\ r.todo = <<q.l[r.block]>>
                     /\ Leads(q, q.jmp[r.block], b)
Path(q, s) == \A i, j \in 1 .. Len(s) : i < j => Towards(q, s[i], s[j].block)

(* What is saved for the arms left is the version at the end of the block, *)
(* or they have all been visited from it.                                  *)
Keeps(q, F, c, a, w, r) ==
    r.saved = OutVer(q, F, c, a, r.block) \/ \A j \in 1 .. Len(r.todo) : r.block \in w[r.todo[j]]
Handed(q, F, c, a, w, s) == \A k \in 1 .. Len(s) : Keeps(q, F, c, a, w, s[k])

(* Every edge from a visited block has been followed or is still to come.  *)
InLeft(s, b, x) ==
    \E k \in 1 .. Len(s) : s[k].block = b /\ \E j \in 1 .. Len(s[k].todo) : s[k].todo[j] = x
Covered(q, w, w2, s) ==
    \A b \in Block : w[b] # {} => \A x \in SuccOf(q)[b] : b \in w2[x] \/ InLeft(s, b, x)

(* A block goes on to its first arm with what it has saved.                *)
Ready(q, s, v) ==
    s # <<>> /\ s[Len(s)].todo # <<>> /\ Len(s[Len(s)].todo) = Len(ArmsOf(q, s[Len(s)].block))
    => v = s[Len(s)].saved

StackInv(q, F, c, a, w, n, s, v) ==
    /\ Acts(q, w, n, s) /\ Path(q, s) /\ Handed(q, F, c, a, w, s)
    /\ Covered(q, w, w, s) /\ Ready(q, s, v)

(* The stack without its last activation, and with another one instead.    *)
Rest(s) == SubSeq(s, 1, Len(s) - 1)
Instead(s, t) == Append(Rest(s), t)

LEMMA Popped ==
    ASSUME NEW s \in Seq(Act), s # <<>>
    PROVE  /\ Rest(s) \in Seq(Act) /\ Len(s) \in Nat /\ Len(s) >= 1 /\ Len(Rest(s)) = Len(s) - 1
           /\ \A i \in 1 .. Len(Rest(s)) : Rest(s)[i] = s[i] /\ i \in 1 .. Len(s) /\ i < Len(s)
<1>1. Len(s) \in Nat /\ Len(s) # 0
  BY EmptySeq
<1>2. PICK m \in Int : m = Len(s) - 1
  BY <1>1
<1>3. \A i \in 1 .. m : s[i] \in Act /\ i \in 1 .. Len(s) /\ i < Len(s)
  BY <1>1, <1>2
<1>4. /\ Rest(s) \in Seq(Act) /\ Len(Rest(s)) = IF 1 <= m THEN m - 1 + 1 ELSE 0
      /\ \A i \in 1 .. m - 1 + 1 : Rest(s)[i] = s[1 + i - 1]
  <2>1. Rest(s) = SubSeq(s, 1, m)
    BY <1>2 DEF Rest
  <2> QED BY <1>3, <2>1, SubSeqProperties
<1>5. Len(Rest(s)) = m /\ \A i \in 1 .. m : Rest(s)[i] = s[i]
  BY <1>1, <1>2, <1>4
<1> QED
  BY <1>1, <1>2, <1>3, <1>4, <1>5

LEMMA Replaced ==
    ASSUME NEW s \in Seq(Act), s # <<>>, NEW t \in Act
    PROVE  /\ Instead(s, t) \in Seq(Act) /\ Len(Instead(s, t)) = Len(s)
           /\ Len(s) \in Nat /\ Len(s) >= 1 /\ Instead(s, t) # <<>>
           /\ Instead(s, t)[Len(s)] = t
           /\ \A i \in 1 .. Len(s) : i < Len(s) => Instead(s, t)[i] = s[i]
<1>1. PICK B, R : B = Rest(s) /\ R = Instead(s, t)
  OBVIOUS
<1>2. /\ B \in Seq(Act) /\ Len(s) \in Nat /\ Len(s) >= 1 /\ Len(B) = Len(s) - 1
      /\ \A i \in 1 .. Len(B) : B[i] = s[i]
  BY <1>1, Popped
<1>3. R = Append(B, t)
  BY <1>1 DEF Instead
<1>4. R \in Seq(Act) /\ Len(R) = Len(B) + 1 /\ R[Len(B) + 1] = t /\ \A i \in 1 .. Len(B) : R[i] = B[i]
  BY <1>2, <1>3, AppendProperties
<1>5. Len(R) = Len(s) /\ R[Len(s)] = t
  BY <1>2, <1>4
<1>6. \A i \in 1 .. Len(s) : i < Len(s) => R[i] = s[i]
  BY <1>2, <1>4
<1>7. R # <<>>
  BY <1>2, <1>4, <1>5, EmptySeq
<1> QED
  BY <1>1, <1>2, <1>4, <1>5, <1>6, <1>7

(* An arm already visited from its block is left out.                      *)
LEMMA SkipKeeps ==
    ASSUME NEW q, NEW F, Ground(q, F), NEW c, NEW a, NEW w, NEW n \in Nat, NEW s, NEW v,
           StackInv(q, F, c, a, w, n, s, v),
           NEW w2, \A x \in Block : w[x] \subseteq w2[x],
           s # <<>>, NEW r, r = s[Len(s)], r.todo # <<>>, r.block \in w2[Head(r.todo)],
           NEW t \in Act, t.block = r.block, t.saved = r.saved, t.todo = Tail(r.todo),
           NEW R, R = Instead(s, t)
    PROVE  /\ Acts(q, w, n, R) /\ Path(q, R) /\ Handed(q, F, c, a, w, R)
           /\ Covered(q, w, w2, R) /\ \A u : Ready(q, R, u)
           /\ \A k \in 1 .. Len(R) : Towards(q, R[k], Head(r.todo))
           /\ R # <<>> /\ Head(r.todo) \in SuccOf(q)[r.block]
<1> DEFINE L == Len(s)
<1>1. Given(q) /\ s \in Seq(Act) /\ L \in Nat /\ L >= 1 /\ L \in 1 .. L /\ r \in Act
  <2>1. Given(q) /\ s \in Seq(Act)
    BY DEF Ground, StackInv, Acts
  <2>2. L \in Nat /\ L # 0
    BY <2>1, EmptySeq
  <2> QED BY <2>1, <2>2
<1>3. Left(q, r.block, r.todo) /\ w[r.block] # {} /\ r.saved \in 0 .. n /\ r.block \in Block
  BY <1>1 DEF StackInv, Acts, Act
<1>4. PICK h, tail : h = r.todo /\ tail = Tail(h)
  OBVIOUS
<1>5. /\ h \in Seq(Block) /\ tail \in Seq(Block) /\ Left(q, r.block, tail)
      /\ Head(h) \in SuccOf(q)[r.block] /\ Head(h) = h[1] /\ 1 \in 1 .. Len(h)
      /\ tail # <<>> => TwoArms(q, r.block) /\ tail = <<q.l[r.block]>> /\ Head(h) = q.jmp[r.block]
      /\ tail # <<>> => Len(tail) < Len(ArmsOf(q, r.block))
      /\ \A j \in 1 .. Len(h) : h[j] = Head(h) \/ \E k \in 1 .. Len(tail) : h[j] = tail[k]
      /\ \A k \in 1 .. Len(tail) : \E j \in 1 .. Len(h) : tail[k] = h[j]
  <2>1. Left(q, r.block, h) /\ h # <<>> /\ r.block \in Block /\ tail = Tail(h)
    BY <1>3, <1>4
  <2>2. OneLess(q, r.block, h, tail)
    BY <1>1, <2>1, LeftShrinks
  <2> QED BY <2>2 DEF OneLess
<1>6. t \in Act /\ t.block = r.block /\ t.saved = r.saved /\ t.todo = tail
  BY <1>4
<1>7. /\ R \in Seq(Act) /\ Len(R) = L /\ R # <<>>
      /\ R[L] = t /\ \A i \in 1 .. L : i < L => R[i] = s[i]
  BY <1>1, <1>6, Replaced
<1>8. \A i \in 1 .. L : R[i].block = s[i].block /\ R[i].saved = s[i].saved
                        /\ (i < L \/ i = L) /\ (i = L => R[i].todo = tail /\ s[i].todo = h)
  BY <1>1, <1>4, <1>6, <1>7
<1>9. Acts(q, w, n, R)
  <2>1. ASSUME NEW k \in 1 .. L
        PROVE  w[R[k].block] # {} /\ R[k].saved \in 0 .. n /\ Left(q, R[k].block, R[k].todo)
    <3>1. CASE k < L
      BY <1>7, <3>1 DEF StackInv, Acts
    <3>2. CASE k = L
      BY <1>3, <1>5, <1>6, <1>7, <3>2
    <3> QED BY <1>8, <3>1, <3>2
  <2> QED BY <1>7, <2>1 DEF Acts
<1>10. Path(q, R)
  <2> SUFFICES ASSUME NEW i \in 1 .. L, NEW j \in 1 .. L, i < j PROVE Towards(q, R[i], R[j].block)
    BY <1>7 DEF Path
  <2>1. i < L /\ R[i] = s[i] /\ R[j].block = s[j].block
    BY <1>1, <1>7, <1>8
  <2> QED BY <2>1 DEF StackInv, Path
<1>11. Handed(q, F, c, a, w, R)
  <2> SUFFICES ASSUME NEW k \in 1 .. L PROVE Keeps(q, F, c, a, w, R[k])
    BY <1>7 DEF Handed
  <2>1. Keeps(q, F, c, a, w, s[k])
    BY DEF StackInv, Handed
  <2>2. CASE k < L
    BY <1>7, <2>1, <2>2
  <2>3. CASE k = L
    <3>1. R[k] = t /\ s[k] = r
      BY <1>7, <2>3
    <3>2. r.saved = OutVer(q, F, c, a, r.block) \/ \A j \in 1 .. Len(h) : r.block \in w[h[j]]
      BY <1>4, <2>1, <3>1 DEF Keeps
    <3>3. t.saved = OutVer(q, F, c, a, t.block) \/ \A j \in 1 .. Len(t.todo) : t.block \in w[t.todo[j]]
      BY <1>5, <1>6, <3>2
    <3> QED BY <3>1, <3>3 DEF Keeps
  <2> QED BY <1>8, <2>2, <2>3
<1>12. Covered(q, w, w2, R)
  <2> SUFFICES ASSUME NEW b \in Block, w[b] # {}, NEW x \in SuccOf(q)[b], b \notin w2[x]
               PROVE  InLeft(R, b, x)
    BY DEF Covered
  <2>1. x \in Block
    BY DEF Ground, Edges
  <2>2. InLeft(s, b, x)
    BY <2>1 DEF StackInv, Covered
  <2>3. PICK k \in 1 .. L : s[k].block = b /\ \E j \in 1 .. Len(s[k].todo) : s[k].todo[j] = x
    BY <2>2 DEF InLeft
  <2>4. \E j \in 1 .. Len(R[k].todo) : R[k].todo[j] = x
    <3>1. CASE k < L
      BY <1>7, <2>3, <3>1
    <3>2. CASE k = L
      <4>1. b = r.block /\ x # Head(h)
        BY <1>4, <2>3, <3>2
      <4>2. PICK j \in 1 .. Len(h) : h[j] = x
        BY <1>4, <2>3, <3>2
      <4>3. \E i \in 1 .. Len(tail) : tail[i] = x
        BY <1>5, <4>1, <4>2
      <4>4. R[k].todo = tail
        BY <1>6, <1>7, <3>2
      <4> QED BY <4>3, <4>4
    <3> QED BY <1>8, <3>1, <3>2
  <2> QED BY <1>7, <1>8, <2>3, <2>4 DEF InLeft
<1>13. ASSUME NEW u PROVE Ready(q, R, u)
  <2>1. tail # <<>> => Len(tail) # Len(ArmsOf(q, r.block))
    <3>1. Len(tail) \in Nat
      BY <1>5
    <3> QED BY <1>5, <3>1
  <2> QED BY <1>6, <1>7, <2>1 DEF Ready
<1>14. ASSUME NEW k \in 1 .. L PROVE Towards(q, R[k], Head(h))
  <2>1. CASE k < L
    <3>1. Towards(q, R[k], r.block)
      BY <1>1, <1>7, <2>1 DEF StackInv, Path
    <3>2. Leads(q, q.jmp[R[k].block], r.block) => Leads(q, q.jmp[R[k].block], Head(h))
      BY <1>3, <1>5 DEF Leads
    <3> QED BY <3>1, <3>2 DEF Towards
  <2>2. CASE k = L
    <3>1. Leads(q, Head(h), Head(h))
      BY DEF Leads
    <3> QED BY <1>5, <1>6, <1>7, <2>2, <3>1 DEF Towards
  <2> QED BY <1>8, <2>1, <2>2
<1> QED
  BY <1>4, <1>5, <1>7, <1>9, <1>10, <1>11, <1>12, <1>13, <1>14

(* An activation without arms ends.                                        *)
LEMMA ReturnKeeps ==
    ASSUME NEW q, NEW F, Ground(q, F), NEW c, NEW a, NEW w, NEW n \in Nat, NEW s, NEW v,
           StackInv(q, F, c, a, w, n, s, v),
           s # <<>>, s[Len(s)].todo = <<>>,
           NEW B, B = Rest(s)
    PROVE  \A u : StackInv(q, F, c, a, w, n, B, u)
<1> DEFINE L == Len(s)
<1>1. s \in Seq(Act)
  BY DEF StackInv, Acts
<1>2. /\ B \in Seq(Act) /\ L \in Nat /\ L >= 1 /\ Len(B) = L - 1
      /\ \A i \in 1 .. Len(B) : B[i] = s[i] /\ i \in 1 .. L /\ i < L
  BY <1>1, Popped
<1>3. L \in 1 .. L
  BY <1>2
<1>4. Acts(q, w, n, B)
  BY <1>2 DEF StackInv, Acts
<1>5. Path(q, B)
  BY <1>2 DEF StackInv, Path
<1>6. Handed(q, F, c, a, w, B)
  BY <1>2 DEF StackInv, Handed
<1>7. Covered(q, w, w, B)
  <2> SUFFICES ASSUME NEW b \in Block, w[b] # {}, NEW x \in SuccOf(q)[b], b \notin w[x]
               PROVE  InLeft(B, b, x)
    BY DEF Covered
  <2>1. InLeft(s, b, x)
    BY DEF StackInv, Covered
  <2>2. PICK k \in 1 .. L : s[k].block = b /\ \E j \in 1 .. Len(s[k].todo) : s[k].todo[j] = x
    BY <2>1 DEF InLeft
  <2>3. k # L
    <3>1. Len(<<>>) = 0
      OBVIOUS
    <3> QED BY <2>2, <3>1
  <2>4. k \in 1 .. Len(B) /\ B[k] = s[k]
    BY <1>2, <2>3
  <2> QED BY <2>2, <2>4 DEF InLeft
<1>8. ASSUME NEW u PROVE Ready(q, B, u)
  <2> SUFFICES ASSUME B # <<>>, B[Len(B)].todo # <<>> PROVE Len(B[Len(B)].todo) # Len(ArmsOf(q, B[Len(B)].block))
    BY DEF Ready
  <2>1. Len(B) # 0
    BY <1>2, EmptySeq
  <2>2. Len(B) \in 1 .. L /\ Len(B) \in 1 .. Len(B) /\ Len(B) < L
    BY <1>2, <2>1
  <2>3. Towards(q, B[Len(B)], s[L].block)
    BY <1>2, <1>3, <2>2 DEF StackInv, Path
  <2>5. PICK e : e = B[Len(B)]
    OBVIOUS
  <2>6. TwoArms(q, e.block) /\ e.todo = <<q.l[e.block]>>
    BY <2>3, <2>5 DEF Towards
  <2>7. ArmsOf(q, e.block) = <<q.jmp[e.block], q.l[e.block]>>
    BY <2>6 DEF ArmsOf
  <2>8. Len(e.todo) # Len(ArmsOf(q, e.block))
    BY <2>6, <2>7
  <2> QED BY <2>5, <2>8, Zenon
<1> QED
  BY <1>4, <1>5, <1>6, <1>7, <1>8 DEF StackInv

(* An activation of b, visited with v, comes on top of the stack R.        *)
Coming(q, F, c, a, w, n, c2, a2, w2, n2, R, b, v) ==
    /\ Codes(q, c2) /\ n2 \in Nat /\ n <= n2 /\ b \in Block /\ v \in 0 .. n2
    /\ Acts(q, w, n, R) /\ Path(q, R) /\ Handed(q, F, c, a, w, R) /\ Covered(q, w, w2, R)
    /\ \A k \in 1 .. Len(R) : Towards(q, R[k], b)
    /\ \A x \in Block : w[x] # {} => OutVer(q, F, c2, a2, x) = OutVer(q, F, c, a, x)
    /\ \A x \in Block : w[x] \subseteq w2[x] /\ (w2[x] # {} => x = b \/ w[x] # {})
    /\ w2[b] # {}
    /\ w[b] = {} => v = OutVer(q, F, c2, a2, b)
    /\ w[b] # {} => v = InVer(q, F, c2, a2, b)

LEMMA PushKeeps ==
    ASSUME NEW q, NEW F, Ground(q, F), NEW c, NEW a, NEW w, NEW n \in Nat, NEW c2, NEW a2, NEW w2, NEW n2,
           NEW R, NEW b, NEW v, Coming(q, F, c, a, w, n, c2, a2, w2, n2, R, b, v),
           NEW u \in Act, u.block = b, u.todo = ArmsOf(q, b), u.saved = v
    PROVE  StackInv(q, F, c2, a2, w2, n2, Append(R, u), v)
<1> DEFINE L == Len(R)
<1>1. /\ Codes(q, c2) /\ n2 \in Nat /\ n <= n2 /\ b \in Block /\ v \in 0 .. n2
      /\ Acts(q, w, n, R) /\ Path(q, R) /\ Handed(q, F, c, a, w, R) /\ Covered(q, w, w2, R)
      /\ \A k \in 1 .. Len(R) : Towards(q, R[k], b)
      /\ \A x \in Block : w[x] # {} => OutVer(q, F, c2, a2, x) = OutVer(q, F, c, a, x)
      /\ \A x \in Block : w[x] \subseteq w2[x] /\ (w2[x] # {} => x = b \/ w[x] # {})
      /\ w2[b] # {}
      /\ w[b] = {} => v = OutVer(q, F, c2, a2, b)
      /\ w[b] # {} => v = InVer(q, F, c2, a2, b)
  BY DEF Coming
<1>2. Given(q) /\ R \in Seq(Act) /\ L \in Nat /\ \A k \in 1 .. L : R[k] \in Act
  BY <1>1 DEF Ground, Acts
<1>3. PICK S : S = Append(R, u)
  OBVIOUS
<1>4. /\ S \in Seq(Act) /\ Len(S) = L + 1 /\ S[L + 1] = u
      /\ \A k \in 1 .. L : S[k] = R[k]
  BY <1>2, <1>3, AppendProperties
<1>5. \A k \in 1 .. Len(S) : k \in 1 .. L \/ k = L + 1
  BY <1>2, <1>4
<1>6. /\ ArmsOf(q, b) \in Seq(Block)
      /\ TwoArms(q, b) => /\ q.l[b] \in Block /\ q.jmp[b] \in Block
                          /\ ArmsOf(q, b) = <<q.jmp[b], q.l[b]>>
      /\ \A x \in SuccOf(q)[b] : \E j \in 1 .. Len(ArmsOf(q, b)) : ArmsOf(q, b)[j] = x
  BY <1>1, <1>2, ArmsParts
<1>7. \A k \in 1 .. L : R[k].block \in Block /\ w[R[k].block] # {} /\ R[k].saved \in 0 .. n
                        /\ Left(q, R[k].block, R[k].todo)
  BY <1>1, <1>2 DEF Acts, Act
<1>8. Acts(q, w2, n2, S)
  <2>1. ASSUME NEW k \in 1 .. Len(S)
        PROVE  w2[S[k].block] # {} /\ S[k].saved \in 0 .. n2 /\ Left(q, S[k].block, S[k].todo)
    <3>1. CASE k \in 1 .. L
      <4>1. w2[R[k].block] # {} /\ R[k].saved \in 0 .. n2
        BY <1>1, <1>7, <3>1
      <4> QED BY <1>4, <1>7, <3>1, <4>1
    <3>2. CASE k = L + 1
      BY <1>1, <1>4, <3>2 DEF Left
    <3> QED BY <1>5, <3>1, <3>2
  <2> QED BY <1>4, <2>1 DEF Acts
<1>9. Path(q, S)
  <2> SUFFICES ASSUME NEW i \in 1 .. Len(S), NEW j \in 1 .. Len(S), i < j
               PROVE  Towards(q, S[i], S[j].block)
    BY DEF Path
  <2>1. i \in 1 .. L
    BY <1>2, <1>4, <1>5
  <2>2. CASE j \in 1 .. L
    BY <1>1, <1>4, <2>1, <2>2 DEF Path
  <2>3. CASE j = L + 1
    BY <1>1, <1>4, <2>1, <2>3
  <2> QED BY <1>5, <2>2, <2>3
<1>10. ASSUME DefinesIn(q, b), w[b] # {}, NEW x \in Block, x \in SuccOf(q)[b] PROVE b \in w2[x]
  <2> SUFFICES ASSUME b \notin w2[x] PROVE FALSE
    OBVIOUS
  <2>1. PICK k \in 1 .. L : R[k].block = b /\ \E j \in 1 .. Len(R[k].todo) : R[k].todo[j] = x
    BY <1>1, <1>10 DEF Covered, InLeft
  <2>2. R[k].todo # <<>>
    <3>1. Len(<<>>) = 0
      OBVIOUS
    <3> QED BY <2>1, <3>1
  <2>3. TwoArms(q, b) /\ Leads(q, q.jmp[b], b)
    BY <1>1, <2>1, <2>2 DEF Towards
  <2>4. Plain(q)
    BY <1>2, GivenParts
  <2> QED BY <1>1, <1>10, <2>3, <2>4 DEF Plain, DefinesIn
<1>11. Keeps(q, F, c2, a2, w2, u)
  <2>1. CASE w[b] = {}
    BY <1>1, <2>1 DEF Keeps
  <2>2. CASE w[b] # {} /\ DefinesIn(q, b)
    <3>1. \A j \in 1 .. Len(u.todo) : u.todo[j] \in SuccOf(q)[b] /\ u.todo[j] \in Block
      <4>1. SuccOf(q)[b] = {q.l[b], q.jmp[b]} \ {NULL} /\ SuccOf(q)[b] \subseteq Block
        BY <1>1, <1>2, GivenParts DEF Ground, Edges
      <4> SUFFICES ASSUME NEW j \in 1 .. Len(ArmsOf(q, b)) PROVE ArmsOf(q, b)[j] \in SuccOf(q)[b]
        BY <4>1
      <4>2. CASE TwoArms(q, b)
        <5>1. ArmsOf(q, b) = <<q.jmp[b], q.l[b]>>
          BY <1>6, <4>2
        <5>2. j = 1 \/ j = 2
          BY <5>1
        <5>3. ArmsOf(q, b)[j] = q.jmp[b] \/ ArmsOf(q, b)[j] = q.l[b]
          BY <5>1, <5>2
        <5> QED BY <4>1, <4>2, <5>3 DEF TwoArms
      <4>3. CASE ~TwoArms(q, b) /\ q.jmp[b] # NULL
        <5>1. ArmsOf(q, b) = <<q.jmp[b]>>
          BY <4>3 DEF ArmsOf
        <5>2. ArmsOf(q, b)[j] = q.jmp[b]
          BY <5>1
        <5> QED BY <4>1, <4>3, <5>2
      <4>4. CASE ~TwoArms(q, b) /\ q.jmp[b] = NULL
        <5>1. q.l[b] # NULL /\ ArmsOf(q, b) = <<q.l[b]>>
          <6>1. Len(<<>>) = 0
            OBVIOUS
          <6> QED BY <4>4, <6>1 DEF ArmsOf
        <5>2. ArmsOf(q, b)[j] = q.l[b]
          BY <5>1
        <5> QED BY <4>1, <5>1, <5>2
      <4> QED BY <4>2, <4>3, <4>4
    <3> QED BY <1>10, <2>2, <3>1 DEF Keeps
  <2>3. CASE w[b] # {} /\ ~DefinesIn(q, b)
    <3>1. DefsOf(c2, b, Len(c2[b])) = {}
      BY <1>1, <2>3, CodesParts
    <3>2. OutVer(q, F, c2, a2, b) = InVer(q, F, c2, a2, b)
      BY <3>1 DEF OutVer, VerAt
    <3> QED BY <1>1, <2>3, <3>2 DEF Keeps
  <2> QED BY <2>1, <2>2, <2>3
<1>12. Handed(q, F, c2, a2, w2, S)
  <2> SUFFICES ASSUME NEW k \in 1 .. Len(S) PROVE Keeps(q, F, c2, a2, w2, S[k])
    BY DEF Handed
  <2>1. CASE k = L + 1
    BY <1>4, <1>11, <2>1
  <2>2. CASE k \in 1 .. L
    <3>1. PICK e : e = R[k]
      OBVIOUS
    <3>2. /\ e.block \in Block /\ w[e.block] # {} /\ Left(q, e.block, e.todo)
          /\ e.saved = OutVer(q, F, c, a, e.block) \/ \A j \in 1 .. Len(e.todo) : e.block \in w[e.todo[j]]
      BY <1>1, <1>7, <2>2, <3>1 DEF Handed, Keeps
    <3>3. \A j \in 1 .. Len(e.todo) : e.todo[j] \in Block
      <4>1. e.todo \in Seq(Block)
        BY <1>2, <2>2, <3>1 DEF Act
      <4> QED BY <4>1
    <3>4. e.saved = OutVer(q, F, c2, a2, e.block) \/ \A j \in 1 .. Len(e.todo) : e.block \in w2[e.todo[j]]
      BY <1>1, <3>2, <3>3
    <3> QED BY <1>4, <2>2, <3>1, <3>4 DEF Keeps
  <2> QED BY <1>5, <2>1, <2>2
<1>13. Covered(q, w2, w2, S)
  <2> SUFFICES ASSUME NEW x \in Block, w2[x] # {}, NEW y \in SuccOf(q)[x], x \notin w2[y]
               PROVE  InLeft(S, x, y)
    BY DEF Covered
  <2>1. CASE w[x] # {}
    <3>1. PICK k \in 1 .. L : R[k].block = x /\ \E j \in 1 .. Len(R[k].todo) : R[k].todo[j] = y
      BY <1>1, <2>1 DEF Covered, InLeft
    <3>2. k \in 1 .. Len(S) /\ S[k] = R[k]
      BY <1>2, <1>4
    <3> QED BY <3>1, <3>2 DEF InLeft
  <2>2. CASE w[x] = {}
    <3>1. x = b /\ L + 1 \in 1 .. Len(S)
      BY <1>1, <1>2, <1>4, <2>2
    <3>2. \E j \in 1 .. Len(u.todo) : u.todo[j] = y
      BY <1>6, <3>1
    <3> QED BY <1>4, <3>1, <3>2 DEF InLeft
  <2> QED BY <2>1, <2>2
<1>14. Ready(q, S, v)
  BY <1>4 DEF Ready
<1> QED
  BY <1>3, <1>8, <1>9, <1>12, <1>13, <1>14 DEF StackInv
-----------------------------------------------------------------------------
(* Part 6.  The run of the renamed function.                               *)

(* Copies of one version to others, one after the other: each of them gets *)
(* its value, and it keeps it.                                             *)
IsCopying(f, e, moves) ==
    f = [i \in 0 .. Len(moves) |->
            IF i = 0 THEN e ELSE [f[i - 1] EXCEPT ![moves[i][1]] = f[i - 1][moves[i][2]]]]

LEMMA CopyingExists ==
    ASSUME NEW e, NEW moves, Len(moves) \in Nat
    PROVE  \E f : IsCopying(f, e, moves)
<1> DEFINE After(g, i) == IF i = 0 THEN e ELSE [g[i - 1] EXCEPT ![moves[i][1]] = g[i - 1][moves[i][2]]]
           Upto(g, n) == \A i \in 0 .. n : g[i] = After(g, i)
           S == {n \in 0 .. Len(moves) : \E g : Upto(g, n)}
<1>1. 0 \in S
  <2>1. [i \in {0} |-> e][0] = e
    OBVIOUS
  <2>2. Upto([i \in {0} |-> e], 0)
    <3> SUFFICES ASSUME NEW i \in 0 .. 0 PROVE [j \in {0} |-> e][i] = After([j \in {0} |-> e], i)
      OBVIOUS
    <3>1. i = 0
      OBVIOUS
    <3> QED BY <2>1, <3>1
  <2> HIDE DEF Upto
  <2>3. \E g : Upto(g, 0)
    BY <2>2
  <2> QED BY <2>3
<1>2. ASSUME NEW n \in 0 .. Len(moves), n \in S, n < Len(moves) PROVE n + 1 \in S
  <2>1. PICK g : Upto(g, n)
    BY <1>2
  <2>2. PICK h : h = [i \in 0 .. n + 1 |-> IF i = n + 1 THEN After(g, n + 1) ELSE g[i]]
    OBVIOUS
  <2>3. n + 1 \in 0 .. Len(moves) /\ n \in Nat /\ n + 1 # 0 /\ (n + 1) - 1 = n
    BY <1>2
  <2>4. h[n + 1] = After(g, n + 1) /\ \A i \in 0 .. n : h[i] = g[i]
    <3> HIDE DEF After
    <3> QED BY <2>2, <2>3
  <2>5. \A i \in 1 .. n + 1 : i - 1 \in 0 .. n /\ i # 0
    BY <2>3
  <2>6. \A i \in 0 .. n + 1 : After(h, i) = After(g, i)
    BY <2>3, <2>4, <2>5
  <2>7. \A i \in 0 .. n + 1 : i \in 0 .. n \/ i = n + 1
    BY <2>3
  <2>8. Upto(h, n + 1)
    <3> HIDE DEF After
    <3>1. \A i \in 0 .. n : g[i] = After(g, i)
      BY <2>1
    <3> QED BY <2>4, <2>6, <2>7, <3>1
  <2> HIDE DEF Upto
  <2> QED BY <2>3, <2>8
<1>3. S = 0 .. Len(moves)
  <2>1. S \in SUBSET (0 .. Len(moves))
    OBVIOUS
  <2> HIDE DEF S
  <2> QED BY <1>1, <1>2, <2>1, IntervalInduction
<1>4. PICK g : Upto(g, Len(moves))
  <2>1. Len(moves) \in S
    <3>1. Len(moves) \in 0 .. Len(moves)
      OBVIOUS
    <3> HIDE DEF S
    <3> QED BY <1>3, <3>1
  <2> HIDE DEF Upto
  <2> QED BY <2>1
<1>5. PICK f : f = [i \in 0 .. Len(moves) |-> g[i]]
  OBVIOUS
<1>6. \A i \in 0 .. Len(moves) : i # 0 => i - 1 \in 0 .. Len(moves)
  OBVIOUS
<1>7. \A i \in 0 .. Len(moves) : f[i] = After(g, i) /\ After(f, i) = After(g, i)
  BY <1>4, <1>5, <1>6
<1>8. f = [i \in 0 .. Len(moves) |-> After(f, i)]
  <2> HIDE DEF After
  <2> QED BY <1>5, <1>7
<1> QED
  BY <1>8 DEF IsCopying

AllFrom(o, e, D, V, moves) ==
    /\ e \in [D -> V] /\ Len(moves) \in Nat /\ o \in D
    /\ \A i \in 1 .. Len(moves) : moves[i][2] = o /\ moves[i][1] # o /\ moves[i][1] \in D

LEMMA CopiedAlike ==
    ASSUME NEW D, NEW V, NEW e, NEW moves, NEW o, AllFrom(o, e, D, V, moves)
    PROVE  /\ Copied(e, moves) \in [D -> V] /\ Copied(e, moves)[o] = e[o]
           /\ \A i \in 1 .. Len(moves) : Copied(e, moves)[moves[i][1]] = e[o]
<1> /\ e \in [D -> V] /\ Len(moves) \in Nat /\ o \in D
    /\ \A i \in 1 .. Len(moves) : moves[i][2] = o /\ moves[i][1] # o /\ moves[i][1] \in D
  BY DEF AllFrom
<1>1. PICK f : f = CHOOSE g : IsCopying(g, e, moves)
  OBVIOUS
<1>2. IsCopying(f, e, moves)
  BY <1>1, CopyingExists
<1>3. Copied(e, moves) = f[Len(moves)]
  <2>1. Copied(e, moves) = (CHOOSE g : IsCopying(g, e, moves))[Len(moves)]
    BY Zenon DEF Copied, IsCopying
  <2> QED BY <1>1, <2>1
<1>4. /\ f[0] = e
      /\ \A i \in 1 .. Len(moves) : f[i] = [f[i - 1] EXCEPT ![moves[i][1]] = f[i - 1][moves[i][2]]]
  <2>1. 0 \in 0 .. Len(moves) /\ \A i \in 1 .. Len(moves) : i \in 0 .. Len(moves) /\ i # 0
    OBVIOUS
  <2> QED BY <1>2, <2>1 DEF IsCopying
<1> DEFINE Right(n) == /\ f[n] \in [D -> V] /\ f[n][o] = e[o]
                       /\ \A i \in 1 .. n : f[n][moves[i][1]] = e[o]
           S == {n \in 0 .. Len(moves) : Right(n)}
<1>5. 0 \in S
  BY <1>4
<1>6. ASSUME NEW n \in 0 .. Len(moves), n \in S, n < Len(moves) PROVE n + 1 \in S
  <2>1. n + 1 \in 1 .. Len(moves) /\ n + 1 \in 0 .. Len(moves) /\ (n + 1) - 1 = n
    BY <1>6
  <2>2. PICK t \in D : t = moves[n + 1][1] /\ t # o /\ moves[n + 1][2] = o
    BY <2>1
  <2>3. f[n + 1] = [f[n] EXCEPT ![t] = f[n][o]]
    BY <1>4, <2>1, <2>2
  <2>4. f[n] \in [D -> V] /\ f[n][o] = e[o] /\ \A i \in 1 .. n : f[n][moves[i][1]] = e[o]
    BY <1>6
  <2>5. f[n + 1] \in [D -> V] /\ f[n + 1][o] = e[o] /\ f[n + 1][t] = e[o]
    BY <2>2, <2>3, <2>4
  <2>6. ASSUME NEW i \in 1 .. n + 1 PROVE f[n + 1][moves[i][1]] = e[o]
    <3>1. i \in 1 .. n \/ i = n + 1
      BY <2>1
    <3>2. i \in 1 .. Len(moves)
      BY <2>1
    <3>3. CASE i = n + 1
      BY <2>2, <2>5, <3>3
    <3>4. CASE i \in 1 .. n
      <4>1. f[n][moves[i][1]] = e[o] /\ moves[i][1] \in D
        BY <2>4, <3>2, <3>4
      <4>2. f[n + 1][moves[i][1]] = IF moves[i][1] = t THEN f[n][o] ELSE f[n][moves[i][1]]
        BY <2>2, <2>3, <2>4, <4>1
      <4> QED BY <2>4, <4>1, <4>2
    <3> QED BY <3>1, <3>3, <3>4
  <2> QED BY <2>1, <2>5, <2>6
<1>7. S = 0 .. Len(moves)
  <2>1. S \in SUBSET (0 .. Len(moves))
    OBVIOUS
  <2> HIDE DEF S
  <2> QED BY <1>5, <1>6, <2>1, IntervalInduction
<1>8. Right(Len(moves))
  <2>1. Len(moves) \in S
    BY <1>7
  <2> HIDE DEF Right
  <2> QED BY <2>1
<1> QED
  BY <1>3, <1>8

(* Within a block the version at any place has the variable's value.       *)
Holds(b) ==
    /\ b \in Block /\ env \in [0 .. lastId -> SsaValue] /\ actual \in SsaValue
    /\ visitors[b] # {} /\ env[InVer(func, phi, code, sarg, b)] = actual

LEMMA ValueAt ==
    ASSUME Ground(func, phi), CodeInv(func, phi, code, sarg, preamble, visitors, lastId),
           NEW b, Holds(b), NEW n \in 0 .. Len(code[b])
    PROVE  /\ EnvAfter(b, n) \in [0 .. lastId -> SsaValue] /\ ActualAfter(b, n) \in SsaValue
           /\ EnvAfter(b, n)[VerAt(func, phi, code, sarg, b, n)] = ActualAfter(b, n)
<1> DEFINE D(k) == DefsOf(code, b, k)
<1>1. /\ b \in Block /\ code[b] \in Seq(Op) /\ Len(code[b]) \in Nat
      /\ lastId \in Nat /\ Codes(func, code) /\ Done(func, phi, code, sarg, lastId, b)
      /\ env \in [0 .. lastId -> SsaValue] /\ actual \in SsaValue
      /\ env[InVer(func, phi, code, sarg, b)] = actual
  <2>1. b \in Block /\ Codes(func, code)
    BY DEF Holds, CodeInv
  <2>2. code[b] \in Seq(Op) /\ Len(code[b]) \in Nat
    BY <2>1, CodesParts DEF Op
  <2> QED BY <2>1, <2>2 DEF Holds, CodeInv
<1>2. \A k : D(k) = DefsIn(code[b], k)
  BY DEF DefsOf, DefsIn
<1>3. ASSUME NEW k \in 0 .. Len(code[b])
      PROVE  /\ IsFiniteSet(D(k)) /\ Cardinality(D(k)) \in Nat
             /\ ActualAfter(b, k) = (actual + Cardinality(D(k))) % 3
             /\ ActualAfter(b, k) \in SsaValue
  <2>1. IsFiniteSet(D(k)) /\ Cardinality(D(k)) \in Nat
    BY <1>1, <1>2, DefsInFinite
  <2>2. ActualAfter(b, k) = (actual + Cardinality(D(k))) % 3
    BY DEF ActualAfter, DefsOf
  <2>3. actual + Cardinality(D(k)) \in Nat
    BY <1>1, <2>1 DEF SsaValue
  <2>4. \A x \in Nat : x % 3 \in 0 .. 2
    OBVIOUS
  <2> QED BY <2>1, <2>2, <2>3, <2>4 DEF SsaValue
<1> DEFINE Own(v) == {i \in 1 .. n : code[b][i] = [op |-> "def", ver |-> v]}
<1>4. \A v : Own(v) \subseteq D(n) /\ D(n) \subseteq 1 .. n
  BY DEF DefsOf
<1>5. \A v : Own(v) # {} => LastOf(Own(v)) \in Own(v) /\ \A j \in Own(v) : j <= LastOf(Own(v))
  <2> TAKE v
  <2>1. n \in Nat /\ Own(v) \subseteq 1 .. n
    BY <1>1
  <2> HIDE DEF Own
  <2> QED BY <2>1, LastOfIs
<1>6. EnvAfter(b, n) = [v \in 0 .. lastId |->
                            IF Own(v) = {} THEN env[v] ELSE ActualAfter(b, LastOf(Own(v)))]
  BY <1>1 DEF EnvAfter, LastOf
<1>7. EnvAfter(b, n) \in [0 .. lastId -> SsaValue]
  <2>1. ASSUME NEW v \in 0 .. lastId
        PROVE  (IF Own(v) = {} THEN env[v] ELSE ActualAfter(b, LastOf(Own(v)))) \in SsaValue
    <3>1. CASE Own(v) = {}
      BY <1>1, <3>1
    <3>2. CASE Own(v) # {}
      <4>1. LastOf(Own(v)) \in 0 .. Len(code[b])
        <5>1. Own(v) \subseteq 0 .. Len(code[b])
          BY <1>1
        <5> HIDE DEF Own
        <5> QED BY <1>5, <3>2, <5>1
      <4> HIDE DEF Own
      <4> QED BY <1>3, <3>2, <4>1
    <3> QED BY <3>1, <3>2
  <2> HIDE DEF Own
  <2> QED BY <1>6, <2>1
<1>8. PICK w : w = VerAt(func, phi, code, sarg, b, n)
  OBVIOUS
<1>9. CASE D(n) = {}
  <2>1. w = InVer(func, phi, code, sarg, b) /\ Own(w) = {}
    BY <1>4, <1>8, <1>9 DEF VerAt
  <2>2. w \in 0 .. lastId
    <3>1. CASE b = Entry
      BY <1>1, <2>1, <3>1 DEF InVer, Base, Ground
    <3>2. CASE b # Entry
      BY <1>1, <2>1, <3>2 DEF Done
    <3> QED BY <3>1, <3>2
  <2>3. EnvAfter(b, n)[w] = actual
    <3> HIDE DEF Own
    <3> QED BY <1>1, <1>6, <2>1, <2>2
  <2>4. ActualAfter(b, n) = actual
    <3>1. Cardinality(D(n)) = 0
      BY <1>9, FS_EmptySet
    <3>2. \A x \in 0 .. 2 : (x + 0) % 3 = x
      OBVIOUS
    <3> QED BY <1>1, <1>3, <3>1, <3>2 DEF SsaValue
  <2> QED BY <1>3, <1>7, <1>8, <2>3, <2>4
<1>10. CASE D(n) # {}
  <2>1. PICK m : m = LastOf(D(n))
    OBVIOUS
  <2>2. m \in D(n) /\ (\A j \in D(n) : j <= m) /\ D(m) = D(n)
    <3>1. n \in Nat
      BY <1>1
    <3>2. m \in D(n) /\ \A j \in D(n) : j <= m
      BY <1>4, <1>10, <2>1, <3>1, LastOfIs
    <3>3. DefsIn(code[b], n) # {}
      BY <1>2, <1>10
    <3>4. n \in 0 .. n
      BY <3>1
    <3>5. DefsIn(code[b], LastOf(DefsIn(code[b], n))) = DefsIn(code[b], n)
      BY <3>1, <3>3, <3>4, DefsInFinite
    <3>6. D(m) = D(n)
      BY <1>2, <2>1, <3>5
    <3> QED BY <3>2, <3>6
  <2>3. m \in 1 .. n /\ m \in 1 .. Len(code[b]) /\ code[b][m].op = "def" /\ code[b][m].ver = w
    BY <1>1, <1>4, <1>8, <1>10, <2>1, <2>2 DEF VerAt, DefsOf
  <2>4. code[b][m] = [op |-> "def", ver |-> w]
    <3>1. code[b][m] \in Op
      BY <1>1, <2>3
    <3> QED BY <2>3, <3>1 DEF Op
  <2>5. w \in 0 .. lastId
    BY <1>1, <2>3 DEF Done
  <2>6. m \in Own(w)
    BY <2>3, <2>4
  <2>7. LastOf(Own(w)) = m
    <3>1. LastOf(Own(w)) \in Own(w) /\ m <= LastOf(Own(w))
      BY <1>5, <2>6
    <3>2. LastOf(Own(w)) <= m /\ LastOf(Own(w)) \in 1 .. n
      BY <1>4, <2>2, <3>1
    <3> HIDE DEF Own
    <3> QED BY <2>3, <3>1, <3>2
  <2>8. EnvAfter(b, n)[w] = ActualAfter(b, m)
    <3>1. Own(w) # {}
      BY <2>6
    <3> HIDE DEF Own
    <3> QED BY <1>6, <2>5, <2>7, <3>1
  <2>9. ActualAfter(b, m) = ActualAfter(b, n)
    <3>1. m \in 0 .. Len(code[b])
      BY <1>1, <2>3
    <3> HIDE DEF D
    <3> QED BY <1>3, <2>2, <3>1
  <2> QED BY <1>3, <1>7, <1>8, <2>8, <2>9
<1> QED
  BY <1>9, <1>10

(* The run from a block whose version at the start holds the value.        *)
LEMMA NothingStale ==
    ASSUME Ground(func, phi), CodeInv(func, phi, code, sarg, preamble, visitors, lastId),
           Holds(current)
    PROVE  ~StaleIn(current)
<1> SUFFICES ASSUME NEW i \in DOMAIN code[current], code[current][i].op = "use",
                    EnvAfter(current, i - 1)[code[current][i].ver] # ActualAfter(current, i - 1)
             PROVE  FALSE
  BY DEF StaleIn
<1>1. current \in Block /\ visitors[current] # {} /\ Codes(func, code)
  BY DEF Holds, CodeInv
<1>2. Len(code[current]) \in Nat /\ DOMAIN code[current] = 1 .. Len(code[current])
  BY <1>1, CodesParts
<1>3. i \in 1 .. Len(code[current]) /\ i - 1 \in 0 .. Len(code[current])
  BY <1>2
<1>4. code[current][i].ver = VerAt(func, phi, code, sarg, current, i - 1)
  BY <1>1, <1>3 DEF CodeInv, Done
<1> QED
  BY <1>3, <1>4, ValueAt

LEMMA NextHolds ==
    ASSUME Ground(func, phi), CodeInv(func, phi, code, sarg, preamble, visitors, lastId),
           Holds(current), NEW b \in SuccOf(func)[current], current \in visitors[b],
           NEW e, e = Copied(EnvAfter(current, Len(code[current])), preamble[current]),
           NEW x, x = ActualAfter(current, Len(code[current]))
    PROVE  /\ b \in Block /\ visitors[b] # {} /\ x \in SsaValue /\ e \in [0 .. lastId -> SsaValue]
           /\ e[InVer(func, phi, code, sarg, b)] = x
<1>1. /\ current \in Block /\ visitors[current] # {} /\ Codes(func, code) /\ lastId \in Nat
      /\ preamble[current] \in Seq(Nat \X Nat) /\ sarg \in [Block -> Nat]
      /\ \A s \in Block : visitors[s] # {} => Done(func, phi, code, sarg, lastId, s)
      /\ CopiesDone(func, phi, code, sarg, preamble, visitors, current)
  BY DEF Holds, CodeInv
<1>2. b \in Block /\ visitors[b] # {} /\ \A s \in SuccOf(func)[current] : s \in Block
  BY <1>1 DEF Ground, Edges
<1>3. Len(code[current]) \in Nat /\ Len(preamble[current]) \in Nat
  BY <1>1, CodesParts
<1>4. PICK o : o = OutVer(func, phi, code, sarg, current)
  OBVIOUS
<1>5. o \in 1 .. lastId
  BY <1>1, <1>4, OutVerMade
<1>6. PICK f : f = EnvAfter(current, Len(code[current]))
  OBVIOUS
<1>7. f \in [0 .. lastId -> SsaValue] /\ x \in SsaValue /\ f[o] = x
  <2>1. Len(code[current]) \in 0 .. Len(code[current])
    BY <1>3
  <2> QED BY <1>4, <1>6, <2>1, ValueAt DEF OutVer
<1>8. PICK m : m = preamble[current]
  OBVIOUS
<1>9. \A i \in 1 .. Len(m) : m[i][2] = o /\ m[i][1] # o /\ m[i][1] \in 0 .. lastId
  <2> TAKE i \in 1 .. Len(m)
  <2>1. PICK s \in SuccOf(func)[current] \intersect phi :
          visitors[s] # {} /\ sarg[s] # o /\ m[i] = <<sarg[s], o>>
    BY <1>1, <1>4, <1>8 DEF CopiesDone, CopyOf
  <2>2. sarg[s] \in 1 .. lastId
    BY <1>1, <1>2, <2>1 DEF Done
  <2> QED BY <1>1, <2>1, <2>2
<1>10. /\ e \in [0 .. lastId -> SsaValue] /\ e[o] = x
       /\ \A i \in 1 .. Len(m) : e[m[i][1]] = x
  <2>1. o \in 0 .. lastId /\ Len(m) \in Nat /\ e = Copied(f, m)
    BY <1>3, <1>5, <1>6, <1>8
  <2>2. PICK D : D = 0 .. lastId
    OBVIOUS
  <2>3. AllFrom(o, f, D, SsaValue, m)
    BY <1>7, <1>9, <2>1, <2>2 DEF AllFrom
  <2>4. /\ Copied(f, m) \in [D -> SsaValue] /\ Copied(f, m)[o] = f[o]
        /\ \A i \in 1 .. Len(m) : Copied(f, m)[m[i][1]] = f[o]
    BY <2>3, CopiedAlike
  <2> QED BY <1>7, <2>1, <2>2, <2>4
<1>11. CASE b \in phi
  <2>1. InVer(func, phi, code, sarg, b) = sarg[b]
    BY <1>11 DEF InVer
  <2>2. CASE sarg[b] = o
    BY <1>2, <1>7, <1>10, <2>1, <2>2
  <2>3. CASE sarg[b] # o
    <3>1. PICK i \in 1 .. Len(m) : m[i] = <<sarg[b], o>>
      BY <1>1, <1>4, <1>8, <1>11, <2>3 DEF CopiesDone
    <3>2. e[sarg[b]] = x
      BY <1>10, <3>1
    <3> QED BY <1>2, <1>7, <1>10, <2>1, <3>2
  <2> QED BY <2>2, <2>3
<1>12. CASE b \notin phi
  <2>1. Reachable(SuccOf(func), current)
    BY <1>1 DEF Done
  <2>2. InVer(func, phi, code, sarg, b) = o
    BY <1>1, <1>4, <1>12, <2>1, EdgeVersion
  <2> QED BY <1>2, <1>7, <1>10, <2>2
<1> QED
  BY <1>11, <1>12
-----------------------------------------------------------------------------
(* Part 7.  The invariant.                                                 *)

(* A visit, and the activation it leaves.                                  *)
LEMMA VisitPush ==
    ASSUME Ground(func, phi), CodeInv(func, phi, code, sarg, preamble, visitors, lastId),
           NEW b \in Block, NEW p, NEW v, Arrives(func, phi, code, sarg, visitors, p, b, v),
           Visit(b, p, v), NEW R, Acts(func, visitors, lastId, R), Path(func, R),
           Handed(func, phi, code, sarg, visitors, R), Covered(func, visitors, visitors', R),
           \A k \in 1 .. Len(R) : Towards(func, R[k], b)
    PROVE  /\ CodeInv(func, phi, code', sarg', preamble', visitors', lastId')
           /\ StackInv(func, phi, code', sarg', visitors', lastId',
                       Append(R, [block |-> b, todo |-> ArmsOf(func, b), saved |-> vers']), vers')
           /\ vers' \in 0 .. lastId' /\ visitors'[b] # {}
           /\ \A x \in Block : visitors[x] \subseteq visitors'[x]
<1>1. /\ lastId \in Nat /\ visitors \in [Block -> SUBSET (Block \union {NULL})]
      /\ Codes(func, code)
      /\ \A x \in Block : visitors[x] # {} => Done(func, phi, code, sarg, lastId, x)
  BY DEF CodeInv
<1>2. /\ visitors'[b] # {}
      /\ \A x \in Block : /\ visitors[x] \subseteq visitors'[x]
                          /\ visitors'[x] # {} => x = b \/ visitors[x] # {}
  <2>1. visitors' = [visitors EXCEPT ![b] = @ \union {p}]
    BY DEF Visit
  <2>2. visitors'[b] = visitors[b] \union {p} /\ \A x \in Block : x # b => visitors'[x] = visitors[x]
    BY <1>1, <2>1
  <2>3. visitors'[b] # {}
    BY <2>2, Zenon
  <2> QED BY <2>2, <2>3
<1>3. /\ CodeInv(func, phi, code', sarg', preamble', visitors', lastId') /\ lastId <= lastId'
      /\ \A x \in Block : visitors[x] # {} =>
             OutVer(func, phi, code', sarg', x) = OutVer(func, phi, code, sarg, x)
      /\ visitors[b] = {} => vers' = OutVer(func, phi, code', sarg', b)
      /\ visitors[b] # {} => vers' = InVer(func, phi, code', sarg', b)
  <2>1. CASE visitors[b] = {}
    BY <2>1, FirstVisit
  <2>2. CASE visitors[b] # {}
    <3>1. /\ CodeInv(func, phi, code', sarg', preamble', visitors', lastId')
          /\ code' = code /\ sarg' = sarg /\ lastId' = lastId
          /\ b # Entry => vers' = InVer(func, phi, code, sarg, b)
          /\ b = Entry => vers' = Base
      BY <2>2, LaterVisit
    <3>2. b = Entry => InVer(func, phi, code, sarg, b) = Base
      BY DEF InVer, Ground
    <3> QED BY <1>1, <2>2, <3>1, <3>2
  <2> QED BY <2>1, <2>2
<1>4. /\ lastId' \in Nat /\ Codes(func, code')
      /\ \A x \in Block : visitors'[x] # {} => Done(func, phi, code', sarg', lastId', x)
  BY <1>3 DEF CodeInv
<1>5. vers' \in 0 .. lastId'
  <2>1. CASE visitors[b] = {}
    <3>1. vers' \in 1 .. lastId'
      BY <1>2, <1>3, <1>4, <2>1, OutVerMade
    <3> QED BY <1>4, <3>1
  <2>2. CASE visitors[b] # {} /\ b # Entry
    BY <1>2, <1>3, <1>4, <2>2 DEF Done
  <2>3. CASE visitors[b] # {} /\ b = Entry
    BY <1>3, <1>4, <2>3 DEF InVer, Ground, Base
  <2> QED BY <2>1, <2>2, <2>3
<1>6. PICK u : u = [block |-> b, todo |-> ArmsOf(func, b), saved |-> vers']
  OBVIOUS
<1>7. u \in Act /\ u.block = b /\ u.todo = ArmsOf(func, b) /\ u.saved = vers'
  <2>1. ArmsOf(func, b) \in Seq(Block)
    BY ArmsParts DEF Ground
  <2> QED BY <1>4, <1>5, <1>6, <2>1 DEF Act
<1>8. Coming(func, phi, code, sarg, visitors, lastId, code', sarg', visitors', lastId', R, b, vers')
  BY <1>2, <1>3, <1>4, <1>5 DEF Coming
<1>9. StackInv(func, phi, code', sarg', visitors', lastId', Append(R, u), vers')
  BY <1>1, <1>7, <1>8, PushKeeps
<1> QED
  BY <1>2, <1>3, <1>5, <1>6, <1>9

(* Before the renaming nothing has a version; during it the traversal is   *)
(* as above; after it every edge from a visited block has been followed,   *)
(* and the version at the start of the block that runs holds the value.    *)
Untouched ==
    /\ Codes(func, code) /\ \A b \in Block : Blank(code, sarg, b)
    /\ sarg = [b \in Block |-> NULL] /\ preamble = [b \in Block |-> <<>>]
    /\ visitors = [b \in Block |-> {}]
    /\ vers = Base /\ lastId = Base /\ stack = <<>>
Idle == current = Entry /\ actual = 0 /\ stale = FALSE
Renaming ==
    /\ CodeInv(func, phi, code, sarg, preamble, visitors, lastId)
    /\ StackInv(func, phi, code, sarg, visitors, lastId, stack, vers)
    /\ vers \in 0 .. lastId /\ visitors[Entry] # {} /\ stack # <<>>
Running ==
    /\ CodeInv(func, phi, code, sarg, preamble, visitors, lastId)
    /\ vers \in 0 .. lastId /\ stack = <<>> /\ stale = FALSE
    /\ \A b \in Block : visitors[b] # {} => \A x \in SuccOf(func)[b] : b \in visitors[x]
    /\ ssaPhase = "run" => Holds(current)
Inv ==
    /\ PhiInv
    /\ ssaPhase \in {"insert", "visit entry"} => Untouched /\ Idle
    /\ ssaPhase = "rename" => Renaming /\ Idle
    /\ ssaPhase \in {"run", "returned"} => Running

LEMMA UntouchedCode ==
    ASSUME Untouched, Given(func)
    PROVE  CodeInv(func, phi, code, sarg, preamble, visitors, lastId)
<1>1. /\ \A b \in Block : sarg[b] = NULL /\ preamble[b] = <<>> /\ visitors[b] = {} /\ Len(preamble[b]) = 0
      /\ sarg \in [Block -> Nat] /\ preamble \in [Block -> Seq(Nat \X Nat)]
      /\ visitors \in [Block -> SUBSET (Block \union {NULL})] /\ lastId \in Nat
  BY DEF Untouched, NULL, Base
<1>2. \A p \in Block : CopiesDone(func, phi, code, sarg, preamble, visitors, p)
  <2> TAKE p \in Block
  <2>1. \A i \in 1 .. Len(preamble[p]) : FALSE
    BY <1>1
  <2>2. \A s \in SuccOf(func)[p] : s \in Block
    BY GivenParts DEF Edges
  <2> QED BY <1>1, <2>1, <2>2 DEF CopiesDone
<1> QED
  BY <1>1, <1>2 DEF CodeInv, Untouched

LEMMA Starts == ASSUME \A p \in SsaPrograms : Given(p), SsaInit PROVE Untouched /\ Idle
<1>1. /\ Given(func) /\ func.code \in [Block -> Seq({"use", "def"})]
      /\ code = [b \in Block |-> [i \in DOMAIN func.code[b] |-> [op |-> func.code[b][i], ver |-> Base]]]
  BY GivenParts DEF SsaInit
<1>2. ASSUME NEW b \in Block
      PROVE  /\ code[b] \in Seq([op : {"use", "def"}, ver : Nat])
             /\ Len(code[b]) = Len(func.code[b])
             /\ \A i \in 1 .. Len(code[b]) : code[b][i].op = func.code[b][i] /\ code[b][i].ver = Base
  <2>1. PICK y : y = func.code[b]
    OBVIOUS
  <2>2. y \in Seq({"use", "def"}) /\ Len(y) \in Nat /\ DOMAIN y = 1 .. Len(y)
    BY <1>1, <2>1
  <2>3. code[b] = [i \in 1 .. Len(y) |-> [op |-> y[i], ver |-> Base]]
    BY <1>1, <2>1, <2>2
  <2>4. \A i \in 1 .. Len(y) : y[i] \in {"use", "def"} /\ [op |-> y[i], ver |-> Base] \in [op : {"use", "def"}, ver : Nat]
    BY <2>2 DEF Base
  <2>5. code[b] \in [1 .. Len(y) -> [op : {"use", "def"}, ver : Nat]]
    BY <2>3, <2>4
  <2>6. code[b] \in Seq([op : {"use", "def"}, ver : Nat]) /\ Len(code[b]) = Len(y)
    <3>1. PICK z : z = code[b]
      OBVIOUS
    <3>2. z \in [1 .. Len(y) -> Op]
      BY <2>5, <3>1 DEF Op
    <3>3. z \in Seq(Op) /\ Len(z) = Len(y)
      BY <2>2, <3>2
    <3> QED BY <3>1, <3>3 DEF Op
  <2> QED BY <2>1, <2>3, <2>6
<1>3. Codes(func, code)
  <2>1. code \in [Block -> Seq([op : {"use", "def"}, ver : Nat])]
    BY <1>1, <1>2
  <2> QED BY <1>2, <2>1 DEF Codes
<1>4. \A b \in Block : Blank(code, sarg, b)
  BY <1>2 DEF Blank, SsaInit
<1> QED
  BY <1>3, <1>4 DEF Untouched, Idle, SsaInit

LEMMA StackForms ==
    ASSUME NEW b, NEW v
    PROVE  /\ Activation(b, v) = [block |-> b, todo |-> ArmsOf(func, b), saved |-> v]
           /\ Below = Rest(stack) /\ Top = stack[Len(stack)]
<1>1. Arms(b) = ArmsOf(func, b)
  BY DEF Arms, ArmsOf, TwoArms
<1> QED
  BY <1>1 DEF Activation, Below, Rest, Top

LEMMA EntryKeeps ==
    ASSUME Ground(func, phi), Untouched, VisitEntry
    PROVE  /\ CodeInv(func, phi, code', sarg', preamble', visitors', lastId')
           /\ StackInv(func, phi, code', sarg', visitors', lastId', stack', vers')
           /\ vers' \in 0 .. lastId' /\ visitors'[Entry] # {} /\ stack' # <<>>
<1>1. CodeInv(func, phi, code, sarg, preamble, visitors, lastId)
  BY UntouchedCode DEF Ground
<1>2. Visit(Entry, NULL, vers) /\ stack' = <<Activation(Entry, vers')>>
  BY DEF VisitEntry
<1>3. Arrives(func, phi, code, sarg, visitors, NULL, Entry, vers) /\ Entry \in Block
  BY SourceFacts DEF Arrives, From, Untouched
<1>4. PICK R : R = <<>>
  OBVIOUS
<1>5. R \in Seq(Act) /\ Len(R) = 0
  BY <1>4
<1>6. \A b \in Block : visitors[b] = {}
  BY DEF Untouched
<1>7. /\ Acts(func, visitors, lastId, R) /\ Path(func, R) /\ Handed(func, phi, code, sarg, visitors, R)
      /\ Covered(func, visitors, visitors', R) /\ \A k \in 1 .. Len(R) : Towards(func, R[k], Entry)
  BY <1>5, <1>6 DEF Acts, Path, Handed, Covered
<1>8. PICK u : u = [block |-> Entry, todo |-> ArmsOf(func, Entry), saved |-> vers']
  OBVIOUS
<1>9. /\ CodeInv(func, phi, code', sarg', preamble', visitors', lastId')
      /\ StackInv(func, phi, code', sarg', visitors', lastId', Append(R, u), vers')
      /\ vers' \in 0 .. lastId' /\ visitors'[Entry] # {}
  BY <1>1, <1>2, <1>3, <1>7, <1>8, VisitPush
<1>10. stack' = <<u>>
  BY <1>2, <1>8, StackForms
<1>11. Append(R, u) = <<u>> /\ <<u>> # <<>>
  BY <1>4
<1> QED
  BY <1>9, <1>10, <1>11

(* The activation on top with one arm less.                                *)
LEMMA OneArmLessIs ==
    ASSUME Ground(func, phi), Renaming, Top.todo # <<>>
    PROVE  /\ OneArmLess \in Act /\ OneArmLess.block = Top.block /\ OneArmLess.saved = Top.saved
           /\ OneArmLess.todo = Tail(Top.todo)
           /\ Top = stack[Len(stack)] /\ Top \in Act /\ Len(stack) \in 1 .. Len(stack)
           /\ visitors[Top.block] # {} /\ Top.saved \in 0 .. lastId
           /\ Left(func, Top.block, Top.todo)
           /\ Keeps(func, phi, code, sarg, visitors, Top)
           /\ Head(Top.todo) = Top.todo[1] /\ 1 \in 1 .. Len(Top.todo)
           /\ Head(Top.todo) \in SuccOf(func)[Top.block]
<1>1. stack \in Seq(Act) /\ stack # <<>>
  BY DEF Renaming, StackInv, Acts
<1>2. Len(stack) \in Nat /\ Len(stack) # 0
  BY <1>1, EmptySeq
<1>3. PICK r : r = Top
  OBVIOUS
<1>4. r = stack[Len(stack)] /\ r \in Act /\ Len(stack) \in 1 .. Len(stack)
  BY <1>1, <1>2, <1>3 DEF Top
<1>5. /\ visitors[r.block] # {} /\ r.saved \in 0 .. lastId /\ Left(func, r.block, r.todo)
      /\ Keeps(func, phi, code, sarg, visitors, r) /\ r.block \in Block
  BY <1>4 DEF Renaming, StackInv, Acts, Handed, Act
<1>6. PICK tail : tail = Tail(r.todo)
  OBVIOUS
<1>7. OneLess(func, r.block, r.todo, tail)
  BY <1>3, <1>5, <1>6, LeftShrinks DEF Ground
<1>8. OneArmLess = [r EXCEPT !.todo = tail] /\ tail \in Seq(Block)
  BY <1>3, <1>6, <1>7 DEF OneArmLess, OneLess
<1>9. OneArmLess \in Act /\ OneArmLess.block = r.block /\ OneArmLess.saved = r.saved /\ OneArmLess.todo = tail
  BY <1>4, <1>8 DEF Act
<1> QED
  BY <1>3, <1>4, <1>5, <1>6, <1>7, <1>9 DEF OneLess

LEMMA ArmVersionMade ==
    ASSUME Ground(func, phi), Renaming, Top.todo # <<>>
    PROVE  /\ ArmVersion = Top.saved
           /\ Top.block \notin visitors[Head(Top.todo)] =>
                  Arrives(func, phi, code, sarg, visitors, Top.block, Head(Top.todo), ArmVersion)
<1>1. PICK r : r = Top
  OBVIOUS
<1>2. /\ r = stack[Len(stack)] /\ r \in Act
      /\ visitors[r.block] # {} /\ r.saved \in 0 .. lastId
      /\ Left(func, r.block, r.todo) /\ Keeps(func, phi, code, sarg, visitors, r)
      /\ Head(r.todo) = r.todo[1] /\ 1 \in 1 .. Len(r.todo)
      /\ Head(r.todo) \in SuccOf(func)[r.block]
  BY <1>1, OneArmLessIs
<1>3. r.block \in Block /\ r.todo # <<>> /\ r.todo \in Seq(Block)
  BY <1>1, <1>2 DEF Act
<1>4. Arms(r.block) = ArmsOf(func, r.block)
  BY DEF Arms, ArmsOf, TwoArms
<1>5. Len(r.todo) < Len(Arms(r.block)) \/ Len(r.todo) = Len(Arms(r.block))
  <2>1. CASE r.todo = ArmsOf(func, r.block)
    BY <1>4, <2>1
  <2>2. CASE TwoArms(func, r.block) /\ r.todo = <<func.l[r.block]>>
    <3>1. ArmsOf(func, r.block) = <<func.jmp[r.block], func.l[r.block]>>
      BY <2>2 DEF ArmsOf
    <3>2. Len(r.todo) = 1 /\ Len(ArmsOf(func, r.block)) = 2
      BY <2>2, <3>1
    <3> QED BY <1>4, <3>2
  <2> QED BY <1>2, <1>3, <2>1, <2>2 DEF Left
<1>6. ArmVersion = r.saved
  <2>1. CASE Len(r.todo) < Len(Arms(r.block))
    BY <1>1, <2>1 DEF ArmVersion
  <2>2. CASE Len(r.todo) = Len(Arms(r.block))
    <3>1. Ready(func, stack, vers) /\ stack # <<>>
      BY DEF Renaming, StackInv
    <3>2. vers = r.saved
      BY <1>2, <1>3, <1>4, <2>2, <3>1 DEF Ready
    <3>3. Len(r.todo) \in Nat
      BY <1>3
    <3> QED BY <1>1, <2>2, <3>2, <3>3 DEF ArmVersion
  <2> QED BY <1>5, <2>1, <2>2
<1>7. ASSUME r.block \notin visitors[Head(r.todo)]
      PROVE  Arrives(func, phi, code, sarg, visitors, r.block, Head(r.todo), ArmVersion)
  <2>1. r.saved = OutVer(func, phi, code, sarg, r.block)
    BY <1>2, <1>7 DEF Keeps
  <2>2. r.block # NULL
    BY <1>3, NAssumption DEF Block, NULL
  <2> QED BY <1>2, <1>3, <1>6, <2>1, <2>2 DEF Arrives, From
<1> QED
  BY <1>1, <1>6, <1>7

(* The stack with one arm less is ready for what comes on top.             *)
LEMMA DescendKeeps ==
    ASSUME Ground(func, phi), Renaming, Descend
    PROVE  /\ CodeInv(func, phi, code', sarg', preamble', visitors', lastId')
           /\ StackInv(func, phi, code', sarg', visitors', lastId', stack', vers')
           /\ vers' \in 0 .. lastId' /\ visitors'[Entry] # {} /\ stack' # <<>>
<1>1. /\ stack # <<>> /\ Top.todo # <<>> /\ Top.block \notin visitors[Head(Top.todo)]
      /\ Visit(Head(Top.todo), Top.block, ArmVersion)
      /\ stack' = Append(Append(Below, OneArmLess), Activation(Head(Top.todo), vers'))
  BY DEF Descend
<1>2. PICK r, b, t, v : r = Top /\ b = Head(Top.todo) /\ t = OneArmLess /\ v = ArmVersion
  OBVIOUS
<1>3. /\ t \in Act /\ t.block = r.block /\ t.saved = r.saved /\ t.todo = Tail(r.todo)
      /\ r = stack[Len(stack)] /\ r \in Act /\ b = Head(r.todo) /\ r.todo # <<>>
      /\ b \in SuccOf(func)[r.block] /\ r.block \in Block
  BY <1>1, <1>2, OneArmLessIs DEF Act
<1>4. Arrives(func, phi, code, sarg, visitors, r.block, b, v)
  BY <1>1, <1>2, ArmVersionMade
<1>5. /\ lastId \in Nat /\ visitors \in [Block -> SUBSET (Block \union {NULL})]
      /\ CodeInv(func, phi, code, sarg, preamble, visitors, lastId)
      /\ StackInv(func, phi, code, sarg, visitors, lastId, stack, vers)
  BY DEF Renaming, CodeInv
<1>6. Visit(b, r.block, v)
  BY <1>1, <1>2
<1>7. b \in Block /\ r.block \in visitors'[b] /\ \A x \in Block : visitors[x] \subseteq visitors'[x]
  <2>1. b \in Block
    BY <1>3 DEF Ground, Edges
  <2>2. visitors' = [visitors EXCEPT ![b] = @ \union {r.block}]
    BY <1>6 DEF Visit
  <2> QED BY <1>5, <2>1, <2>2
<1>8. PICK R : R = Instead(stack, t)
  OBVIOUS
<1>9. /\ Acts(func, visitors, lastId, R) /\ Path(func, R) /\ Handed(func, phi, code, sarg, visitors, R)
      /\ Covered(func, visitors, visitors', R)
      /\ \A k \in 1 .. Len(R) : Towards(func, R[k], b)
  BY <1>1, <1>3, <1>5, <1>7, <1>8, SkipKeeps
<1>10. PICK u : u = [block |-> b, todo |-> ArmsOf(func, b), saved |-> vers']
  OBVIOUS
<1>11. /\ CodeInv(func, phi, code', sarg', preamble', visitors', lastId')
       /\ StackInv(func, phi, code', sarg', visitors', lastId', Append(R, u), vers')
       /\ vers' \in 0 .. lastId' /\ \A x \in Block : visitors[x] \subseteq visitors'[x]
  BY <1>4, <1>5, <1>6, <1>7, <1>9, <1>10, VisitPush
<1>12. stack' = Append(R, u)
  <2>1. Activation(b, vers') = u
    BY <1>10, StackForms
  <2>2. Append(Below, OneArmLess) = R
    BY <1>2, <1>8, StackForms DEF Instead
  <2> QED BY <1>1, <1>2, <2>1, <2>2
<1>13. stack' # <<>>
  <2>1. R \in Seq(Act) /\ u \in Act
    <3>1. ArmsOf(func, b) \in Seq(Block)
      BY <1>7, ArmsParts DEF Ground
    <3>2. vers' \in Nat
      BY <1>11 DEF CodeInv
    <3> QED BY <1>7, <1>9, <1>10, <3>1, <3>2 DEF Acts, Act
  <2>2. Len(Append(R, u)) = Len(R) + 1 /\ Len(R) \in Nat
    BY <2>1, AppendProperties
  <2>3. Len(<<>>) = 0
    OBVIOUS
  <2> QED BY <1>12, <2>2, <2>3
<1>14. visitors'[Entry] # {}
  BY <1>11, SourceFacts DEF Renaming
<1> QED
  BY <1>11, <1>12, <1>13, <1>14

LEMMA SkipStack ==
    ASSUME Ground(func, phi), Renaming, Skip
    PROVE  /\ StackInv(func, phi, code, sarg, visitors, lastId, stack', vers')
           /\ vers' \in 0 .. lastId /\ stack' # <<>>
<1>1. /\ stack # <<>> /\ Top.todo # <<>> /\ Top.block \in visitors[Head(Top.todo)]
      /\ vers' = ArmVersion /\ stack' = Append(Below, OneArmLess)
  BY DEF Skip
<1>2. PICK r, t : r = Top /\ t = OneArmLess
  OBVIOUS
<1>3. /\ t \in Act /\ t.block = r.block /\ t.saved = r.saved /\ t.todo = Tail(r.todo)
      /\ r = stack[Len(stack)] /\ r.todo # <<>> /\ r.saved \in 0 .. lastId
  BY <1>1, <1>2, OneArmLessIs
<1>4. /\ lastId \in Nat /\ StackInv(func, phi, code, sarg, visitors, lastId, stack, vers)
  BY DEF Renaming, CodeInv
<1>5. PICK R : R = Instead(stack, t)
  OBVIOUS
<1>6. /\ Acts(func, visitors, lastId, R) /\ Path(func, R) /\ Handed(func, phi, code, sarg, visitors, R)
      /\ Covered(func, visitors, visitors, R) /\ (\A u : Ready(func, R, u)) /\ R # <<>>
  <2>1. \A x \in Block : visitors[x] \subseteq visitors[x]
    OBVIOUS
  <2>2. r.block \in visitors[Head(r.todo)]
    BY <1>1, <1>2
  <2> QED BY <1>1, <1>3, <1>4, <1>5, <2>1, <2>2, SkipKeeps
<1>7. stack' = R
  BY <1>1, <1>2, <1>5, StackForms DEF Instead
<1>8. vers' = r.saved
  BY <1>1, <1>2, ArmVersionMade
<1> QED
  BY <1>3, <1>6, <1>7, <1>8 DEF StackInv

LEMMA RunKeeps ==
    ASSUME Ground(func, phi), succs = SuccOf(func), Running, RunSsaBlock
    PROVE  /\ env' \in [0 .. lastId -> SsaValue] /\ actual' \in SsaValue /\ stale' = FALSE
           /\ current' \in Block /\ visitors[current'] # {}
           /\ env'[InVer(func, phi, code, sarg, current')] = actual'
<1>1. /\ ssaPhase = "run" /\ stale' = (stale \/ StaleIn(current))
      /\ actual' = ActualAfter(current, Len(code[current]))
      /\ env' = Copied(EnvAfter(current, Len(code[current])), preamble[current])
      /\ current' \in SuccOf(func)[current]
  BY DEF RunSsaBlock
<1>2. /\ CodeInv(func, phi, code, sarg, preamble, visitors, lastId) /\ Holds(current) /\ stale = FALSE
      /\ \A b \in Block : visitors[b] # {} => \A x \in SuccOf(func)[b] : b \in visitors[x]
  BY <1>1 DEF Running
<1>3. ~StaleIn(current)
  BY <1>2, NothingStale
<1>4. PICK b, e, x : b = current' /\ e = env' /\ x = actual'
  OBVIOUS
<1>5. current \in visitors[b] /\ b \in SuccOf(func)[current]
  BY <1>1, <1>2, <1>4 DEF Holds
<1>6. /\ b \in Block /\ visitors[b] # {} /\ x \in SsaValue /\ e \in [0 .. lastId -> SsaValue]
      /\ e[InVer(func, phi, code, sarg, b)] = x
  <2>1. e = Copied(EnvAfter(current, Len(code[current])), preamble[current]) /\ x = ActualAfter(current, Len(code[current]))
    BY <1>1, <1>4
  <2> QED BY <1>2, <1>5, <2>1, NextHolds
<1> QED
  BY <1>1, <1>2, <1>3, <1>4, <1>6

(* The run starts: every version has some value, the base version that of  *)
(* the variable.                                                           *)
LEMMA RunStarts ==
    ASSUME Ground(func, phi), Renaming, Idle, LeaveBlock, Below = <<>>
    PROVE  /\ stack' = <<>> /\ env' \in [0 .. lastId -> SsaValue]
           /\ \A b \in Block : visitors[b] # {} => \A x \in SuccOf(func)[b] : b \in visitors[x]
           /\ env'[InVer(func, phi, code, sarg, Entry)] = 0
<1>1. Top.todo = <<>> /\ stack' = Below /\ env' = [v \in 0 .. lastId |-> 0] /\ stack # <<>>
  BY DEF LeaveBlock
<1>2. lastId \in Nat
  BY DEF Renaming, CodeInv
<1>3. StackInv(func, phi, code, sarg, visitors, lastId, Below, vers)
  <2>1. stack[Len(stack)].todo = <<>> /\ Below = Rest(stack)
    BY <1>1, StackForms
  <2> QED BY <1>1, <1>2, <2>1, ReturnKeeps DEF Renaming
<1>4. Covered(func, visitors, visitors, <<>>)
  BY <1>3 DEF StackInv
<1>5. \A b, x : ~InLeft(<<>>, b, x)
  BY DEF InLeft
<1>6. InVer(func, phi, code, sarg, Entry) = 0
  BY DEF InVer, Base, Ground
<1>7. env' \in [0 .. lastId -> SsaValue] /\ env'[0] = 0
  BY <1>1, <1>2 DEF SsaValue
<1> QED
  BY <1>1, <1>4, <1>5, <1>6, <1>7 DEF Covered

LEMMA Invariance == ASSUME \A p \in SsaPrograms : Given(p) PROVE SsaSpec => []Inv
<1>1. SsaInit => Inv
  <2> SUFFICES ASSUME SsaInit PROVE Inv
    OBVIOUS
  <2>1. ssaPhase = "insert" /\ Untouched /\ Idle
    BY Starts DEF SsaInit
  <2>2. PhiInv
    BY DEF SsaInit, PhiInv, Phases
  <2> QED BY <2>1, <2>2 DEF Inv
<1>2. Inv /\ PhiInv' /\ [SsaNext]_ssaVars => Inv'
  <2> SUFFICES ASSUME Inv, PhiInv', [SsaNext]_ssaVars PROVE Inv'
    OBVIOUS
  <2>1. CASE InsertPhi
    <3>1. /\ ssaPhase = "insert" /\ ssaPhase' \in {"insert", "visit entry"}
          /\ func' = func /\ code' = code /\ sarg' = sarg /\ preamble' = preamble
          /\ visitors' = visitors /\ vers' = vers /\ lastId' = lastId /\ stack' = stack
          /\ current' = current /\ actual' = actual /\ stale' = stale
      BY <2>1 DEF InsertPhi, funcVars, ssaRunVars
    <3>2. Untouched /\ Idle
      BY <3>1 DEF Inv
    <3>3. Untouched' /\ Idle'
      BY <3>1, <3>2 DEF Untouched, Idle
    <3> QED BY <3>1, <3>3 DEF Inv
  <2>2. CASE VisitEntry
    <3>1. /\ ssaPhase = "visit entry" /\ ssaPhase' = "rename"
          /\ func' = func /\ phi' = phi /\ current' = current /\ actual' = actual /\ stale' = stale
      BY <2>2 DEF VisitEntry, funcVars, ssaRunVars
    <3>2. Untouched /\ Idle /\ Ground(func, phi)
      BY <3>1, GroundHolds DEF Inv
    <3>3. /\ CodeInv(func, phi, code', sarg', preamble', visitors', lastId')
          /\ StackInv(func, phi, code', sarg', visitors', lastId', stack', vers')
          /\ vers' \in 0 .. lastId' /\ visitors'[Entry] # {} /\ stack' # <<>>
      BY <2>2, <3>2, EntryKeeps
    <3>4. Renaming' /\ Idle'
      BY <3>1, <3>2, <3>3 DEF Renaming, Idle
    <3> QED BY <3>1, <3>4 DEF Inv
  <2>3. CASE Descend
    <3>1. /\ ssaPhase = "rename" /\ ssaPhase' = "rename"
          /\ func' = func /\ phi' = phi /\ current' = current /\ actual' = actual /\ stale' = stale
      BY <2>3 DEF Descend, funcVars, ssaRunVars
    <3>2. Renaming /\ Idle /\ Ground(func, phi)
      BY <3>1, GroundHolds DEF Inv
    <3>3. /\ CodeInv(func, phi, code', sarg', preamble', visitors', lastId')
          /\ StackInv(func, phi, code', sarg', visitors', lastId', stack', vers')
          /\ vers' \in 0 .. lastId' /\ visitors'[Entry] # {} /\ stack' # <<>>
      BY <2>3, <3>2, DescendKeeps
    <3>4. Renaming' /\ Idle'
      BY <3>1, <3>2, <3>3 DEF Renaming, Idle
    <3> QED BY <3>1, <3>4 DEF Inv
  <2>4. CASE Skip
    <3>1. /\ ssaPhase = "rename" /\ ssaPhase' = "rename" /\ code' = code /\ sarg' = sarg
          /\ preamble' = preamble /\ visitors' = visitors /\ lastId' = lastId
          /\ func' = func /\ phi' = phi /\ current' = current /\ actual' = actual /\ stale' = stale
      BY <2>4 DEF Skip, funcVars, ssaRunVars
    <3>2. Renaming /\ Idle /\ Ground(func, phi)
      BY <3>1, GroundHolds DEF Inv
    <3>3. /\ StackInv(func, phi, code, sarg, visitors, lastId, stack', vers')
          /\ vers' \in 0 .. lastId /\ stack' # <<>>
      BY <2>4, <3>2, SkipStack
    <3>4. Renaming' /\ Idle'
      BY <3>1, <3>2, <3>3 DEF Renaming, Idle
    <3> QED BY <3>1, <3>4 DEF Inv
  <2>5. CASE LeaveBlock
    <3>1. /\ ssaPhase = "rename" /\ code' = code /\ sarg' = sarg /\ vers' = vers
          /\ preamble' = preamble /\ visitors' = visitors /\ lastId' = lastId
          /\ func' = func /\ phi' = phi /\ current' = current /\ actual' = actual /\ stale' = stale
          /\ stack # <<>> /\ Top.todo = <<>> /\ stack' = Below
          /\ Below = <<>> => ssaPhase' = "run"
          /\ Below # <<>> => ssaPhase' = ssaPhase
      BY <2>5 DEF LeaveBlock, funcVars
    <3>2. Renaming /\ Idle /\ Ground(func, phi)
      BY <3>1, GroundHolds DEF Inv
    <3>3. CASE Below = <<>>
      <4>1. /\ stack' = <<>> /\ env' \in [0 .. lastId -> SsaValue]
            /\ \A b \in Block : visitors[b] # {} => \A x \in SuccOf(func)[b] : b \in visitors[x]
            /\ env'[InVer(func, phi, code, sarg, Entry)] = 0
        BY <2>5, <3>2, <3>3, RunStarts
      <4>2. current = Entry /\ actual = 0 /\ stale = FALSE /\ Entry \in Block /\ visitors[Entry] # {}
        BY <3>2, SourceFacts DEF Idle, Renaming
      <4>3. Holds(current)'
        BY <3>1, <4>1, <4>2 DEF Holds, SsaValue
      <4>4. Running'
        BY <3>1, <3>2, <4>1, <4>2, <4>3 DEF Running, Renaming
      <4> QED BY <3>1, <3>3, <4>4 DEF Inv
    <3>4. CASE Below # <<>>
      <4>1. Below = Rest(stack) /\ stack[Len(stack)].todo = <<>>
        BY <3>1, StackForms
      <4>2. StackInv(func, phi, code, sarg, visitors, lastId, stack', vers)
        BY <3>1, <3>2, <4>1, ReturnKeeps DEF Renaming, CodeInv
      <4>3. Renaming' /\ Idle'
        BY <3>1, <3>2, <3>4, <4>2 DEF Renaming, Idle
      <4> QED BY <3>1, <3>4, <4>3 DEF Inv
    <3> QED BY <3>3, <3>4
  <2>6. CASE RunSsaBlock
    <3>1. /\ ssaPhase = "run" /\ ssaPhase' = "run" /\ code' = code /\ sarg' = sarg /\ vers' = vers
          /\ preamble' = preamble /\ visitors' = visitors /\ lastId' = lastId
          /\ func' = func /\ phi' = phi /\ stack' = stack
      BY <2>6 DEF RunSsaBlock, funcVars, ssaPassVars
    <3>2. Running /\ Ground(func, phi) /\ succs = SuccOf(func)
      BY <3>1, GroundHolds DEF Inv
    <3>3. /\ env' \in [0 .. lastId -> SsaValue] /\ actual' \in SsaValue /\ stale' = FALSE
          /\ current' \in Block /\ visitors[current'] # {}
          /\ env'[InVer(func, phi, code, sarg, current')] = actual'
      BY <2>6, <3>2, RunKeeps
    <3>4. Holds(current)'
      BY <3>1, <3>3 DEF Holds
    <3>5. Running'
      BY <3>1, <3>2, <3>3, <3>4 DEF Running
    <3> QED BY <3>1, <3>5 DEF Inv
  <2>7. CASE RunSsaLast
    <3>1. /\ ssaPhase = "run" /\ ssaPhase' = "returned" /\ code' = code /\ sarg' = sarg /\ vers' = vers
          /\ preamble' = preamble /\ visitors' = visitors /\ lastId' = lastId
          /\ func' = func /\ phi' = phi /\ stack' = stack /\ stale' = (stale \/ StaleIn(current))
      BY <2>7 DEF RunSsaLast, funcVars, ssaPassVars
    <3>2. Running /\ Ground(func, phi)
      BY <3>1, GroundHolds DEF Inv
    <3>3. stale' = FALSE
      <4>1. ~StaleIn(current)
        BY <3>1, <3>2, NothingStale DEF Running
      <4> QED BY <3>1, <3>2, <4>1 DEF Running
    <3>4. Running'
      BY <3>1, <3>2, <3>3 DEF Running
    <3> QED BY <3>1, <3>4 DEF Inv
  <2>8. CASE UNCHANGED ssaVars
    <3>1. /\ ssaPhase' = ssaPhase /\ code' = code /\ sarg' = sarg /\ vers' = vers
          /\ preamble' = preamble /\ visitors' = visitors /\ lastId' = lastId
          /\ func' = func /\ phi' = phi /\ stack' = stack
          /\ current' = current /\ actual' = actual /\ stale' = stale /\ env' = env
      BY <2>8 DEF ssaVars, funcVars, ssaPassVars, ssaRunVars
    <3>2. Untouched' <=> Untouched
      BY <3>1 DEF Untouched
    <3>3. Idle' <=> Idle
      BY <3>1 DEF Idle
    <3>4. Renaming' <=> Renaming
      BY <3>1 DEF Renaming
    <3>5. Running' <=> Running
      BY <3>1 DEF Running, Holds
    <3> QED BY <3>1, <3>2, <3>3, <3>4, <3>5 DEF Inv
  <2> QED BY <2>1, <2>2, <2>3, <2>4, <2>5, <2>6, <2>7, <2>8 DEF SsaNext
<1> QED
  BY <1>1, <1>2, PhiInvariant, PTL DEF SsaSpec

(* On every path through the renamed function every use reads, through the *)
(* copies of the phi functions, what the last definition of the variable   *)
(* made: HIR_SSA_rename keeps the meaning of every function it may be      *)
(* given.                                                                  *)
THEOREM UsesAreRight ==
    ASSUME \A p \in SsaPrograms : Given(p)
    PROVE  SsaSpec => []UsesSeeLastDefinition
<1>1. Inv => UsesSeeLastDefinition
  BY DEF Inv, Idle, Running, UsesSeeLastDefinition, PhiInv, Phases
<1> QED
  BY <1>1, Invariance, PTL

LEMMA CodeIsTyped ==
    ASSUME Ground(func, phi), CodeInv(func, phi, code, sarg, preamble, visitors, lastId),
           NEW b \in Block
    PROVE  /\ \A i \in DOMAIN code[b] : code[b][i].ver \in 0 .. lastId
           /\ \A i \in DOMAIN preamble[b] :
                  preamble[b][i][1] \in {sarg[s] : s \in SuccOf(func)[b]} \ {NULL}
<1>1. /\ lastId \in Nat /\ Codes(func, code) /\ preamble[b] \in Seq(Nat \X Nat)
      /\ visitors[b] = {} => Blank(code, sarg, b)
      /\ visitors[b] # {} => Done(func, phi, code, sarg, lastId, b)
      /\ \A x \in Block : visitors[x] # {} => Done(func, phi, code, sarg, lastId, x)
      /\ CopiesDone(func, phi, code, sarg, preamble, visitors, b)
  BY DEF CodeInv
<1>2. ASSUME NEW i \in DOMAIN code[b] PROVE code[b][i].ver \in 0 .. lastId
  <2>1. i \in 1 .. Len(code[b])
    BY <1>1, CodesParts
  <2>2. CASE visitors[b] = {}
    BY <1>1, <2>1, <2>2 DEF Blank, Base
  <2>3. CASE visitors[b] # {}
    <3>1. code[b][i].ver \in 1 .. lastId
      BY <1>1, <2>1, <2>3 DEF Done
    <3> QED BY <1>1, <3>1
  <2> QED BY <2>2, <2>3
<1>3. ASSUME NEW i \in DOMAIN preamble[b]
      PROVE  preamble[b][i][1] \in {sarg[s] : s \in SuccOf(func)[b]} \ {NULL}
  <2>1. PICK z : z = preamble[b][i]
    OBVIOUS
  <2>2. i \in 1 .. Len(preamble[b])
    BY <1>1
  <2>3. CopyOf(func, phi, code, sarg, visitors, b, z)
    BY <1>1, <2>1, <2>2 DEF CopiesDone
  <2>4. PICK s \in SuccOf(func)[b] \intersect phi :
            visitors[s] # {} /\ z = <<sarg[s], OutVer(func, phi, code, sarg, b)>>
    BY <2>3 DEF CopyOf
  <2>5. z[1] = sarg[s] /\ s \in Block
    BY <2>4 DEF Ground
  <2>6. sarg[s] \in 1 .. lastId
    BY <1>1, <2>4, <2>5 DEF Done
  <2>7. sarg[s] # NULL
    BY <1>1, <2>6 DEF NULL
  <2> QED BY <2>1, <2>4, <2>5, <2>7
<1> QED
  BY <1>2, <1>3

LEMMA StackIsTyped ==
    ASSUME Ground(func, phi), StackInv(func, phi, code, sarg, visitors, lastId, stack, vers),
           NEW k \in DOMAIN stack
    PROVE  /\ stack[k].saved \in 0 .. lastId
           /\ \A j \in DOMAIN stack[k].todo : stack[k].todo[j] \in SuccOf(func)[stack[k].block]
<1>1. stack \in Seq(Act) /\ k \in 1 .. Len(stack)
  BY DEF StackInv, Acts
<1>2. PICK r : r = stack[k]
  OBVIOUS
<1>3. r \in Act /\ r.saved \in 0 .. lastId /\ Left(func, r.block, r.todo)
  BY <1>1, <1>2 DEF StackInv, Acts
<1>4. PICK b, t : b = r.block /\ t = r.todo
  OBVIOUS
<1>5. b \in Block /\ Left(func, b, t) /\ SuccOf(func)[b] = {func.l[b], func.jmp[b]} \ {NULL}
  BY <1>3, <1>4 DEF Act, SuccOf
<1>6. ASSUME NEW j \in DOMAIN t PROVE t[j] \in SuccOf(func)[b]
  <2>1. CASE t = <<>>
    BY <2>1
  <2>2. CASE TwoArms(func, b) /\ t = <<func.l[b]>>
    BY <1>5, <2>2 DEF TwoArms
  <2>3. CASE t = ArmsOf(func, b)
    BY <1>5, <2>3 DEF ArmsOf, TwoArms
  <2> QED BY <1>5, <2>1, <2>2, <2>3 DEF Left
<1> QED
  BY <1>2, <1>3, <1>4, <1>6

(* Every version the renaming ever names is one VRTB_add_copy has made,    *)
(* every copy at the end of a block goes to a phi function of a successor, *)
(* and what is left of a visit are arms of its block.                      *)
THEOREM SsaTypeCorrect ==
    ASSUME \A p \in SsaPrograms : Given(p)
    PROVE  SsaSpec => []SsaTypeOK
<1>1. ASSUME Inv PROVE SsaTypeOK
  <2>1. CASE ssaPhase \in {"insert", "visit entry"}
    <3>1. Untouched /\ Given(func)
      BY <1>1, <2>1 DEF Inv, PhiInv
    <3>2. /\ lastId = 0 /\ vers = 0 /\ stack = <<>> /\ preamble = [b \in Block |-> <<>>]
          /\ Codes(func, code) /\ \A b \in Block : Blank(code, sarg, b)
      BY <3>1 DEF Untouched, Base
    <3>3. ASSUME NEW b \in Block
          PROVE  /\ \A i \in DOMAIN code[b] : code[b][i].ver \in 0 .. lastId
                 /\ DOMAIN preamble[b] = {}
      <4>1. code[b] \in Seq([op : {"use", "def"}, ver : Nat])
        BY <3>2 DEF Codes
      <4> QED BY <3>2, <4>1 DEF Blank, Base
    <3> QED BY <3>2, <3>3 DEF SsaTypeOK
  <2>2. CASE ssaPhase \notin {"insert", "visit entry"}
    <3>1. Ground(func, phi) /\ succs = SuccOf(func)
      BY <1>1, <2>2, GroundHolds DEF Inv
    <3>2. /\ CodeInv(func, phi, code, sarg, preamble, visitors, lastId) /\ vers \in 0 .. lastId
          /\ stack # <<>> => StackInv(func, phi, code, sarg, visitors, lastId, stack, vers)
      BY <1>1, <2>2 DEF Inv, Renaming, Running, PhiInv, Phases
    <3>3. lastId \in Nat
      BY <3>2 DEF CodeInv
    <3>4. \A b \in Block :
              /\ \A i \in DOMAIN code[b] : code[b][i].ver \in 0 .. lastId
              /\ \A i \in DOMAIN preamble[b] :
                     preamble[b][i][1] \in {sarg[s] : s \in succs[b]} \ {NULL}
      BY <3>1, <3>2, CodeIsTyped
    <3>5. \A k \in DOMAIN stack :
              /\ stack[k].saved \in 0 .. lastId
              /\ \A j \in DOMAIN stack[k].todo : stack[k].todo[j] \in succs[stack[k].block]
      <4>1. CASE stack = <<>>
        BY <4>1
      <4>2. CASE stack # <<>>
        BY <3>1, <3>2, <4>2, StackIsTyped
      <4> QED BY <4>1, <4>2
    <3> QED BY <3>2, <3>3, <3>4, <3>5 DEF SsaTypeOK
  <2> QED BY <2>1, <2>2
<1> QED
  BY <1>1, Invariance, PTL
==============================================================================
