------------------------------ MODULE MCLirPasses ------------------------------
(* TLC instances of the passes that turn the LIR of a function into its    *)
(* last form: the way from LIR to instructions (BackEnd), the order of the *)
(* phi moves (PhiMoves) and the peephole optimiser (Peephole).  An initial *)
(* state chooses the pass and its input; of the others PhiMoves stands at  *)
(* an empty group and the variables of the rest at NoValue.                *)
EXTENDS PhiMoves, TLC, FiniteSets

CONSTANTS
    PassesRun,          \* the passes to run: "phi", "back end", "peephole"
    Longest,            \* bound on the length of a group of moves
    r1, r2, r3, r4,     \* registers
    BackEndParts, PeepholeParts, MaxRounds

NoValue == "no value"
RegisterOrder == <<r1, r2, r3, r4>>

VARIABLES
    pass,
    job, meaning, f, step, order,                       \* BackEnd
    orig, shown, p, stage, at, rounds           \* Peephole

backVars == <<job, meaning, f, step, order>>
peepVars == <<orig, shown, p, stage, at, rounds>>
allVars == <<pass, vars, backVars, peepVars>>
BackIdle ==
    job = NoValue /\ meaning = NoValue /\ f = NoValue /\ step = NoValue /\ order = NoValue
PeepIdle ==
    /\ orig = NoValue /\ shown = NoValue /\ p = NoValue /\ stage = NoValue
    /\ at = NoValue /\ rounds = NoValue
-----------------------------------------------------------------------------
(* Groups whose destinations are all different, as the phi functions of    *)
(* one block are, in every order, in which no variable without register is *)
(* written next to a constant or another such variable: they all have the  *)
(* register -1.  No register means more than another, so the registers of  *)
(* a group are taken in the order of RegisterOrder.                        *)
Mentioned(s) == {m.dst : m \in Range(s)} \union {m.src : m \in Range(s)}
IsNext(x, used) ==
    x \in Register => x \in used \/ x = RegisterOrder[1 + Cardinality(used \intersect Register)]
MayJoin(m, s) ==
    /\ \A i \in DOMAIN s : s[i].dst # m.dst
    /\ IsNext(m.dst, Mentioned(s)) /\ IsNext(m.src, Mentioned(s) \union {m.dst})
    /\ \/ m.dst \in Register /\ \A i \in DOMAIN s : s[i].dst \in Register
       \/ Cardinality(Mentioned(Append(s, m)) \ Register) =< 1
GroupsUpTo[n \in 0 .. Longest] ==
    IF n = 0 THEN {<<>>}
    ELSE GroupsUpTo[n - 1] \union
         {Append(sm[1], sm[2]) :
             sm \in {x \in GroupsUpTo[n - 1] \X Move : Len(x[1]) = n - 1 /\ MayJoin(x[2], x[1])}}
AllGroups == GroupsUpTo[Longest]

(* Integers of two, three, four and five bits.                             *)
WordBits == [size \in {1, 2, 4, 8} |-> CASE size = 1 -> 2 [] size = 2 -> 3 [] size = 4 -> 4 [] OTHER -> 5]
BackEnds == INSTANCE BackEndFunctions WITH Part <- BackEndParts, Bits <- WordBits
Peepholes == INSTANCE PeepholeFunctions WITH Part <- PeepholeParts, Bits <- WordBits

AllInit ==
    /\ pass \in PassesRun
    /\ \/ pass = "phi" /\ Init /\ BackIdle /\ PeepIdle
       \/ pass = "back end" /\ BackEnds!Back!Init /\ group = <<>> /\ PeepIdle
       \/ pass = "peephole" /\ Peepholes!Pass!Init /\ group = <<>> /\ BackIdle
    /\ pass # "phi" => taken = <<>> /\ status = "sorted"

AllNext ==
    \/ pass = "phi" /\ Next /\ UNCHANGED <<pass, backVars, peepVars>>
    \/ pass = "back end" /\ BackEnds!Back!Next /\ UNCHANGED <<pass, vars, peepVars>>
    \/ pass = "peephole" /\ Peepholes!Pass!Next /\ UNCHANGED <<pass, vars, backVars>>

AllSpec == AllInit /\ [][AllNext]_allVars
-----------------------------------------------------------------------------
(* Back end (tco.c, copyprop.c, selector): after every step the function   *)
(* shows the outside what its LIR means.                                   *)
KeepsMeaning == pass = "back end" => BackEnds!Back!KeepsMeaning

(* Peephole (peephole.c): after every pass the function shows the outside  *)
(* what it showed before the first.                                        *)
KeepsResults == pass = "peephole" => Peepholes!Pass!KeepsResults

(* Peephole: when the rounds end, one more changes no instruction, even    *)
(* where they end at the limit.                                            *)
Settles == pass = "peephole" => Peepholes!Pass!Settles
=============================================================================
