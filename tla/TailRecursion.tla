---------------------------- MODULE TailRecursion ----------------------------
(* HIR_FUNC_perform_tre (src/hir/func/tre.c) on one function with two      *)
(* parameters.  Its body branches, on what the module leaves open, to one  *)
(* of the blocks without a successor, the only ones the pass looks at.     *)
(*                                                                         *)
(* After the pass the function runs twice: `source` is its code before,    *)
(* `target` its code after; the second run takes the branches of the       *)
(* first.  The log of a run is what it was seen to do.                     *)
(***************************************************************************)
EXTENDS Naturals, Sequences

CONSTANTS
    TailFunctions,  \* sequences of blocks, each a sequence of instructions
    Entries         \* the last entry of the body takes block 1, which returns

VARIABLES
    source, target,
    next,       \* the next block of the foreach loop
    side,       \* "pass", then the run that is on, then "done"
    frames,     \* its activations, the innermost last
    choices,    \* the blocks the source run took
    taken,      \* how many of them the run has taken
    log         \* what the two runs did

passVars == <<source, target, next>>
runVars == <<side, frames, choices, taken, log>>
treVars == <<passVars, runVars>>

Params == 1 .. 2
Initial == <<1, 4>>

TreInit ==
    /\ source \in TailFunctions
    /\ target = source
    /\ next = 1
    /\ side = "pass" /\ frames = <<>> /\ choices = <<>> /\ taken = 0
    /\ log = [source |-> <<>>, target |-> <<>>]
---------------------------------------------------------------------------
(* The climb from the exit of the block over what ends a function.         *)
Above == {"fend", "endscope", "ret"}
TailOfUnclimbed(c) == Len(c)
TailOf(c) == CHOOSE i \in 1 .. Len(c) :
    /\ i = 1 \/ c[i].op \notin Above
    /\ \A j \in i + 1 .. Len(c) : c[j].op \in Above

IsSelfCallAny(i) == i.op = "call"
IsSelfCall(i) == i.op = "call" /\ i.self

Stores(args) == [p \in Params |-> [op |-> "store", to |-> p, arg |-> args[p]]]

(* The parameters are stored one after the other, then comes the jump to   *)
(* the label in front of the body; the call is unused from here on.        *)
Looped(c, i) ==
    SubSeq(c, 1, i - 1) \o Stores(c[i].args) \o <<[op |-> "jmp"], [op |-> "unused"]>>
    \o SubSeq(c, i + 1, Len(c))

Eliminate ==
    /\ side = "pass" /\ next =< Len(source)
    /\ LET i == TailOf(target[next])
       IN  /\ IsSelfCall(target[next][i])
           /\ target' = [target EXCEPT ![next] = Looped(@, i)]
    /\ next' = next + 1
    /\ UNCHANGED <<source, runVars>>

LeaveAlone ==
    /\ side = "pass" /\ next =< Len(source)
    /\ ~IsSelfCall(target[next][TailOf(target[next])])
    /\ next' = next + 1
    /\ UNCHANGED <<source, target, runVars>>
---------------------------------------------------------------------------
(* The two runs.  Block 0 is the start of the body.  `tmp` holds what the  *)
(* block computed from the parameters before the call.                     *)
Frame(v) == [block |-> 0, pc |-> 1, var |-> v, tmp |-> v, result |-> 0]
Code == IF side = "source" THEN source ELSE target
Top == frames[Len(frames)]
Below == SubSeq(frames, 1, Len(frames) - 1)
Instr == Code[Top.block][Top.pc]
Runs(op) == /\ side \in {"source", "target"} /\ frames # <<>> /\ Top.block # 0
            /\ Instr.op = op
GoOn(f) == frames' = Append(Below, [f EXCEPT !.pc = @ + 1])
ArgumentOf(arg) == IF arg.kind = "variable" THEN Top.var[arg.p] ELSE Top.tmp[arg.p]
Seen(event) == log' = [log EXCEPT ![side] = Append(@, event)]

StartSource ==
    /\ side = "pass" /\ next > Len(source)
    /\ side' = "source" /\ frames' = <<Frame(Initial)>>
    /\ UNCHANGED <<passVars, choices, taken, log>>

EnterAs(b) ==
    /\ frames' = Append(Below, [Top EXCEPT !.block = b, !.pc = 1,
                                    !.tmp = [p \in Params |-> Top.var[p] + 1]])
    /\ taken' = taken + 1
    /\ UNCHANGED <<passVars, side, log>>

(* The last entry takes block 1, which does not call.                      *)
EnterSource ==
    /\ side = "source" /\ frames # <<>> /\ Top.block = 0
    /\ \E b \in DOMAIN source :
           /\ taken + 1 >= Entries => b = 1
           /\ EnterAs(b)
           /\ choices' = Append(choices, b)

EnterTarget ==
    /\ side = "target" /\ frames # <<>> /\ Top.block = 0
    /\ taken < Len(choices)
    /\ EnterAs(choices[taken + 1])
    /\ UNCHANGED choices

Use ==
    /\ Runs("use")
    /\ Seen(Top.var)
    /\ GoOn(Top)
    /\ UNCHANGED <<passVars, side, choices, taken>>

Call ==
    /\ Runs("call")
    /\ LET v == [p \in Params |-> ArgumentOf(Instr.args[p])]
       IN  IF Instr.self
           THEN /\ frames' = Append(frames, Frame(v))
                /\ UNCHANGED log
           ELSE /\ Seen(v)
                /\ GoOn([Top EXCEPT !.result = v[1]])
    /\ UNCHANGED <<passVars, side, choices, taken>>

Store ==
    /\ Runs("store")
    /\ GoOn([Top EXCEPT !.var[Instr.to] = ArgumentOf(Instr.arg)])
    /\ UNCHANGED <<passVars, side, choices, taken, log>>

Jump ==
    /\ Runs("jmp")
    /\ frames' = Append(Below, [Top EXCEPT !.block = 0])
    /\ UNCHANGED <<passVars, side, choices, taken, log>>

Step ==
    /\ Runs("endscope")
    /\ GoOn(Top)
    /\ UNCHANGED <<passVars, side, choices, taken, log>>

(* HIR_FRET, or HIR_FEND of a function without a result.                   *)
Return ==
    /\ Runs("ret") \/ Runs("fend")
    /\ LET v == IF Instr.op = "fend" THEN 0
                ELSE IF Instr.what = "result" THEN Top.result ELSE Top.var[1]
       IN  IF Below # <<>>
           THEN /\ frames' = [Below EXCEPT ![Len(Below)].result = v,
                                          ![Len(Below)].pc = @ + 1]
                /\ UNCHANGED <<side, taken, log>>
           ELSE /\ Seen(<<v>>)
                /\ side' = IF side = "source" THEN "target" ELSE "done"
                /\ frames' = IF side = "source" THEN <<Frame(Initial)>> ELSE <<>>
                /\ taken' = 0
    /\ UNCHANGED <<passVars, choices>>

TreNext ==
    \/ Eliminate \/ LeaveAlone \/ StartSource \/ EnterSource \/ EnterTarget
    \/ Use \/ Call \/ Store \/ Jump \/ Step \/ Return

TreSpec == TreInit /\ [][TreNext]_treVars
---------------------------------------------------------------------------
(* What the pass may be given.  An instruction uses the parameters, passes *)
(* two of them or of the temporaries to this function or to another, or    *)
(* belongs to the end of a block.                                          *)
Arguments == [Params -> [kind : {"variable", "temporary"}, p : Params]]
Instruction ==
    [op : {"use", "endscope", "fend"}]
    \union [op : {"call"}, self : BOOLEAN, args : Arguments]
    \union [op : {"ret"}, what : {"result", "parameter"}]

Ends == {"ret", "fend"}
EndsAt(c, e) == c[e].op \in Ends /\ \A j \in 1 .. e - 1 : c[j].op \notin Ends
FirstEnd(c) == CHOOSE e \in 1 .. Len(c) : EndsAt(c, e)
LoopsBack(c) == IsSelfCall(c[TailOf(c)]) /\ TailOf(c) < FirstEnd(c)

(* No argument reads a parameter that an argument before it has changed.   *)
NotReadLater(args) ==
    ~(args[2].kind = "variable" /\ args[2].p = 1)
    \/ (args[1].kind = "variable" /\ args[1].p = 1)

(* Every block runs into an end, all ends return a value or none does,     *)
(* the result of a call is returned behind a call, and behind a call that  *)
(* becomes a jump nothing else is.                                         *)
Safe(f) ==
    /\ f \in Seq(Seq(Instruction))
    /\ \A b \in DOMAIN f : \E e \in 1 .. Len(f[b]) : EndsAt(f[b], e)
    /\ \E end \in Ends : \A b \in DOMAIN f : f[b][FirstEnd(f[b])].op = end
    /\ \A b \in DOMAIN f :
        LET c == f[b]
            last == c[FirstEnd(c)]
        IN  /\ last.op = "ret" /\ last.what = "result" =>
                   \E j \in 1 .. FirstEnd(c) - 1 : c[j].op = "call"
            /\ LoopsBack(c) => /\ NotReadLater(c[TailOf(c)].args)
                               /\ last.op = "ret" => last.what = "result"
---------------------------------------------------------------------------
(* The loop does what the recursion did, in the same order, with the same  *)
(* values, and returns the same: a call in tail position hands all its     *)
(* arguments on, every other call still returns into its caller.           *)
SameBehaviour ==
    /\ side = "target" => /\ Len(log.target) =< Len(log.source)
                          /\ log.target = SubSeq(log.source, 1, Len(log.target))
                          /\ Top.block = 0 => taken < Len(choices)
    /\ side = "done" => log.target = log.source

(* What the pass is for: where nothing but the end of the function follows *)
(* the self calls, the run needs one activation however often it recurses. *)
OnlyTailCalls == \A b \in DOMAIN source : \A i \in DOMAIN source[b] :
    IsSelfCall(source[b][i]) =>
        \A j \in i + 1 .. Len(source[b]) : source[b][j].op \in Above
StackStaysFlat == side = "target" /\ OnlyTailCalls => Len(frames) = 1
=============================================================================
