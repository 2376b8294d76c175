-------------------------- MODULE FunctionConstants --------------------------
(***************************************************************************)
(* Propagation of constants across calls (src/hir/constfold/funcfold.c)    *)
(* and the loop of the builder that repeats it.  A parameter that every    *)
(* call passes the same known value is no longer loaded but set to it; the *)
(* result of a call of a function that returns a known value is known.     *)
(* Either makes further arguments known, of other functions too.           *)
(*                                                                         *)
(* Only calls, parameters and returned values are kept of a program.  What *)
(* is passed or returned is a constant, a parameter of the function around *)
(* it, the result of a call, or a value nothing is known of.  What         *)
(* HIR_sparse_const_propagation carries from one variable of a function to *)
(* another is part of naming them alike, and a function has one variable   *)
(* for the results of its calls of another.                                *)
(***************************************************************************)
EXTENDS Integers, FiniteSets

CONSTANTS
    NF,         \* number of functions, in the order of cctx->funcs
    Value,      \* the values of constants
    Programs

Func == 1..NF
Unknown == -1

(* What an HIR subject denotes: kind, the function it belongs to, number.  *)
Const(v)     == [kind |-> "const",  of |-> 0, n |-> v]
Param(g, p)  == [kind |-> "param",  of |-> g, n |-> p]
Result(g, c) == [kind |-> "result", of |-> g, n |-> c]     \* of a call of g in c
Input        == [kind |-> "input",  of |-> 0, n |-> 0]

(* A program: the parameters every function loads, the calls, and what     *)
(* every function returns.                                                 *)
Subjects(pr) ==
    {Const(v) : v \in Value} \union {Input}
    \union (UNION {{Param(g, p) : p \in pr.loads[g]} : g \in Func})
    \union {Result(g, c) : g \in Func, c \in Func}
WellFormed(pr) ==
    LET subjects == Subjects(pr)
    IN  /\ pr.loads \in [Func -> SUBSET (Nat \ {0})]
        /\ pr.ret \in [Func -> subjects]
        /\ \A s \in pr.sites :
            /\ s.caller \in Func /\ s.callee \in Func
            /\ \A p \in pr.loads[s.callee] : s.args[p] \in subjects

ASSUME ProgramsAssumption ==
    NF \in Nat /\ Unknown \notin Value /\ \A pr \in Programs : WellFormed(pr)

VARIABLES
    prog,       \* loads: the parameters g loads, by number; sites; ret
    load,       \* the parameters whose HIR_FARGLD is still one
    def,        \* vdi.definition of the parameters
    res,        \* vdi.definition of the results: res[c][g] of the calls of g in c
    phase,      \* "params", "returns" or "done"
    fn,         \* fb of the running loop
    param,      \* how far its instructions are passed
    index,      \* param_index
    folded      \* the builder's `folded`

vars == <<prog, load, def, res, phase, fn, param, index, folded>>

ValueOf(a) ==
    CASE a.kind = "const"  -> a.n
      [] a.kind = "param"  -> def[a.of][a.n]
      [] a.kind = "result" -> res[a.n][a.of]
      [] a.kind = "input"  -> Unknown

Init ==
    /\ prog \in Programs
    /\ load = prog.loads
    /\ def  = [g \in Func |-> [p \in prog.loads[g] |-> Unknown]]
    /\ res  = [c \in Func |-> [g \in Func |-> Unknown]]
    /\ phase = "params" /\ fn = 1 /\ param = 1 /\ index = 1
    /\ folded = FALSE

(* _register_fcalls sees the calls by name only.                           *)
Calls(g) == {s \in prog.sites : s.callee = g /\ s.direct}

(* The list _register_params leaves for g: at each place the argument of   *)
(* all calls, or NULL where two differ.                                    *)
RegisteredFirst(g, i) ==
    IF Calls(g) = {} THEN {} ELSE {(CHOOSE s \in Calls(g) : TRUE).args[i]}
Registered(g, i) ==
    {a \in {s.args[i] : s \in Calls(g)} : \A s \in Calls(g) : s.args[i] = a}

Loads(g) == {p \in load[g] : p >= param}

(* The next HIR_FARGLD of fn takes the next registered argument, whichever *)
(* parameter it loads.                                                     *)
PropagateParam ==
    /\ phase = "params" /\ fn \in Func /\ Loads(fn) # {}
    /\ LET p == CHOOSE q \in Loads(fn) : \A r \in Loads(fn) : q <= r
           known == {v \in {ValueOf(a) : a \in Registered(fn, index)} : v # Unknown}
       IN  /\ param' = p + 1
           /\ IF known = {}
              THEN UNCHANGED <<load, def, folded>>
              ELSE \E v \in known :
                    /\ load' = [load EXCEPT ![fn] = @ \ {p}]
                    /\ def'  = [def EXCEPT ![fn][p] = IF @ = Unknown THEN v ELSE @]
                    /\ folded' = TRUE
    /\ index' = index + 1
    /\ UNCHANGED <<prog, res, phase, fn>>

NextFunction ==
    /\ phase = "params" /\ fn \in Func /\ Loads(fn) = {}
    /\ fn' = fn + 1 /\ param' = 1 /\ index' = 1
    /\ UNCHANGED <<prog, load, def, res, phase, folded>>

ParamsDone ==
    /\ phase = "params" /\ fn = NF + 1
    /\ phase' = "returns" /\ fn' = 1
    /\ UNCHANGED <<prog, load, def, res, param, index, folded>>

(* The calls in function c whose result is learnt: a call by name of a     *)
(* function that returns a known value, its result not known yet           *)
(* (VRTB_update_definition without `rewrite`).  prog.ret is Input for a    *)
(* function that does not end in exactly one HIR_FRET.                     *)
Called(c) == {s.callee : s \in {t \in prog.sites : t.caller = c /\ t.direct}}
LearntAgain(c) == {g \in Called(c) : ValueOf(prog.ret[g]) # Unknown}
Learnt(c) ==
    {g \in Called(c) : ValueOf(prog.ret[g]) # Unknown /\ res[c][g] = Unknown}

ResultOf(fs) == [g \in Func |-> IF g \in fs THEN ValueOf(prog.ret[g]) ELSE res[fn][g]]

PropagateReturn ==
    /\ phase = "returns" /\ fn \in Func
    /\ res' = [res EXCEPT ![fn] = ResultOf(Learnt(fn))]
    /\ folded' = (folded \/ Learnt(fn) # {})
    /\ fn' = fn + 1
    /\ UNCHANGED <<prog, load, def, phase, param, index>>

AgainOnce ==
    /\ phase = "returns" /\ fn = NF + 1 /\ folded
    /\ phase' = "done"
    /\ UNCHANGED <<prog, load, def, res, fn, param, index, folded>>
Again ==
    /\ phase = "returns" /\ fn = NF + 1 /\ folded
    /\ phase' = "params" /\ fn' = 1 /\ folded' = FALSE
    /\ UNCHANGED <<prog, load, def, res, param, index>>

Done ==
    /\ phase = "returns" /\ fn = NF + 1 /\ ~folded
    /\ phase' = "done"
    /\ UNCHANGED <<prog, load, def, res, fn, param, index, folded>>

Next ==
    \/ PropagateParam \/ NextFunction \/ ParamsDone
    \/ PropagateReturn \/ Again \/ Done

Spec     == Init /\ [][Next]_vars
FairSpec == Spec /\ WF_vars(Next)
-----------------------------------------------------------------------------
TypeOK ==
    /\ \A g \in Func : load[g] \subseteq prog.loads[g]
    /\ \A g \in Func : \A p \in prog.loads[g] : def[g][p] \in Value \union {Unknown}
    /\ res \in [Func -> [Func -> Value \union {Unknown}]]
    /\ phase \in {"params", "returns", "done"}
    /\ fn \in 1..(NF + 1) /\ folded \in BOOLEAN

(* A parameter is set to a value only if every call passes that value,     *)
(* each argument evaluated with the same knowledge; so no run of the       *)
(* program, however its calls nest, sees another value there.              *)
ParamsArePassed ==
    \A s \in prog.sites : \A p \in prog.loads[s.callee] :
        def[s.callee][p] # Unknown => ValueOf(s.args[p]) = def[s.callee][p]

(* The result of a call is known only as the value the function returns.   *)
ResultsAreReturned ==
    \A c, g \in Func : res[c][g] # Unknown => ValueOf(prog.ret[g]) = res[c][g]

(* When the loop ends nothing is left to propagate, in whatever order the  *)
(* functions stand and however long the chain of calls is.                 *)
NothingLeft ==
    phase = "done" =>
        \A g \in Func :
            /\ \A p \in load[g] : \A a \in Registered(g, p) : ValueOf(a) = Unknown
            /\ \A h \in Called(g) : res[g][h] = ValueOf(prog.ret[h])

(* What is known of parameters and results is what every call passes and   *)
(* every function returns, and when the loop of the builder ends nothing   *)
(* is left to propagate (funcfold.c, builder.c).                           *)
FoldedIsWhatEveryCallPasses == ParamsArePassed /\ ResultsAreReturned /\ NothingLeft

(* The loop of the builder ends, recursion among the functions or not.     *)
Terminates == <>(phase = "done")
=============================================================================
