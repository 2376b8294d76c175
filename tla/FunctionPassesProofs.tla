------------------------- MODULE FunctionPassesProofs -------------------------
(***************************************************************************)
(* The passes over functions, for programs and functions of any size: the  *)
(* constants folded across calls, the tail calls that are made jumps, and  *)
(* the loops with their preheaders.                                        *)
(***************************************************************************)
EXTENDS FunctionConstants, TailRecursion, LoopTree, FlowGraphProofs

(***************************************************************************)
(* Constants across calls.  What funcfold.c folds is what every call       *)
(* passes and every function returns, and when the builder's loop ends     *)
(* nothing is left to fold, for any number of functions calling each other *)
(* in any way.                                                             *)
(*                                                                         *)
(* The argument: what is known of a parameter or of a result is never      *)
(* taken back, so what an argument was found to be it stays; and while a   *)
(* round has folded nothing, whatever it has passed has nothing to fold.   *)
(***************************************************************************)

(* Functions of one parameter that are called by name: with more the       *)
(* arguments are counted wrongly, and calls through a pointer are not      *)
(* among those compared.                                                   *)
Simple ==
    \A pr \in Programs :
        /\ \A g \in Func : pr.loads[g] \subseteq {1}
        /\ \A s \in pr.sites : s.direct

Known == Value \union {Unknown}

(* The state is well formed.                                               *)
Shape ==
    /\ prog \in Programs
    /\ load \in [Func -> SUBSET (Nat \ {0})]
    /\ def = [g \in Func |-> def[g]]
    /\ \A g \in Func : def[g] \in [prog.loads[g] -> Known]
    /\ param \in Nat /\ index \in Nat
    /\ TypeOK

LEMMA ValueKnown ==
    ASSUME Shape, NEW a \in Subjects(prog)
    PROVE  ValueOf(a) \in Known
<1> USE ProgramsAssumption
<1>1. CASE \E v \in Value : a = Const(v)
  BY <1>1 DEF Const, ValueOf, Known
<1>2. CASE a = Input
  BY <1>2 DEF Input, ValueOf, Known
<1>3. CASE \E g \in Func : \E p \in prog.loads[g] : a = Param(g, p)
  <2>0. PICK g \in Func : \E p \in prog.loads[g] : a = Param(g, p)
    BY <1>3
  <2>1. PICK p \in prog.loads[g] : a = Param(g, p)
    BY <2>0
  <2>2. ValueOf(a) = def[g][p]
    BY <2>1 DEF Param, ValueOf
  <2> QED BY <2>1, <2>2 DEF Shape, TypeOK, Known
<1>4. CASE \E g, c \in Func : a = Result(g, c)
  <2>1. PICK g \in Func, c \in Func : a = Result(g, c)
    BY <1>4
  <2>2. ValueOf(a) = res[c][g]
    BY <2>1 DEF Result, ValueOf
  <2> QED BY <2>1, <2>2 DEF Shape, TypeOK, Known
<1> QED BY <1>1, <1>2, <1>3, <1>4 DEF Subjects

(* What is known stays known.                                              *)
Grows ==
    /\ \A g \in Func : \A p \in prog.loads[g] : def[g][p] # Unknown => def'[g][p] = def[g][p]
    /\ \A c, g \in Func : res[c][g] # Unknown => res'[c][g] = res[c][g]

LEMMA ValueStays ==
    ASSUME Grows, NEW a \in Subjects(prog), ValueOf(a) # Unknown
    PROVE  ValueOf(a)' = ValueOf(a)
<1>1. CASE \E v \in Value : a = Const(v)
  BY <1>1 DEF Const, ValueOf
<1>2. CASE a = Input
  BY <1>2 DEF Input, ValueOf
<1>3. CASE \E g \in Func : \E p \in prog.loads[g] : a = Param(g, p)
  <2>0. PICK g \in Func : \E p \in prog.loads[g] : a = Param(g, p)
    BY <1>3
  <2>1. PICK p \in prog.loads[g] : a = Param(g, p)
    BY <2>0
  <2>2. ValueOf(a) = def[g][p] /\ ValueOf(a)' = def'[g][p]
    BY <2>1 DEF Param, ValueOf
  <2> QED BY <2>1, <2>2 DEF Grows
<1>4. CASE \E g, c \in Func : a = Result(g, c)
  <2>1. PICK g \in Func, c \in Func : a = Result(g, c)
    BY <1>4
  <2>2. ValueOf(a) = res[c][g] /\ ValueOf(a)' = res'[c][g]
    BY <2>1 DEF Result, ValueOf
  <2> QED BY <2>1, <2>2 DEF Grows
<1> QED BY <1>1, <1>2, <1>3, <1>4 DEF Subjects

LEMMA ArgumentsAreSubjects ==
    ASSUME Shape, NEW g \in Func, NEW p \in prog.loads[g], NEW a \in Registered(g, p)
    PROVE  a \in Subjects(prog)
BY ProgramsAssumption DEF Shape, WellFormed, Registered, Calls

LEMMA ReturnsAreSubjects ==
    ASSUME Shape, NEW g \in Func
    PROVE  prog.ret[g] \in Subjects(prog)
BY ProgramsAssumption DEF Shape, WellFormed

(* The parameter that is loaded next, and what it may be set to.           *)
NextLoad == CHOOSE q \in Loads(fn) : \A r \in Loads(fn) : q <= r
KnownArguments == {v \in {ValueOf(a) : a \in Registered(fn, index)} : v # Unknown}

(* The loads are counted as they are.                                      *)
Counting ==
    /\ index = param /\ param \in {1, 2}
    /\ phase # "params" \/ fn = NF + 1 => param = 1

(* A parameter that is still loaded has no value.                          *)
StillLoaded == \A g \in Func : \A p \in load[g] : def[g][p] = Unknown

(* While the round has folded nothing, what it has passed has nothing to   *)
(* fold.                                                                   *)
Unfoldable(g, p) == \A a \in Registered(g, p) : ValueOf(a) = Unknown
Round ==
    ~folded =>
        /\ phase = "params" =>
            \A g \in Func : \A p \in load[g] :
                g < fn \/ (g = fn /\ p < param) => Unfoldable(g, p)
        /\ phase = "returns" =>
            /\ \A g \in Func : \A p \in load[g] : Unfoldable(g, p)
            /\ \A c \in Func : c < fn => Learnt(c) = {}

(* Nothing of g is left to fold.                                           *)
Settled(g) ==
    /\ \A p \in load[g] : Unfoldable(g, p)
    /\ \A h \in Called(g) : res[g][h] = ValueOf(prog.ret[h])

IInv == /\ Shape /\ Counting /\ StillLoaded /\ Round
        /\ ParamsArePassed /\ ResultsAreReturned /\ NothingLeft

(* A program of one parameter loads the first or none.                     *)
LEMMA OneLoad ==
    ASSUME Simple, Shape, Counting, fn \in Func, Loads(fn) # {}
    PROVE  Loads(fn) = {1} /\ NextLoad = 1 /\ param = 1 /\ index = 1 /\ 1 \in load[fn]
<1>1. load[fn] \subseteq {1}
  BY DEF Simple, Shape, TypeOK
<1>2. Loads(fn) = {1} /\ param = 1
  BY <1>1 DEF Loads, Counting
<1>3. NextLoad = 1
  BY <1>2 DEF NextLoad
<1> QED BY <1>1, <1>2, <1>3 DEF Counting, Loads

LEMMA InitInv == ASSUME Simple, Init PROVE IInv
<1> USE ProgramsAssumption
<1>1. Shape
  <2>1. WellFormed(prog)
    BY DEF Init
  <2>3. \A g \in Func : def[g] \in [prog.loads[g] -> Known]
    BY DEF Init, Known
  <2>4. def = [g \in Func |-> def[g]]
    BY DEF Init
  <2>5. fn \in 1 .. (NF + 1) /\ param \in Nat /\ index \in Nat
    BY DEF Init
  <2>6. load \in [Func -> SUBSET (Nat \ {0})]
    BY <2>1 DEF Init, WellFormed
  <2>8. TypeOK
    <3>1. \A g \in Func : load[g] \subseteq prog.loads[g]
      BY DEF Init
    <3>2. \A g \in Func : \A p \in prog.loads[g] : def[g][p] \in Value \union {Unknown}
      BY <2>3 DEF Known
    <3>3. res \in [Func -> [Func -> Value \union {Unknown}]]
      BY DEF Init
    <3> QED BY <3>1, <3>2, <3>3, <2>5 DEF Init, TypeOK
  <2> QED BY <2>3, <2>4, <2>5, <2>6, <2>8 DEF Init, Shape
<1>2. Counting /\ StillLoaded
  BY DEF Init, Counting, StillLoaded
<1>3. Round
  <2>1. \A g \in Func : ~(g < fn)
    BY DEF Init, Func
  <2>2. load = prog.loads /\ phase = "params" /\ param = 1
    BY DEF Init
  <2>3. \A g \in Func : \A p \in load[g] : ~(p < param)
    BY <2>2, <1>1 DEF Shape
  <2> QED BY <2>1, <2>2, <2>3 DEF Round
<1>4. ParamsArePassed
  BY DEF Init, ParamsArePassed, WellFormed
<1>5. ResultsAreReturned /\ NothingLeft
  BY DEF Init, ResultsAreReturned, NothingLeft
<1> QED BY <1>1, <1>2, <1>3, <1>4, <1>5 DEF IInv

(* Where nothing that is known changes the properties of it stay.          *)
LEMMA Unchanged ==
    ASSUME UNCHANGED <<prog, def, res>>, NEW a
    PROVE  ValueOf(a)' = ValueOf(a)
BY DEF ValueOf

(* A step that knows more, and what it knows more rightly, keeps           *)
(* ParamsArePassed and ResultsAreReturned.                                 *)
LEMMA GrowthKeeps ==
    ASSUME Shape, Grows, prog' = prog, ParamsArePassed, ResultsAreReturned,
           \A s \in prog.sites : \A p \in prog.loads[s.callee] :
               def'[s.callee][p] # def[s.callee][p] =>
                   ValueOf(s.args[p]) = def'[s.callee][p],
           \A c, g \in Func : res'[c][g] # res[c][g] => ValueOf(prog.ret[g]) = res'[c][g]
    PROVE  ParamsArePassed' /\ ResultsAreReturned'
<1> USE ProgramsAssumption
<1>1. ParamsArePassed'
  <2> SUFFICES ASSUME NEW s \in prog.sites, NEW p \in prog.loads[s.callee],
                      def'[s.callee][p] # Unknown
               PROVE  ValueOf(s.args[p])' = def'[s.callee][p]
    BY DEF ParamsArePassed
  <2>1. s.args[p] \in Subjects(prog)
    BY DEF Shape, WellFormed
  <2>2. ValueOf(s.args[p]) = def'[s.callee][p]
    BY DEF ParamsArePassed
  <2> QED BY <2>1, <2>2, ValueStays
<1>2. ResultsAreReturned'
  <2> SUFFICES ASSUME NEW c \in Func, NEW g \in Func, res'[c][g] # Unknown
               PROVE  ValueOf(prog.ret[g])' = res'[c][g]
    BY DEF ResultsAreReturned
  <2>1. ValueOf(prog.ret[g]) = res'[c][g]
    BY DEF ResultsAreReturned
  <2> QED BY <2>1, ReturnsAreSubjects, ValueStays
<1> QED BY <1>1, <1>2

(* The steps that only move on.                                            *)
LEMMA MovingOnKeeps ==
    ASSUME Simple, IInv, NextFunction \/ ParamsDone \/ Again \/ Done \/ UNCHANGED vars
    PROVE  IInv'
<1> USE ProgramsAssumption DEF IInv
<1>1. UNCHANGED <<prog, load, def, res>>
  BY DEF NextFunction, ParamsDone, Again, Done, vars
<1>2. \A a : ValueOf(a)' = ValueOf(a)
  BY <1>1, Unchanged
<1>3. Shape'
  <2>1. fn' \in 1 .. (NF + 1) /\ phase' \in {"params", "returns", "done"} /\ folded' \in BOOLEAN
        /\ param' \in Nat /\ index' \in Nat
    <3>1. CASE NextFunction
      BY <3>1 DEF NextFunction, Shape, TypeOK, Func
    <3>2. CASE ParamsDone \/ Again
      <4>1. 1 \in 1 .. (NF + 1)
        OBVIOUS
      <4> QED BY <3>2, <4>1 DEF ParamsDone, Again, Shape, TypeOK
    <3>3. CASE Done \/ UNCHANGED vars
      BY <3>3 DEF Done, vars, Shape, TypeOK
    <3> QED BY <3>1, <3>2, <3>3
  <2> QED BY <1>1, <2>1 DEF Shape, TypeOK
<1>4. Counting'
  <2>1. CASE NextFunction
    BY <2>1 DEF NextFunction, Counting
  <2>2. CASE ParamsDone \/ Again
    BY <2>2 DEF ParamsDone, Again, Counting
  <2>3. CASE Done \/ UNCHANGED vars
    BY <2>3 DEF Done, vars, Counting
  <2> QED BY <2>1, <2>2, <2>3
<1>5. StillLoaded'
  BY <1>1 DEF StillLoaded
<1>6. ParamsArePassed' /\ ResultsAreReturned'
  BY <1>1, <1>2 DEF ParamsArePassed, ResultsAreReturned
<1>7. \A g, p : Unfoldable(g, p) => Unfoldable(g, p)'
  BY <1>1, <1>2 DEF Unfoldable, Registered, Calls
<1>8. \A c \in Func : Learnt(c)' = Learnt(c)
  BY <1>1, <1>2 DEF Learnt, Called
<1>9. Round'
  <2> SUFFICES ASSUME ~folded' PROVE Round'
    BY DEF Round
  <2>1. CASE NextFunction
    <3>1. fn \in Func /\ fn \in Nat /\ Loads(fn) = {} /\ phase' = "params" /\ fn' = fn + 1
      BY <2>1 DEF NextFunction, Func
    <3>2. \A p \in load[fn] : p < param
      <4>1. param \in Nat /\ load[fn] \subseteq Nat
        BY <3>1 DEF Shape
      <4> QED BY <3>1, <4>1 DEF Loads
    <3>3. ASSUME NEW g \in Func, NEW p \in load'[g], g < fn' \/ (g = fn' /\ p < param')
          PROVE  Unfoldable(g, p)'
      <4>1. p \in Nat /\ p >= 1 /\ param' = 1
        BY <1>1, <2>1 DEF NextFunction, Shape
      <4>2. g \in Nat /\ g < fn + 1
        BY <3>1, <3>3, <4>1 DEF Func
      <4>3. g < fn \/ g = fn
        BY <3>1, <4>2
      <4>4. Unfoldable(g, p)
        BY <1>1, <2>1, <3>2, <3>3, <4>3 DEF Round, NextFunction
      <4> QED BY <4>4, <1>7
    <3> QED BY <3>1, <3>3 DEF Round
  <2>2. CASE ParamsDone
    <3>1. \A g \in Func : g < fn
      BY <2>2 DEF ParamsDone, Func
    <3>2. \A g \in Func : \A p \in load'[g] : Unfoldable(g, p)'
      BY <1>1, <1>7, <2>2, <3>1 DEF Round, ParamsDone
    <3>3. \A c \in Func : ~(c < fn')
      BY <2>2 DEF ParamsDone, Func
    <3> QED BY <2>2, <3>2, <3>3 DEF Round, ParamsDone
  <2>3. CASE Again
    <3>1. fn' = 1 /\ phase' = "params" /\ param' = param
      BY <2>3 DEF Again
    <3>2. param = 1
      BY <2>3 DEF Again, Counting
    <3>3. \A g \in Func : \A p \in load'[g] : ~(g < fn' \/ (g = fn' /\ p < param'))
      BY <3>1, <3>2, <1>1 DEF Func, Shape
    <3> QED BY <3>1, <3>3 DEF Round
  <2>4. CASE Done
    BY <2>4 DEF Done, Round
  <2>5. CASE UNCHANGED vars
    BY <1>1, <1>7, <1>8, <2>5 DEF Round, vars
  <2> QED BY <2>1, <2>2, <2>3, <2>4, <2>5
<1>10. NothingLeft'
  <2>1. ASSUME NEW g \in Func, Settled(g) PROVE Settled(g)'
    <3>1. Called(g)' = Called(g)
      BY <1>1 DEF Called
    <3>2. \A h : ValueOf(prog.ret[h])' = ValueOf(prog.ret[h])
      BY <1>1, <1>2
    <3> QED BY <1>1, <1>7, <2>1, <3>1, <3>2 DEF Settled
  <2>2. ASSUME phase' = "done", NEW g \in Func PROVE Settled(g)
    <3>1. CASE Done
      <4>1. (\A p \in load[g] : Unfoldable(g, p)) /\ Learnt(g) = {}
        BY <3>1 DEF Done, Round, Func
      <4>2. ASSUME NEW h \in Called(g) PROVE res[g][h] = ValueOf(prog.ret[h])
        <5>1. CASE res[g][h] = Unknown
          BY <4>1, <5>1 DEF Learnt
        <5>2. CASE res[g][h] # Unknown
          <6>1. h \in Func
            BY DEF Called, Shape, WellFormed
          <6> QED BY <5>2, <6>1 DEF ResultsAreReturned
        <5> QED BY <5>1, <5>2
      <4> QED BY <4>1, <4>2 DEF Settled
    <3>2. CASE ~Done
      <4>1. phase = "done"
        BY <2>2, <3>2 DEF NextFunction, ParamsDone, Again, vars
      <4> QED BY <4>1 DEF NothingLeft, Settled, Unfoldable
    <3> QED BY <3>1, <3>2
  <2> QED BY <2>1, <2>2 DEF NothingLeft, Settled, Unfoldable
<1> QED BY <1>3, <1>4, <1>5, <1>6, <1>9, <1>10

(* A parameter is set, or passed over.                                     *)
LEMMA ParamKeeps ==
    ASSUME Simple, IInv, PropagateParam
    PROVE  IInv'
<1> USE ProgramsAssumption DEF IInv
<1>1. /\ phase = "params" /\ fn \in Func /\ NextLoad = 1 /\ param = 1 /\ index = 1
      /\ 1 \in load[fn] /\ Loads(fn) = {1}
  BY OneLoad DEF PropagateParam
<1>2. /\ param' = 2 /\ index' = 2 /\ UNCHANGED <<prog, res, phase, fn>>
      /\ IF KnownArguments = {} THEN UNCHANGED <<load, def, folded>>
         ELSE \E v \in KnownArguments :
                 /\ load' = [load EXCEPT ![fn] = @ \ {1}]
                 /\ def'  = [def EXCEPT ![fn][1] = IF @ = Unknown THEN v ELSE @]
                 /\ folded' = TRUE
  BY <1>1 DEF PropagateParam, NextLoad, KnownArguments
<1>3. Counting'
  BY <1>1, <1>2 DEF Counting, Func
<1>4. prog'.loads = prog.loads /\ 1 \in prog.loads[fn] /\ fn \in Nat
  BY <1>1, <1>2 DEF Shape, TypeOK, Func
<1>5. CASE KnownArguments = {}
  <2>1. UNCHANGED <<prog, load, def, res, phase, fn, folded>>
    BY <1>2, <1>5
  <2>2. \A a : ValueOf(a)' = ValueOf(a)
    BY <2>1, Unchanged
  <2>3. Shape'
    BY <1>2, <2>1 DEF Shape, TypeOK
  <2>4. StillLoaded' /\ ParamsArePassed' /\ ResultsAreReturned' /\ NothingLeft'
    BY <1>1, <2>1, <2>2 DEF StillLoaded, ParamsArePassed, ResultsAreReturned, NothingLeft
  <2>5. Unfoldable(fn, 1)
    BY <1>1, <1>5 DEF KnownArguments, Unfoldable
  <2>6. \A g, p : Unfoldable(g, p) => Unfoldable(g, p)'
    BY <2>1, <2>2 DEF Unfoldable, Registered, Calls
  <2>7. ASSUME ~folded, NEW g \in Func, NEW p \in load[g], g < fn \/ (g = fn /\ p < 2)
        PROVE  Unfoldable(g, p)
    <3>1. p = 1
      BY DEF Simple, Shape, TypeOK
    <3>2. CASE g < fn
      BY <1>1, <2>7, <3>2 DEF Round
    <3>3. CASE g = fn
      BY <2>5, <3>1, <3>3
    <3> QED BY <2>7, <3>2, <3>3
  <2>8. Round'
    BY <1>1, <1>2, <2>1, <2>6, <2>7 DEF Round
  <2> QED BY <1>3, <2>3, <2>4, <2>8
<1>6. CASE KnownArguments # {}
  <2>1. PICK v \in KnownArguments :
            /\ load' = [load EXCEPT ![fn] = @ \ {1}]
            /\ def'  = [def EXCEPT ![fn][1] = IF @ = Unknown THEN v ELSE @]
            /\ folded' = TRUE
    BY <1>2, <1>6
  <2>2. PICK a \in Registered(fn, 1) : v = ValueOf(a) /\ v # Unknown
    BY <1>1 DEF KnownArguments
  <2>3. v \in Value
    BY <1>4, <2>2, ArgumentsAreSubjects, <1>1, ValueKnown DEF Known
  <2>4. def[fn][1] = Unknown
    BY <1>1 DEF StillLoaded
  <2>5. def' = [def EXCEPT ![fn] = [def[fn] EXCEPT ![1] = v]]
    BY <1>1, <1>4, <2>1, <2>4 DEF Shape
  <2>6. \A g \in Func : \A p \in prog.loads[g] :
            def'[g][p] = IF g = fn /\ p = 1 THEN v ELSE def[g][p]
    BY <2>5, <1>1 DEF Shape
  <2>7. def'[fn] = [def[fn] EXCEPT ![1] = v] /\ \A g \in Func : g # fn => def'[g] = def[g]
    BY <2>5, <1>1 DEF Shape
  <2>8. Shape'
    <3>1. \A g \in Func : def'[g] \in [prog.loads[g] -> Known]
      <4>1. \A g \in Func : def[g] \in [prog.loads[g] -> Known]
        BY DEF Shape
      <4>2. v \in Known
        BY <2>3 DEF Known
      <4> QED BY <4>1, <4>2, <2>7, <1>1, <1>4
    <3>3. def' = [g \in Func |-> def'[g]]
      BY <2>5 DEF Shape
    <3>4. load' \in [Func -> SUBSET (Nat \ {0})] /\ \A g \in Func : load'[g] \subseteq load[g]
      BY <2>1, <1>1 DEF Shape
    <3>6. TypeOK'
      <4>1. \A g \in Func : load'[g] \subseteq prog.loads[g]
        BY <3>4 DEF Shape, TypeOK
      <4>2. \A g \in Func : \A p \in prog.loads[g] : def'[g][p] \in Value \union {Unknown}
        BY <3>1 DEF Known
      <4> QED BY <1>2, <2>1, <4>1, <4>2 DEF Shape, TypeOK
    <3> QED BY <1>2, <3>1, <3>3, <3>4, <3>6 DEF Shape
  <2>9. Grows
    BY <1>2, <2>4, <2>6, <1>4 DEF Grows
  <2>10. ParamsArePassed' /\ ResultsAreReturned'
    <3>1. ASSUME NEW s \in prog.sites, NEW p \in prog.loads[s.callee],
                 def'[s.callee][p] # def[s.callee][p]
          PROVE  ValueOf(s.args[p]) = def'[s.callee][p]
      <4>1. s.callee \in Func
        BY DEF Shape, WellFormed
      <4>2. s.callee = fn /\ p = 1 /\ def'[s.callee][p] = v
        BY <2>6, <3>1, <4>1
      <4>3. s \in Calls(fn)
        BY <4>2 DEF Calls, Simple, Shape
      <4>4. s.args[1] = a
        BY <2>2, <4>3 DEF Registered
      <4> QED BY <2>2, <4>2, <4>4
    <3> QED BY <1>2, <2>9, <3>1, GrowthKeeps
  <2>11. StillLoaded'
    <3> SUFFICES ASSUME NEW g \in Func, NEW p \in load'[g] PROVE def'[g][p] = Unknown
      BY DEF StillLoaded
    <3>1. p \in load[g] /\ ~(g = fn /\ p = 1)
      BY <2>1, <1>1 DEF Shape
    <3>2. p \in prog.loads[g]
      BY <3>1 DEF Shape, TypeOK
    <3> QED BY <2>6, <3>1, <3>2 DEF StillLoaded
  <2>12. Round' /\ NothingLeft'
    BY <1>1, <1>2, <2>1 DEF Round, NothingLeft
  <2> QED BY <1>3, <2>8, <2>10, <2>11, <2>12
<1> QED BY <1>5, <1>6

(* The results of the calls in a function are learnt.                      *)
LEMMA ReturnKeeps ==
    ASSUME Simple, IInv, PropagateReturn
    PROVE  IInv'
<1> USE ProgramsAssumption DEF IInv
<1>1. /\ phase = "returns" /\ fn \in Func /\ fn \in Nat
      /\ res' = [res EXCEPT ![fn] = ResultOf(Learnt(fn))]
      /\ folded' = (folded \/ Learnt(fn) # {})
      /\ fn' = fn + 1 /\ UNCHANGED <<prog, load, def, phase, param, index>>
  BY DEF PropagateReturn, Func
<1>2. Learnt(fn) \subseteq Func
  BY DEF Learnt, Called, Shape, WellFormed
<1>3. \A g \in Func : ValueOf(prog.ret[g]) \in Known
  BY ReturnsAreSubjects, ValueKnown
<1>4. ResultOf(Learnt(fn)) \in [Func -> Known]
  BY <1>1, <1>3 DEF ResultOf, Shape, TypeOK, Known
<1>5. \A c, g \in Func :
          res'[c][g] = IF c = fn /\ g \in Learnt(fn) THEN ValueOf(prog.ret[g]) ELSE res[c][g]
  BY <1>1 DEF ResultOf, Shape, TypeOK
<1>6. Shape'
  <2>1. res' \in [Func -> [Func -> Value \union {Unknown}]]
    BY <1>1, <1>4 DEF Shape, TypeOK, Known
  <2>2. fn' \in 1 .. (NF + 1)
    BY <1>1 DEF Func
  <2>3. folded' \in BOOLEAN
    BY <1>1 DEF Shape, TypeOK
  <2> QED BY <1>1, <2>1, <2>2, <2>3 DEF Shape, TypeOK
<1>7. Counting' /\ StillLoaded'
  BY <1>1 DEF Counting, StillLoaded
<1>8. Grows
  BY <1>1, <1>5 DEF Grows, Learnt
<1>9. ParamsArePassed' /\ ResultsAreReturned'
  BY <1>1, <1>5, <1>8, GrowthKeeps
<1>10. Round'
  <2> SUFFICES ASSUME ~folded' PROVE Round'
    BY DEF Round
  <2>1. ~folded /\ Learnt(fn) = {}
    BY <1>1 DEF Shape, TypeOK
  <2>2. res' = res
    BY <1>1, <2>1 DEF ResultOf, Shape, TypeOK
  <2>3. \A a : ValueOf(a)' = ValueOf(a)
    BY <1>1, <2>2, Unchanged
  <2>4. \A g, p : Unfoldable(g, p) => Unfoldable(g, p)'
    BY <1>1, <2>3 DEF Unfoldable, Registered, Calls
  <2>5. \A c \in Func : Learnt(c)' = Learnt(c)
    BY <1>1, <2>2, <2>3 DEF Learnt, Called
  <2>6. \A c \in Func : c < fn' => c < fn \/ c = fn
    BY <1>1 DEF Func
  <2> QED BY <1>1, <2>1, <2>4, <2>5, <2>6 DEF Round
<1>11. NothingLeft'
  BY <1>1 DEF NothingLeft
<1> QED BY <1>6, <1>7, <1>9, <1>10, <1>11

(* In a program whose functions have one parameter and are called by name, *)
(* a parameter is folded to what every call passes, a result to what the   *)
(* function returns, and the loop of the builder leaves nothing to fold    *)
(* (funcfold.c, builder.c).                                                *)
THEOREM FoldsWhatCallsPass ==
    ASSUME Simple PROVE Spec => []FoldedIsWhatEveryCallPasses
<1>1. Init => IInv
  BY InitInv
<1>2. IInv /\ [Next]_vars => IInv'
  BY MovingOnKeeps, ParamKeeps, ReturnKeeps DEF Next
<1>3. IInv => FoldedIsWhatEveryCallPasses
  BY DEF IInv, FoldedIsWhatEveryCallPasses
<1> QED BY <1>1, <1>2, <1>3, PTL DEF Spec
(***************************************************************************)
(* Tail calls.  The function with its tail calls made jumps does what the  *)
(* recursion did, for every function the pass may be given and every way   *)
(* through it.                                                             *)
(*                                                                         *)
(* A moment of a run is what the pass does not decide: the activations     *)
(* that wait, the one on top, the branches taken and the log (Part 1).     *)
(* The run of the source reached its end by moves; from each moment a      *)
(* later one is reached when it is in every set that contains the first    *)
(* and is closed under moves (Part 2).  The run of the target then         *)
(* simulates it: its waiting activations are those of the source without   *)
(* the ones whose call became a jump, which have nothing left to do but to *)
(* hand on what they are given (Parts 3 to 5).                             *)
(***************************************************************************)

-----------------------------------------------------------------------------
(* Part 0.  The code before and after the pass.                            *)

Source == {f \in Seq(Seq(Instruction)) : Safe(f)}

LEMMA SourceBlocks ==
    ASSUME NEW f \in Source
    PROVE  /\ Len(f) \in Nat /\ DOMAIN f = 1 .. Len(f)
           /\ \A b \in DOMAIN f : f[b] \in Seq(Instruction)
<1>1. f \in Seq(Seq(Instruction))
  BY DEF Source
<1> QED
  BY <1>1, LenProperties, ElementOfSeq

LEMMA FirstEndProperties ==
    ASSUME NEW f \in Source, NEW b \in DOMAIN f
    PROVE  /\ FirstEnd(f[b]) \in 1 .. Len(f[b])
           /\ f[b][FirstEnd(f[b])].op \in Ends
           /\ \A j \in 1 .. FirstEnd(f[b]) - 1 : f[b][j].op \notin Ends
           /\ Len(f[b]) \in Nat
           /\ \A j \in 1 .. Len(f[b]) : f[b][j] \in Instruction
<1>1. f[b] \in Seq(Instruction)
  BY SourceBlocks
<1>2. \E e \in 1 .. Len(f[b]) : EndsAt(f[b], e)
  BY DEF Source, Safe
<1>3. FirstEnd(f[b]) \in 1 .. Len(f[b]) /\ EndsAt(f[b], FirstEnd(f[b]))
  BY <1>2 DEF FirstEnd
<1>4. Len(f[b]) \in Nat /\ \A j \in 1 .. Len(f[b]) : f[b][j] \in Instruction
  BY <1>1, LenProperties, ElementOfSeq
<1> QED
  BY <1>3, <1>4 DEF EndsAt

LEMMA TailOfProperties ==
    ASSUME NEW f \in Source, NEW b \in DOMAIN f
    PROVE  /\ TailOf(f[b]) \in 1 .. Len(f[b])
           /\ TailOf(f[b]) = 1 \/ f[b][TailOf(f[b])].op \notin Above
           /\ \A j \in TailOf(f[b]) + 1 .. Len(f[b]) : f[b][j].op \in Above
<1> DEFINE c == f[b]
           T == {i \in 1 .. Len(c) : i = 1 \/ c[i].op \notin Above}
           Is(i) == /\ i = 1 \/ c[i].op \notin Above
                    /\ \A j \in i + 1 .. Len(c) : c[j].op \in Above
<1>1. Len(c) \in Nat /\ 1 \in 1 .. Len(c)
  BY FirstEndProperties
<1>2. PICK i \in T : \A y \in T : y <= i
  <2>1. T \subseteq 1 .. Len(c) /\ T # {}
    BY <1>1
  <2> QED BY <1>1, <2>1, GreatestNat
<1>3. i \in 1 .. Len(c) /\ Is(i)
  BY <1>1, <1>2
<1>4. TailOf(c) = CHOOSE x \in 1 .. Len(c) : Is(x)
  BY DEF TailOf
<1>5. TailOf(c) \in 1 .. Len(c) /\ Is(TailOf(c))
  BY <1>3, <1>4
<1> QED
  BY <1>5

(* What the pass makes of a function.                                      *)
Transformed(f) ==
    [b \in DOMAIN f |->
        IF IsSelfCall(f[b][TailOf(f[b])]) THEN Looped(f[b], TailOf(f[b])) ELSE f[b]]

Jmp == [op |-> "jmp"]
Unused == [op |-> "unused"]
StoreOf(args, p) == [op |-> "store", to |-> p, arg |-> args[p]]

LEMMA SelfCallArgs ==
    ASSUME NEW i \in Instruction, i.op = "call"
    PROVE  i.self \in BOOLEAN /\ i.args \in Arguments
BY DEF Instruction

LEMMA LoopedInstr ==
    ASSUME NEW c \in Seq(Instruction), NEW k \in 1 .. Len(c), IsSelfCall(c[k])
    PROVE  /\ \A j \in 1 .. k - 1 : Looped(c, k)[j] = c[j]
           /\ Looped(c, k)[k] = StoreOf(c[k].args, 1)
           /\ Looped(c, k)[k + 1] = StoreOf(c[k].args, 2)
           /\ Looped(c, k)[k + 2] = Jmp
<1> DEFINE A == c[k].args
           Any == Instruction \union {StoreOf(A, 1), StoreOf(A, 2), Jmp, Unused}
           before == SubSeq(c, 1, k - 1)
           stores == Stores(A)
           jump == <<Jmp, Unused>>
           after == SubSeq(c, k + 1, Len(c))
<1>0. Len(c) \in Nat /\ k \in Nat /\ \A j \in 1 .. Len(c) : c[j] \in Any
  BY LenProperties, ElementOfSeq
<1>1. before \in Seq(Any) /\ Len(before) = k - 1 /\ \A j \in 1 .. k - 1 : before[j] = c[j]
  <2>1. \A j \in 1 .. k - 1 : c[j] \in Any
    BY <1>0
  <2> HIDE DEF Any
  <2>2. /\ before \in Seq(Any)
        /\ Len(before) = IF 1 <= k - 1 THEN k - 1 - 1 + 1 ELSE 0
        /\ \A j \in 1 .. k - 1 - 1 + 1 : before[j] = c[1 + j - 1]
    BY <1>0, <2>1, SubSeqProperties
  <2> QED BY <1>0, <2>2
<1>2. after \in Seq(Any)
  <2>1. \A j \in k + 1 .. Len(c) : c[j] \in Any
    BY <1>0
  <2> HIDE DEF Any
  <2> QED BY <1>0, <2>1, SubSeqProperties
<1>3. stores \in Seq(Any) /\ Len(stores) = 2 /\ stores[1] = StoreOf(A, 1) /\ stores[2] = StoreOf(A, 2)
  <2>1. stores = <<StoreOf(A, 1), StoreOf(A, 2)>>
    BY DEF Stores, StoreOf, Params
  <2> QED BY <2>1
<1>4. jump \in Seq(Any) /\ Len(jump) = 2 /\ jump[1] = Jmp
  OBVIOUS
<1> DEFINE pq == before \o stores
           pqr == pq \o jump
           all == pqr \o after
<1>5. Looped(c, k) = all
  BY DEF Looped, Jmp, Unused
<1> HIDE DEF before, stores, jump, after, Any
<1>6. /\ pq \in Seq(Any) /\ Len(pq) = Len(before) + Len(stores)
      /\ \A j \in 1 .. Len(before) + Len(stores) :
             pq[j] = IF j <= Len(before) THEN before[j] ELSE stores[j - Len(before)]
  <2>1. before \in Seq(Any) /\ stores \in Seq(Any)
    BY <1>1, <1>3
  <2> QED BY <2>1, ConcatProperties, Zenon
<1> HIDE DEF pq
<1>7. /\ pqr \in Seq(Any) /\ Len(pqr) = Len(pq) + Len(jump)
      /\ \A j \in 1 .. Len(pq) + Len(jump) :
             pqr[j] = IF j <= Len(pq) THEN pq[j] ELSE jump[j - Len(pq)]
  <2>1. pq \in Seq(Any) /\ jump \in Seq(Any)
    BY <1>4, <1>6
  <2> QED BY <2>1, ConcatProperties, Zenon
<1> HIDE DEF pqr
<1>8. \A j \in 1 .. Len(pqr) + Len(after) :
          all[j] = IF j <= Len(pqr) THEN pqr[j] ELSE after[j - Len(pqr)]
  <2>1. pqr \in Seq(Any)
    BY <1>7
  <2> QED BY <1>2, <2>1, ConcatProperties, Zenon
<1> HIDE DEF all
<1>9. Len(after) \in Nat
  BY <1>2, LenProperties
<1>10. /\ \A j \in 1 .. k - 1 : all[j] = before[j]
       /\ all[k] = stores[1]
       /\ all[k + 1] = stores[2]
       /\ all[k + 2] = jump[1]
  <2>1. Len(before) = k - 1 /\ Len(pq) = k + 1 /\ Len(pqr) = k + 3 /\ Len(stores) = 2 /\ Len(jump) = 2
    BY <1>0, <1>1, <1>3, <1>4, <1>6, <1>7
  <2>2. \A j \in 1 .. k + 3 : all[j] = pqr[j]
    BY <1>0, <1>8, <1>9, <2>1
  <2>3. \A j \in 1 .. k + 1 : all[j] = pq[j]
    BY <1>0, <1>7, <2>1, <2>2
  <2>4. all[k + 2] = jump[1]
    BY <1>0, <1>7, <2>1, <2>2
  <2>5. \A j \in 1 .. k - 1 : all[j] = before[j]
    BY <1>0, <1>6, <2>1, <2>3
  <2>6. all[k] = stores[1] /\ all[k + 1] = stores[2]
    BY <1>0, <1>6, <2>1, <2>3
  <2> QED BY <2>4, <2>5, <2>6
<1> QED
  BY <1>1, <1>3, <1>4, <1>5, <1>10

(* Up to its first end the target of a block is the source, but for the    *)
(* two stores and the jump at a call in tail position.                     *)
LEMMA TargetInstr ==
    ASSUME NEW f \in Source, NEW b \in DOMAIN f
    PROVE  /\ \A j \in 1 .. FirstEnd(f[b]) :
                  ~(LoopsBack(f[b]) /\ j >= TailOf(f[b])) => Transformed(f)[b][j] = f[b][j]
           /\ LoopsBack(f[b]) =>
                  LET k == TailOf(f[b])
                  IN  /\ k \in Nat
                      /\ Transformed(f)[b][k] = StoreOf(f[b][k].args, 1)
                      /\ Transformed(f)[b][k + 1] = StoreOf(f[b][k].args, 2)
                      /\ Transformed(f)[b][k + 2] = Jmp
<1> DEFINE c == f[b]
           k == TailOf(c)
           e == FirstEnd(c)
<1>1. c \in Seq(Instruction) /\ k \in 1 .. Len(c) /\ e \in 1 .. Len(c) /\ Len(c) \in Nat
  BY SourceBlocks, TailOfProperties, FirstEndProperties
<1>2. CASE ~IsSelfCall(c[k])
  <2>1. Transformed(f)[b] = c
    BY <1>2 DEF Transformed
  <2> QED BY <1>2, <2>1 DEF LoopsBack
<1>3. CASE IsSelfCall(c[k])
  <2>1. Transformed(f)[b] = Looped(c, k)
    BY <1>3 DEF Transformed
  <2>2. /\ \A j \in 1 .. k - 1 : Looped(c, k)[j] = c[j]
        /\ Looped(c, k)[k] = StoreOf(c[k].args, 1)
        /\ Looped(c, k)[k + 1] = StoreOf(c[k].args, 2)
        /\ Looped(c, k)[k + 2] = Jmp
    BY <1>1, <1>3, LoopedInstr
  <2>3. k # e
    <3>1. c[e].op \in Ends /\ c[k].op = "call"
      BY <1>3, FirstEndProperties DEF IsSelfCall
    <3> QED BY <3>1 DEF Ends
  <2>4. ASSUME NEW j \in 1 .. e, ~(LoopsBack(c) /\ j >= k)
        PROVE  j \in 1 .. k - 1
    <3>1. CASE k < e
      BY <1>1, <1>3, <2>4, <3>1 DEF LoopsBack
    <3>2. CASE k > e
      BY <1>1, <3>2
    <3> QED BY <1>1, <2>3, <3>1, <3>2
  <2> QED BY <1>1, <2>1, <2>2, <2>4
<1> QED
  BY <1>2, <1>3
-----------------------------------------------------------------------------
(* Part 1.  The moments of a run and its moves.                            *)

Values == [Params -> Nat]
Frames == [block : Nat, pc : Nat, var : Values, tmp : Values, result : Nat]
Events == Values \union {<<n>> : n \in Nat}
RunState == [below : Seq(Frames), top : Frames, taken : Nat, log : Seq(Events), over : BOOLEAN]

State(R, fr, n, L) == [below |-> R, top |-> fr, taken |-> n, log |-> L, over |-> FALSE]
Finished(L) ==
    [below |-> <<>>, top |-> Frame(Initial), taken |-> 0, log |-> L, over |-> TRUE]

ValueIn(fr, arg) == IF arg.kind = "variable" THEN fr.var[arg.p] ELSE fr.tmp[arg.p]
Passed(fr, args) == [p \in Params |-> ValueIn(fr, args[p])]
Stepped(fr) == [fr EXCEPT !.pc = @ + 1]
Resumed(fr, v) == Stepped([fr EXCEPT !.result = v])
Stored(fr, p, v) == Stepped([fr EXCEPT !.var[p] = v])
Entered(fr, b) == [fr EXCEPT !.block = b, !.pc = 1, !.tmp = [p \in Params |-> fr.var[p] + 1]]
Restarted(fr) == [fr EXCEPT !.block = 0]
Outside(R) == SubSeq(R, 1, Len(R) - 1)
Delivered(R, v, n, L) ==
    IF R = <<>> THEN Finished(Append(L, <<v>>))
    ELSE State(Outside(R), Resumed(R[Len(R)], v), n, L)
ReturnValue(i, fr) ==
    IF i.op = "fend" THEN 0 ELSE IF i.what = "result" THEN fr.result ELSE fr.var[1]

(* What an instruction does; every move but the entry into a block.        *)
Outcome(i, s) ==
    LET fr == s.top
        go(g) == State(s.below, g, s.taken, s.log)
    IN  IF i.op = "use" THEN State(s.below, Stepped(fr), s.taken, Append(s.log, fr.var))
        ELSE IF i.op = "call" /\ i.self
             THEN State(Append(s.below, fr), Frame(Passed(fr, i.args)), s.taken, s.log)
        ELSE IF i.op = "call"
             THEN State(s.below, Resumed(fr, Passed(fr, i.args)[1]), s.taken,
                        Append(s.log, Passed(fr, i.args)))
        ELSE IF i.op = "store" THEN go(Stored(fr, i.to, ValueIn(fr, i.arg)))
        ELSE IF i.op = "jmp" THEN go(Restarted(fr))
        ELSE IF i.op = "endscope" THEN go(Stepped(fr))
        ELSE Delivered(s.below, ReturnValue(i, fr), s.taken, s.log)
Move(code, ch, s) ==
    IF s.top.block = 0
    THEN State(s.below, Entered(s.top, ch[s.taken + 1]), s.taken + 1, s.log)
    ELSE Outcome(code[s.top.block][s.top.pc], s)

(* The branch behind the entries of the run is not known yet.              *)
CanMove(ch, s) == ~s.over /\ (s.top.block = 0 => s.taken < Len(ch))

(* An activation that waits for a call of its own function; one that runs. *)
Waiting(f, fr) ==
    /\ fr \in Frames /\ fr.block \in DOMAIN f
    /\ fr.pc \in 1 .. FirstEnd(f[fr.block]) - 1 /\ IsSelfCall(f[fr.block][fr.pc])
Standing(f, fr) ==
    /\ fr \in Frames
    /\ fr.block # 0 => fr.block \in DOMAIN f /\ fr.pc \in 1 .. FirstEnd(f[fr.block])
States(f) ==
    {s \in RunState : Standing(f, s.top) /\ \A i \in 1 .. Len(s.below) : Waiting(f, s.below[i])}

Start == State(<<>>, Frame(Initial), 0, <<>>)

LEMMA FrameTypes ==
    ASSUME NEW fr \in Frames
    PROVE  /\ fr.block \in Nat /\ fr.pc \in Nat /\ fr.var \in Values
           /\ fr.tmp \in Values /\ fr.result \in Nat
           /\ fr.var[1] \in Nat /\ fr.var[2] \in Nat
           /\ fr.tmp[1] \in Nat /\ fr.tmp[2] \in Nat
BY DEF Frames, Values, Params

LEMMA SteppedFrame ==
    ASSUME NEW fr \in Frames
    PROVE  /\ Stepped(fr) \in Frames /\ Stepped(fr).block = fr.block
           /\ Stepped(fr).pc = fr.pc + 1 /\ Stepped(fr).var = fr.var
           /\ Stepped(fr).tmp = fr.tmp /\ Stepped(fr).result = fr.result
BY DEF Frames, Stepped

LEMMA CalledFrame ==
    ASSUME NEW fr \in Frames, NEW v \in Nat
    PROVE  /\ Resumed(fr, v) \in Frames /\ Resumed(fr, v).block = fr.block
           /\ Resumed(fr, v).pc = fr.pc + 1 /\ Resumed(fr, v).var = fr.var
           /\ Resumed(fr, v).tmp = fr.tmp /\ Resumed(fr, v).result = v
<1> DEFINE g == [fr EXCEPT !.result = v]
<1>1. /\ g \in Frames /\ g.block = fr.block /\ g.pc = fr.pc /\ g.var = fr.var
      /\ g.tmp = fr.tmp /\ g.result = v
  BY DEF Frames
<1> HIDE DEF g
<1>2. Resumed(fr, v) = Stepped(g)
  BY DEF Resumed, g
<1> QED
  BY <1>1, <1>2, SteppedFrame

LEMMA StoredFrame ==
    ASSUME NEW fr \in Frames, NEW p \in Params, NEW v \in Nat
    PROVE  /\ Stored(fr, p, v) \in Frames /\ Stored(fr, p, v).block = fr.block
           /\ Stored(fr, p, v).pc = fr.pc + 1
           /\ Stored(fr, p, v).var = [fr.var EXCEPT ![p] = v]
           /\ Stored(fr, p, v).tmp = fr.tmp /\ Stored(fr, p, v).result = fr.result
<1>1. fr.var \in Values
  BY FrameTypes
<1>2. [fr.var EXCEPT ![p] = v] \in Values
  BY <1>1 DEF Values
<1> DEFINE g == [fr EXCEPT !.var[p] = v]
<1>3. /\ g \in Frames /\ g.block = fr.block /\ g.pc = fr.pc /\ g.tmp = fr.tmp
      /\ g.var = [fr.var EXCEPT ![p] = v] /\ g.result = fr.result
  BY <1>2 DEF Frames
<1> HIDE DEF g
<1>4. Stored(fr, p, v) = Stepped(g)
  BY DEF Stored, g
<1> QED
  BY <1>3, <1>4, SteppedFrame

LEMMA EnteredFrame ==
    ASSUME NEW fr \in Frames, NEW b \in Nat
    PROVE  /\ Entered(fr, b) \in Frames /\ Entered(fr, b).block = b
           /\ Entered(fr, b).pc = 1 /\ Entered(fr, b).var = fr.var
           /\ Entered(fr, b).tmp = [p \in Params |-> fr.var[p] + 1]
           /\ Entered(fr, b).result = fr.result
<1>1. fr.var \in Values
  BY FrameTypes
<1>2. [p \in Params |-> fr.var[p] + 1] \in Values
  BY <1>1 DEF Values
<1> QED
  BY <1>2 DEF Frames, Entered

LEMMA RestartedFrame ==
    ASSUME NEW fr \in Frames
    PROVE  /\ Restarted(fr) \in Frames /\ Restarted(fr).block = 0
           /\ Restarted(fr).var = fr.var
BY DEF Frames, Restarted

LEMMA NewFrame ==
    ASSUME NEW v \in Values
    PROVE  /\ Frame(v) \in Frames /\ Frame(v).block = 0 /\ Frame(v).var = v
           /\ Frame(v).result = 0 /\ Frame(v).pc = 1
BY DEF Frames, Frame

LEMMA InitialValues == Initial \in Values
BY DEF Initial, Values, Params

LEMMA PassedValues ==
    ASSUME NEW fr \in Frames, NEW args \in Arguments
    PROVE  /\ Passed(fr, args) \in Values
           /\ \A p \in Params : Passed(fr, args)[p] = ValueIn(fr, args[p]) /\ ValueIn(fr, args[p]) \in Nat
<1>1. \A p \in Params : args[p].kind \in {"variable", "temporary"} /\ args[p].p \in Params
  BY DEF Arguments
<1>2. fr.var \in Values /\ fr.tmp \in Values
  BY FrameTypes
<1>3. \A p \in Params : ValueIn(fr, args[p]) \in Nat
  BY <1>1, <1>2 DEF ValueIn, Values
<1> QED
  BY <1>3 DEF Passed, Values

LEMMA StateParts ==
    ASSUME NEW R, NEW fr, NEW n, NEW L
    PROVE  /\ State(R, fr, n, L).below = R /\ State(R, fr, n, L).top = fr
           /\ State(R, fr, n, L).taken = n /\ State(R, fr, n, L).log = L
           /\ ~State(R, fr, n, L).over
BY DEF State

LEMMA StateType ==
    ASSUME NEW R \in Seq(Frames), NEW fr \in Frames, NEW n \in Nat, NEW L \in Seq(Events)
    PROVE  State(R, fr, n, L) \in RunState
BY DEF State, RunState

LEMMA FinishedParts ==
    ASSUME NEW L
    PROVE  /\ Finished(L).below = <<>> /\ Finished(L).top = Frame(Initial)
           /\ Finished(L).taken = 0 /\ Finished(L).log = L /\ Finished(L).over
BY DEF Finished

LEMMA FinishedType ==
    ASSUME NEW L \in Seq(Events)
    PROVE  Finished(L) \in RunState
<1>1. Frame(Initial) \in Frames
  BY NewFrame, InitialValues
<1>2. <<>> \in Seq(Frames)
  BY EmptySeq
<1> QED
  BY <1>1, <1>2 DEF Finished, RunState

LEMMA AppendedLog ==
    ASSUME NEW L \in Seq(Events), NEW e \in Events
    PROVE  /\ Append(L, e) \in Seq(Events) /\ Len(Append(L, e)) = Len(L) + 1
           /\ \A i \in 1 .. Len(L) : Append(L, e)[i] = L[i]
BY AppendProperties, LenProperties

LEMMA OneValueEvent ==
    ASSUME NEW v \in Nat
    PROVE  <<v>> \in Events
BY DEF Events

LEMMA OutsideParts ==
    ASSUME NEW R \in Seq(Frames), R # <<>>
    PROVE  /\ Outside(R) \in Seq(Frames) /\ Len(Outside(R)) = Len(R) - 1
           /\ \A i \in 1 .. Len(R) - 1 : Outside(R)[i] = R[i]
           /\ Len(R) \in Nat \ {0} /\ R[Len(R)] \in Frames
<1>1. Len(R) \in Nat \ {0} /\ \A i \in 1 .. Len(R) : R[i] \in Frames
  BY EmptySeq, LenProperties, ElementOfSeq
<1>2. \A i \in 1 .. Len(R) - 1 : R[i] \in Frames
  BY <1>1
<1>3. /\ SubSeq(R, 1, Len(R) - 1) \in Seq(Frames)
      /\ Len(SubSeq(R, 1, Len(R) - 1)) = IF 1 <= Len(R) - 1 THEN Len(R) - 1 - 1 + 1 ELSE 0
      /\ \A i \in 1 .. Len(R) - 1 - 1 + 1 : SubSeq(R, 1, Len(R) - 1)[i] = R[1 + i - 1]
  BY <1>1, <1>2, SubSeqProperties
<1> DEFINE o == SubSeq(R, 1, Len(R) - 1)
<1> HIDE DEF o
<1>4. o \in Seq(Frames) /\ Len(o) = Len(R) - 1 /\ \A i \in 1 .. Len(R) - 1 : o[i] = R[i]
  <2>1. /\ o \in Seq(Frames)
        /\ Len(o) = IF 1 <= Len(R) - 1 THEN Len(R) - 1 - 1 + 1 ELSE 0
        /\ \A i \in 1 .. Len(R) - 1 - 1 + 1 : o[i] = R[1 + i - 1]
    BY <1>3 DEF o
  <2>2. Len(R) - 1 \in Nat /\ Len(R) - 1 - 1 + 1 = Len(R) - 1
    BY <1>1
  <2>3. Len(o) = Len(R) - 1
    <3>1. CASE 1 <= Len(R) - 1
      <4>1. Len(o) = Len(R) - 1 - 1 + 1
        BY <2>1, <3>1
      <4> QED BY <2>2, <4>1
    <3>2. CASE ~(1 <= Len(R) - 1)
      <4>1. Len(o) = 0
        BY <2>1, <3>2
      <4>2. ASSUME NEW l, l \in Nat \ {0}, ~(1 <= l - 1) PROVE l - 1 = 0
        BY <4>2
      <4>3. Len(R) - 1 = 0
        BY <1>1, <3>2, <4>2
      <4> QED BY <4>1, <4>3
    <3> QED BY <3>1, <3>2
  <2>4. ASSUME NEW i \in 1 .. Len(R) - 1 PROVE o[i] = R[i]
    <3>1. i \in 1 .. Len(R) - 1 - 1 + 1 /\ 1 + i - 1 = i
      BY <1>1
    <3> QED BY <2>1, <3>1
  <2> QED BY <2>1, <2>3, <2>4
<1> QED
  BY <1>1, <1>4 DEF Outside, o

LEMMA DoneCases ==
    ASSUME NEW i, NEW s
    PROVE  /\ i.op = "use" =>
                  Outcome(i, s) = State(s.below, Stepped(s.top), s.taken, Append(s.log, s.top.var))
           /\ i.op = "call" /\ i.self =>
                  Outcome(i, s) = State(Append(s.below, s.top), Frame(Passed(s.top, i.args)), s.taken, s.log)
           /\ i.op = "call" /\ ~i.self =>
                  Outcome(i, s) = State(s.below, Resumed(s.top, Passed(s.top, i.args)[1]), s.taken,
                                     Append(s.log, Passed(s.top, i.args)))
           /\ i.op = "store" =>
                  Outcome(i, s) = State(s.below, Stored(s.top, i.to, ValueIn(s.top, i.arg)), s.taken, s.log)
           /\ i.op = "jmp" => Outcome(i, s) = State(s.below, Restarted(s.top), s.taken, s.log)
           /\ i.op = "endscope" => Outcome(i, s) = State(s.below, Stepped(s.top), s.taken, s.log)
           /\ i.op \in Ends =>
                  Outcome(i, s) = Delivered(s.below, ReturnValue(i, s.top), s.taken, s.log)
<1>1. i.op = "use" =>
          Outcome(i, s) = State(s.below, Stepped(s.top), s.taken, Append(s.log, s.top.var))
  BY DEF Outcome
<1>2. i.op = "call" /\ i.self =>
          Outcome(i, s) = State(Append(s.below, s.top), Frame(Passed(s.top, i.args)), s.taken, s.log)
  BY DEF Outcome
<1>3. i.op = "call" /\ ~i.self =>
          Outcome(i, s) = State(s.below, Resumed(s.top, Passed(s.top, i.args)[1]), s.taken,
                             Append(s.log, Passed(s.top, i.args)))
  BY DEF Outcome
<1>4. i.op = "store" =>
          Outcome(i, s) = State(s.below, Stored(s.top, i.to, ValueIn(s.top, i.arg)), s.taken, s.log)
  BY DEF Outcome
<1>5. i.op = "jmp" => Outcome(i, s) = State(s.below, Restarted(s.top), s.taken, s.log)
  BY DEF Outcome
<1>6. i.op = "endscope" => Outcome(i, s) = State(s.below, Stepped(s.top), s.taken, s.log)
  BY DEF Outcome
<1>7. i.op \in Ends =>
          Outcome(i, s) = Delivered(s.below, ReturnValue(i, s.top), s.taken, s.log)
  BY DEF Outcome, Ends
<1> QED
  BY <1>1, <1>2, <1>3, <1>4, <1>5, <1>6, <1>7

LEMMA AppendParts ==
    ASSUME NEW R \in Seq(Frames), NEW fr \in Frames
    PROVE  /\ Append(R, fr) \in Seq(Frames) /\ Append(R, fr) # <<>>
           /\ Len(Append(R, fr)) = Len(R) + 1 /\ Len(R) \in Nat
           /\ Append(R, fr)[Len(R) + 1] = fr
           /\ \A i \in 1 .. Len(R) : Append(R, fr)[i] = R[i]
           /\ Outside(Append(R, fr)) = R
<1> DEFINE A == Append(R, fr)
<1>1. /\ A \in Seq(Frames) /\ Len(A) = Len(R) + 1 /\ Len(R) \in Nat
      /\ A[Len(R) + 1] = fr /\ \A i \in 1 .. Len(R) : A[i] = R[i]
  BY AppendProperties, LenProperties
<1>2. A # <<>>
  BY <1>1, EmptySeq
<1> HIDE DEF A
<1>3. /\ Outside(A) \in Seq(Frames) /\ Len(Outside(A)) = Len(A) - 1
      /\ \A i \in 1 .. Len(A) - 1 : Outside(A)[i] = A[i]
  BY <1>1, <1>2, OutsideParts
<1>4. Len(Outside(A)) = Len(R) /\ \A i \in 1 .. Len(R) : Outside(A)[i] = R[i]
  BY <1>1, <1>3
<1>5. Outside(A) = R
  BY <1>3, <1>4, SeqEqual
<1> QED
  BY <1>1, <1>2, <1>5 DEF A

LEMMA OutsideAppended ==
    ASSUME NEW R \in Seq(Frames), R # <<>>
    PROVE  R = Append(Outside(R), R[Len(R)])
<1> DEFINE o == Outside(R)
           A == Append(o, R[Len(R)])
<1>1. /\ o \in Seq(Frames) /\ Len(o) = Len(R) - 1 /\ \A i \in 1 .. Len(R) - 1 : o[i] = R[i]
      /\ Len(R) \in Nat \ {0} /\ R[Len(R)] \in Frames
  BY OutsideParts
<1> HIDE DEF o
<1>2. /\ A \in Seq(Frames) /\ Len(A) = Len(o) + 1 /\ A[Len(o) + 1] = R[Len(R)]
      /\ \A i \in 1 .. Len(o) : A[i] = o[i]
  BY <1>1, AppendParts
<1> HIDE DEF A
<1>3. Len(A) = Len(R) /\ \A i \in 1 .. Len(R) : A[i] = R[i]
  <2>1. Len(A) = Len(R)
    BY <1>1, <1>2
  <2>2. ASSUME NEW i \in 1 .. Len(R) PROVE A[i] = R[i]
    <3>1. CASE i = Len(R)
      BY <1>1, <1>2, <3>1
    <3>2. CASE i # Len(R)
      <4>1. i \in 1 .. Len(R) - 1 /\ i \in 1 .. Len(o)
        BY <1>1, <3>2
      <4> QED BY <1>1, <1>2, <4>1
    <3> QED BY <3>1, <3>2
  <2> QED BY <2>1, <2>2
<1>4. A = R
  BY <1>2, <1>3, SeqEqual
<1> QED
  BY <1>4 DEF A, o

(* Where the run that is on stands.                                        *)
Sides == {"source", "target"}
Cur == State(Below, Top, taken, log[side])
Started ==
    /\ side \in Sides /\ frames \in Seq(Frames) /\ frames # <<>>
    /\ taken \in Nat /\ log \in [Sides -> Seq(Events)]

ArgumentKinds == [kind : {"variable", "temporary"}, p : Params]
Proper(i) ==
    /\ i.op = "call" => i.self \in BOOLEAN /\ i.args \in Arguments
    /\ i.op = "store" => i.to \in Params /\ i.arg \in ArgumentKinds

LEMMA StartedParts ==
    ASSUME Started
    PROVE  /\ Below = Outside(frames) /\ Below \in Seq(Frames) /\ Top \in Frames
           /\ frames = Append(Below, Top) /\ log[side] \in Seq(Events)
<1>1. Below = Outside(frames) /\ Top = frames[Len(frames)]
  BY DEF Below, Top, Outside
<1> QED
  BY <1>1, OutsideParts, OutsideAppended DEF Started

(* A step that leaves the side alone and these activations.                *)
LEMMA CurAfter ==
    ASSUME Started, NEW R \in Seq(Frames), NEW fr \in Frames, NEW L \in Seq(Events),
           frames' = Append(R, fr), side' = side, taken' \in Nat,
           log' = [log EXCEPT ![side] = L]
    PROVE  Started' /\ Cur' = State(R, fr, taken', L)
<1>1. /\ frames' \in Seq(Frames) /\ frames' # <<>>
      /\ frames'[Len(frames')] = fr /\ Outside(frames') = R
  BY AppendParts
<1>2. Below' = R /\ Top' = fr
  BY <1>1 DEF Below, Top, Outside
<1>3. log'[side'] = L /\ log' \in [Sides -> Seq(Events)]
  BY DEF Started
<1> QED
  BY <1>1, <1>2, <1>3 DEF Started, Cur

LEMMA SameLog ==
    ASSUME Started
    PROVE  log = [log EXCEPT ![side] = log[side]]
BY DEF Started

LEMMA EnterMoves ==
    ASSUME Started, NEW b \in Nat, EnterAs(b)
    PROVE  Started' /\ side' = side
           /\ Cur' = State(Below, Entered(Top, b), taken + 1, log[side])
<1>1. /\ Below \in Seq(Frames) /\ Top \in Frames /\ log[side] \in Seq(Events)
      /\ Entered(Top, b) \in Frames
  BY StartedParts, EnteredFrame
<1>2. /\ frames' = Append(Below, Entered(Top, b)) /\ taken' = taken + 1 /\ side' = side
      /\ log' = log
  BY DEF EnterAs, Entered
<1>3. log' = [log EXCEPT ![side] = log[side]] /\ taken' \in Nat
  BY <1>2, SameLog DEF Started
<1> QED
  BY <1>1, <1>2, <1>3, CurAfter

InstrSteps == Use \/ Call \/ Store \/ Jump \/ Step \/ Return

(* An instruction does in the model what Outcome says.                        *)
LEMMA InstrMoves ==
    ASSUME Started, InstrSteps, Proper(Instr), Return => Below # <<>>
    PROVE  Started' /\ side' = side /\ UNCHANGED <<passVars, choices>> /\ Cur' = Outcome(Instr, Cur)
<1> DEFINE L == log[side]
<1>1. Below \in Seq(Frames) /\ Top \in Frames /\ L \in Seq(Events) /\ taken \in Nat
      /\ frames = Append(Below, Top)
  BY StartedParts DEF Started
<1>2. /\ Cur.below = Below /\ Cur.top = Top /\ Cur.taken = taken /\ Cur.log = L
  BY DEF Cur, State
<1>3. CASE Use
  <2>1. /\ Instr.op = "use" /\ frames' = Append(Below, Stepped(Top))
        /\ log' = [log EXCEPT ![side] = Append(L, Top.var)]
        /\ side' = side /\ taken' = taken /\ UNCHANGED <<passVars, choices>>
    BY <1>3 DEF Use, Runs, Seen, GoOn, Stepped
  <2>2. Top.var \in Events /\ Append(L, Top.var) \in Seq(Events) /\ Stepped(Top) \in Frames
    BY <1>1, FrameTypes, AppendedLog, SteppedFrame DEF Events
  <2>3. Started' /\ Cur' = State(Below, Stepped(Top), taken, Append(L, Top.var))
    BY <1>1, <2>1, <2>2, CurAfter
  <2> QED BY <1>2, <2>1, <2>3, DoneCases
<1>4. CASE Call /\ Instr.self
  <2> DEFINE v == Passed(Top, Instr.args)
  <2>1. /\ Instr.op = "call" /\ frames' = Append(frames, Frame(v)) /\ log' = log
        /\ side' = side /\ taken' = taken /\ UNCHANGED <<passVars, choices>>
    BY <1>4 DEF Call, Runs, ArgumentOf, Passed, ValueIn
  <2>2. v \in Values /\ Frame(v) \in Frames /\ Append(Below, Top) \in Seq(Frames)
    BY <1>1, <2>1, PassedValues, NewFrame, AppendParts DEF Proper
  <2>3. Started' /\ Cur' = State(Append(Below, Top), Frame(v), taken, L)
    BY <1>1, <2>1, <2>2, CurAfter, SameLog
  <2> QED BY <1>2, <1>4, <2>1, <2>3, DoneCases
<1>5. CASE Call /\ ~Instr.self
  <2> DEFINE v == Passed(Top, Instr.args)
  <2>1. /\ Instr.op = "call" /\ frames' = Append(Below, Resumed(Top, v[1]))
        /\ log' = [log EXCEPT ![side] = Append(L, v)]
        /\ side' = side /\ taken' = taken /\ UNCHANGED <<passVars, choices>>
    BY <1>5 DEF Call, Runs, ArgumentOf, Passed, ValueIn, Seen, GoOn, Resumed, Stepped
  <2>2. v \in Values /\ v[1] \in Nat /\ v \in Events
    BY <1>1, <2>1, PassedValues DEF Proper, Values, Params, Events
  <2>3. Append(L, v) \in Seq(Events) /\ Resumed(Top, v[1]) \in Frames
    BY <1>1, <2>2, AppendedLog, CalledFrame
  <2>4. Started' /\ Cur' = State(Below, Resumed(Top, v[1]), taken, Append(L, v))
    BY <1>1, <2>1, <2>3, CurAfter
  <2> QED BY <1>2, <1>5, <2>1, <2>4, DoneCases
<1>6. CASE Store
  <2> DEFINE v == ValueIn(Top, Instr.arg)
  <2>1. /\ Instr.op = "store" /\ frames' = Append(Below, Stored(Top, Instr.to, v)) /\ log' = log
        /\ side' = side /\ taken' = taken /\ UNCHANGED <<passVars, choices>>
    BY <1>6 DEF Store, Runs, ArgumentOf, ValueIn, GoOn, Stored, Stepped
  <2>2. Instr.to \in Params /\ v \in Nat
    <3>1. Instr.to \in Params /\ Instr.arg.p \in Params
      BY <2>1 DEF Proper, ArgumentKinds
    <3> QED BY <1>1, <3>1, FrameTypes DEF ValueIn, Values
  <2>3. Stored(Top, Instr.to, v) \in Frames
    BY <1>1, <2>2, StoredFrame
  <2>4. Started' /\ Cur' = State(Below, Stored(Top, Instr.to, v), taken, L)
    BY <1>1, <2>1, <2>3, CurAfter, SameLog
  <2> QED BY <1>2, <2>1, <2>4, DoneCases
<1>7. CASE Jump
  <2>1. /\ Instr.op = "jmp" /\ frames' = Append(Below, Restarted(Top)) /\ log' = log
        /\ side' = side /\ taken' = taken /\ UNCHANGED <<passVars, choices>>
    BY <1>7 DEF Jump, Runs, Restarted
  <2>2. Restarted(Top) \in Frames
    BY <1>1, RestartedFrame
  <2>3. Started' /\ Cur' = State(Below, Restarted(Top), taken, L)
    BY <1>1, <2>1, <2>2, CurAfter, SameLog
  <2> QED BY <1>2, <2>1, <2>3, DoneCases
<1>8. CASE Step
  <2>1. /\ Instr.op = "endscope" /\ frames' = Append(Below, Stepped(Top)) /\ log' = log
        /\ side' = side /\ taken' = taken /\ UNCHANGED <<passVars, choices>>
    BY <1>8 DEF Step, Runs, GoOn, Stepped
  <2>2. Stepped(Top) \in Frames
    BY <1>1, SteppedFrame
  <2>3. Started' /\ Cur' = State(Below, Stepped(Top), taken, L)
    BY <1>1, <2>1, <2>2, CurAfter, SameLog
  <2> QED BY <1>2, <2>1, <2>3, DoneCases
<1>9. CASE Return
  <2> DEFINE v == ReturnValue(Instr, Top)
             R == Outside(Below)
             last == Below[Len(Below)]
  <2>1. Instr.op \in Ends
    BY <1>9 DEF Return, Runs, Ends
  <2>2. /\ frames' = [Below EXCEPT ![Len(Below)].result = v, ![Len(Below)].pc = @ + 1]
        /\ side' = side /\ taken' = taken /\ log' = log /\ UNCHANGED <<passVars, choices>>
    BY <1>9 DEF Return, ReturnValue
  <2>3. v \in Nat
    BY <1>1, FrameTypes DEF ReturnValue
  <2>4. /\ R \in Seq(Frames) /\ last \in Frames /\ Len(Below) \in Nat \ {0}
        /\ Below = Append(R, last) /\ Len(R) = Len(Below) - 1
        /\ \A i \in 1 .. Len(Below) - 1 : R[i] = Below[i]
    BY <1>1, <1>9, OutsideParts, OutsideAppended
  <2>5. Resumed(last, v) \in Frames
    BY <2>3, <2>4, CalledFrame
  <2>6. frames' = Append(R, Resumed(last, v))
    <3>1. frames' = [Below EXCEPT ![Len(Below)] = Resumed(last, v)]
      BY <1>1, <2>2, <2>4, LenProperties DEF Resumed, Stepped
    <3>2. /\ [Below EXCEPT ![Len(Below)] = Resumed(last, v)] \in Seq(Frames)
          /\ Len([Below EXCEPT ![Len(Below)] = Resumed(last, v)]) = Len(Below)
          /\ \A j \in 1 .. Len(Below) : [Below EXCEPT ![Len(Below)] = Resumed(last, v)][j]
                 = IF j = Len(Below) THEN Resumed(last, v) ELSE Below[j]
      <4>1. Len(Below) \in 1 .. Len(Below)
        BY <2>4
      <4> QED BY <1>1, <2>5, <4>1, ExceptSeq
    <3>3. /\ Append(R, Resumed(last, v)) \in Seq(Frames)
          /\ Len(Append(R, Resumed(last, v))) = Len(R) + 1
          /\ Append(R, Resumed(last, v))[Len(R) + 1] = Resumed(last, v)
          /\ \A i \in 1 .. Len(R) : Append(R, Resumed(last, v))[i] = R[i]
      BY <2>4, <2>5, AppendParts
    <3> DEFINE A == Append(R, Resumed(last, v))
               E == [Below EXCEPT ![Len(Below)] = Resumed(last, v)]
    <3>4. Len(E) = Len(A) /\ Len(A) = Len(Below)
      BY <2>4, <3>2, <3>3
    <3>5. ASSUME NEW j \in 1 .. Len(Below) PROVE E[j] = A[j]
      <4>1. CASE j = Len(Below)
        BY <2>4, <3>2, <3>3, <4>1
      <4>2. CASE j # Len(Below)
        <5>1. j \in 1 .. Len(Below) - 1 /\ j \in 1 .. Len(R)
          BY <2>4, <4>2
        <5> QED BY <2>4, <3>2, <3>3, <4>2, <5>1
      <4> QED BY <4>1, <4>2
    <3>6. E = A
      <4>1. E \in Seq(Frames) /\ A \in Seq(Frames)
        BY <3>2, <3>3
      <4> HIDE DEF E, A
      <4> QED BY <3>4, <3>5, <4>1, SeqEqual
    <3> QED BY <3>1, <3>6
  <2>7. Started' /\ Cur' = State(R, Resumed(last, v), taken, L)
    BY <1>1, <2>2, <2>4, <2>5, <2>6, CurAfter, SameLog
  <2>8. Outcome(Instr, Cur) = Delivered(Below, v, taken, L)
    BY <1>2, <2>1, DoneCases
  <2>9. Delivered(Below, v, taken, L) = State(R, Resumed(last, v), taken, L)
    BY <1>9 DEF Delivered
  <2> QED BY <2>2, <2>7, <2>8, <2>9
<1> QED
  BY <1>3, <1>4, <1>5, <1>6, <1>7, <1>8, <1>9 DEF InstrSteps

(* The last return ends the run.                                           *)
LEMMA LastReturn ==
    ASSUME Started, Return, Below = <<>>
    PROVE  LET L == Append(log[side], <<ReturnValue(Instr, Top)>>)
           IN  /\ Outcome(Instr, Cur) = Finished(L) /\ L \in Seq(Events)
               /\ log' = [log EXCEPT ![side] = L] /\ taken' = 0
               /\ side' = IF side = "source" THEN "target" ELSE "done"
               /\ frames' = IF side = "source" THEN <<Frame(Initial)>> ELSE <<>>
               /\ UNCHANGED <<passVars, choices>>
<1> DEFINE v == ReturnValue(Instr, Top)
           L == log[side]
<1>1. Below \in Seq(Frames) /\ Top \in Frames /\ L \in Seq(Events)
  BY StartedParts
<1>2. /\ Cur.below = Below /\ Cur.top = Top /\ Cur.taken = taken /\ Cur.log = L
  BY DEF Cur, State
<1>3. Instr.op \in Ends
  BY DEF Return, Runs, Ends
<1>4. v \in Nat /\ Append(L, <<v>>) \in Seq(Events)
  <2>1. v \in Nat
    BY <1>1, FrameTypes DEF ReturnValue
  <2> QED BY <1>1, <2>1, OneValueEvent, AppendedLog
<1>5. Outcome(Instr, Cur) = Finished(Append(L, <<v>>))
  <2>1. Outcome(Instr, Cur) = Delivered(Below, v, taken, L)
    BY <1>2, <1>3, DoneCases
  <2> QED BY <2>1 DEF Delivered
<1>6. /\ log' = [log EXCEPT ![side] = Append(L, <<v>>)] /\ taken' = 0
      /\ side' = IF side = "source" THEN "target" ELSE "done"
      /\ frames' = IF side = "source" THEN <<Frame(Initial)>> ELSE <<>>
      /\ UNCHANGED <<passVars, choices>>
  BY DEF Return, ReturnValue, Seen
<1> QED
  BY <1>4, <1>5, <1>6
-----------------------------------------------------------------------------
(* Part 2.  The run of the source.                                         *)

Extends(a, b) == Len(a) =< Len(b) /\ \A i \in 1 .. Len(a) : b[i] = a[i]

LEMMA AtInstr ==
    ASSUME NEW f \in Source, NEW fr, Standing(f, fr), fr.block # 0
    PROVE  LET c == f[fr.block]
               i == c[fr.pc]
           IN  /\ fr \in Frames /\ fr.block \in DOMAIN f /\ fr.block \in Nat \ {0}
               /\ FirstEnd(c) \in Nat /\ fr.pc \in 1 .. FirstEnd(c)
               /\ i \in Instruction /\ Proper(i)
               /\ i.op \in {"use", "endscope", "call"} \union Ends
               /\ i.op \in Ends <=> fr.pc = FirstEnd(c)
<1> DEFINE c == f[fr.block]
           i == c[fr.pc]
           e == FirstEnd(c)
<1>1. fr \in Frames /\ fr.block \in DOMAIN f /\ fr.pc \in 1 .. e
  BY DEF Standing
<1>2. /\ e \in 1 .. Len(c) /\ c[e].op \in Ends /\ \A j \in 1 .. e - 1 : c[j].op \notin Ends
      /\ Len(c) \in Nat /\ \A j \in 1 .. Len(c) : c[j] \in Instruction
  BY <1>1, FirstEndProperties
<1>3. fr.pc \in 1 .. Len(c)
  BY <1>1, <1>2
<1>4. i \in Instruction
  BY <1>2, <1>3
<1>5. /\ i.op \in {"use", "endscope", "call"} \union Ends
      /\ i.op = "call" => i.self \in BOOLEAN /\ i.args \in Arguments
      /\ i.op # "store"
  BY <1>4 DEF Instruction, Ends
<1>6. Proper(i)
  BY <1>5 DEF Proper
<1>7. i.op \in Ends <=> fr.pc = e
  <2>1. CASE fr.pc = e
    BY <1>2, <2>1
  <2>2. CASE fr.pc # e
    <3>1. fr.pc \in 1 .. e - 1
      BY <1>1, <1>2, <2>2
    <3> QED BY <1>2, <2>2, <3>1
  <2> QED BY <2>1, <2>2
<1>8. fr.block \in Nat \ {0} /\ e \in Nat
  BY <1>1, <1>2, FrameTypes
<1> QED
  BY <1>1, <1>4, <1>5, <1>6, <1>7, <1>8

LEMMA StateStays ==
    ASSUME NEW f, NEW R \in Seq(Frames), \A j \in 1 .. Len(R) : Waiting(f, R[j]),
           NEW fr, Standing(f, fr), NEW n \in Nat, NEW L \in Seq(Events)
    PROVE  State(R, fr, n, L) \in States(f)
<1>1. fr \in Frames
  BY DEF Standing
<1> DEFINE s == State(R, fr, n, L)
<1>2. s \in RunState /\ s.top = fr /\ s.below = R
  BY <1>1, StateType, StateParts
<1> HIDE DEF s
<1>3. s \in States(f)
  BY <1>2 DEF States
<1> QED
  BY <1>3 DEF s

LEMMA FinishedStays ==
    ASSUME NEW f, NEW L \in Seq(Events)
    PROVE  Finished(L) \in States(f)
<1>1. Standing(f, Frame(Initial))
  BY NewFrame, InitialValues DEF Standing
<1>2. Len(<<>>) = 0
  OBVIOUS
<1> DEFINE s == Finished(L)
<1>3. s \in RunState /\ s.top = Frame(Initial) /\ s.below = <<>>
  BY FinishedType, FinishedParts
<1> HIDE DEF s
<1>4. s \in States(f)
  BY <1>1, <1>2, <1>3 DEF States
<1> QED
  BY <1>4 DEF s

LEMMA DeliveredStays ==
    ASSUME NEW f \in Source, NEW R \in Seq(Frames), \A j \in 1 .. Len(R) : Waiting(f, R[j]),
           NEW v \in Nat, NEW n \in Nat, NEW L \in Seq(Events)
    PROVE  /\ Delivered(R, v, n, L) \in States(f)
           /\ Extends(L, Delivered(R, v, n, L).log)
<1>1. CASE R = <<>>
  <2>1. /\ Append(L, <<v>>) \in Seq(Events) /\ Len(Append(L, <<v>>)) = Len(L) + 1
        /\ \A i \in 1 .. Len(L) : Append(L, <<v>>)[i] = L[i]
    BY OneValueEvent, AppendedLog
  <2>2. Delivered(R, v, n, L) = Finished(Append(L, <<v>>))
    BY <1>1 DEF Delivered
  <2>3. Len(L) \in Nat
    BY LenProperties
  <2>4. Finished(Append(L, <<v>>)) \in States(f)
    BY <2>1, FinishedStays
  <2>5. Finished(Append(L, <<v>>)).log = Append(L, <<v>>)
    BY FinishedParts, Zenon
  <2>6. Extends(L, Append(L, <<v>>))
    BY <2>1, <2>3 DEF Extends
  <2> QED BY <2>2, <2>4, <2>5, <2>6
<1>2. CASE R # <<>>
  <2> DEFINE last == R[Len(R)]
  <2>1. /\ Outside(R) \in Seq(Frames) /\ Len(Outside(R)) = Len(R) - 1
        /\ \A i \in 1 .. Len(R) - 1 : Outside(R)[i] = R[i]
        /\ Len(R) \in Nat \ {0} /\ last \in Frames
    BY <1>2, OutsideParts
  <2>2. Delivered(R, v, n, L) = State(Outside(R), Resumed(last, v), n, L)
    BY <1>2 DEF Delivered
  <2>3. \A j \in 1 .. Len(Outside(R)) : Waiting(f, Outside(R)[j])
    BY <2>1
  <2>4. Waiting(f, last)
    BY <2>1
  <2>5. Standing(f, Resumed(last, v))
    <3>1. FirstEnd(f[last.block]) \in Nat
      BY <2>4, FirstEndProperties DEF Waiting
    <3>2. /\ last.block \in DOMAIN f /\ last.pc \in 1 .. FirstEnd(f[last.block]) - 1
      BY <2>4 DEF Waiting
    <3>3. /\ Resumed(last, v) \in Frames /\ Resumed(last, v).block = last.block
          /\ Resumed(last, v).pc = last.pc + 1
      BY <2>1, CalledFrame
    <3>4. last.pc + 1 \in 1 .. FirstEnd(f[last.block])
      BY <3>1, <3>2
    <3> QED BY <3>2, <3>3, <3>4 DEF Standing
  <2>6. Extends(L, L)
    BY LenProperties DEF Extends
  <2>7. State(Outside(R), Resumed(last, v), n, L) \in States(f)
    BY <2>1, <2>3, <2>5, StateStays
  <2>8. State(Outside(R), Resumed(last, v), n, L).log = L
    BY DEF State
  <2> QED BY <2>2, <2>6, <2>7, <2>8
<1> QED
  BY <1>1, <1>2

LEMMA ExtendsTransitive ==
    ASSUME NEW a \in Seq(Events), NEW b \in Seq(Events), NEW c \in Seq(Events),
           Extends(a, b), Extends(b, c)
    PROVE  Extends(a, c)
BY LenProperties DEF Extends

LEMMA MoveStays ==
    ASSUME NEW f \in Source, NEW ch \in Seq(DOMAIN f), NEW s \in States(f), CanMove(ch, s)
    PROVE  Move(f, ch, s) \in States(f) /\ Extends(s.log, Move(f, ch, s).log)
<1> DEFINE fr == s.top
           L == s.log
<1>1. /\ s.below \in Seq(Frames) /\ fr \in Frames /\ s.taken \in Nat /\ L \in Seq(Events)
      /\ Standing(f, fr) /\ \A j \in 1 .. Len(s.below) : Waiting(f, s.below[j])
  BY DEF States, RunState
<1>2. Extends(L, L)
  BY <1>1, LenProperties DEF Extends
<1>a. ASSUME NEW g, Standing(f, g), NEW n \in Nat,
             Move(f, ch, s) = State(s.below, g, n, L)
      PROVE  Move(f, ch, s) \in States(f) /\ Extends(L, Move(f, ch, s).log)
  <2>1. Move(f, ch, s) \in States(f)
    BY <1>1, <1>a, StateStays
  <2>2. Move(f, ch, s).log = L
    BY <1>a, StateParts
  <2> QED BY <1>2, <2>1, <2>2
<1>b. ASSUME NEW g, Standing(f, g), NEW v \in Events,
             Move(f, ch, s) = State(s.below, g, s.taken, Append(L, v))
      PROVE  Move(f, ch, s) \in States(f) /\ Extends(L, Move(f, ch, s).log)
  <2>1. /\ Append(L, v) \in Seq(Events) /\ Len(Append(L, v)) = Len(L) + 1
        /\ \A i \in 1 .. Len(L) : Append(L, v)[i] = L[i]
    BY <1>1, AppendedLog
  <2>2. Move(f, ch, s) \in States(f)
    BY <1>1, <1>b, <2>1, StateStays
  <2>3. Move(f, ch, s).log = Append(L, v)
    <3>1. State(s.below, g, s.taken, Append(L, v)).log = Append(L, v)
      BY DEF State
    <3> QED BY <1>b, <3>1
  <2>4. Len(L) \in Nat
    BY <1>1, LenProperties
  <2> QED BY <2>1, <2>2, <2>3, <2>4 DEF Extends
<1>3. CASE fr.block = 0
  <2> DEFINE b == ch[s.taken + 1]
  <2>1. s.taken + 1 \in 1 .. Len(ch)
    BY <1>1, <1>3, LenProperties DEF CanMove
  <2>2. b \in DOMAIN f
    BY <2>1, ElementOfSeq
  <2>3. b \in Nat
    BY <2>2, SourceBlocks
  <2>4. FirstEnd(f[b]) \in Nat /\ 1 \in 1 .. FirstEnd(f[b])
    BY <2>2, FirstEndProperties
  <2>5. Standing(f, Entered(fr, b))
    BY <1>1, <2>2, <2>3, <2>4, EnteredFrame DEF Standing
  <2>6. Move(f, ch, s) = State(s.below, Entered(fr, b), s.taken + 1, L)
    BY <1>3 DEF Move
  <2>7. s.taken + 1 \in Nat
    BY <1>1
  <2> QED BY <1>a, <2>5, <2>6, <2>7
<1>4. CASE fr.block # 0
  <2> DEFINE c == f[fr.block]
             i == c[fr.pc]
             e == FirstEnd(c)
  <2>1. /\ fr.block \in DOMAIN f /\ e \in Nat /\ fr.pc \in 1 .. e /\ Proper(i)
        /\ i.op \in {"use", "endscope", "call"} \union Ends
        /\ i.op \in Ends <=> fr.pc = e
    BY <1>1, <1>4, AtInstr
  <2>2. Move(f, ch, s) = Outcome(i, s)
    BY <1>4 DEF Move
  <2>3. i.op \notin Ends => fr.pc + 1 \in 1 .. e /\ fr.pc \in 1 .. e - 1
    BY <2>1
  <2>4. i.op \notin Ends => Standing(f, Stepped(fr))
    BY <1>1, <2>1, <2>3, SteppedFrame DEF Standing
  <2>5. CASE i.op = "use"
    <3>1. Outcome(i, s) = State(s.below, Stepped(fr), s.taken, Append(L, fr.var))
      BY <2>5, DoneCases
    <3>2. i.op \notin Ends /\ fr.var \in Events
      BY <1>1, <2>5, FrameTypes DEF Ends, Events
    <3> QED BY <1>b, <2>2, <2>4, <3>1, <3>2
  <2>6. CASE i.op = "endscope"
    <3>1. Outcome(i, s) = State(s.below, Stepped(fr), s.taken, L)
      BY <2>6, DoneCases
    <3>2. i.op \notin Ends
      BY <2>6 DEF Ends
    <3> QED BY <1>1, <1>a, <2>2, <2>4, <3>1, <3>2
  <2>7. CASE i.op = "call" /\ ~i.self
    <3> DEFINE v == Passed(fr, i.args)
    <3>1. Outcome(i, s) = State(s.below, Resumed(fr, v[1]), s.taken, Append(L, v))
      BY <2>7, DoneCases
    <3>2. i.op \notin Ends /\ v \in Values /\ v[1] \in Nat /\ v \in Events
      BY <1>1, <2>1, <2>7, PassedValues DEF Ends, Proper, Values, Params, Events
    <3>3. Standing(f, Resumed(fr, v[1]))
      BY <1>1, <2>1, <2>3, <3>2, CalledFrame DEF Standing
    <3> QED BY <1>b, <2>2, <3>1, <3>2, <3>3
  <2>8. CASE i.op = "call" /\ i.self
    <3> DEFINE v == Passed(fr, i.args)
               A == Append(s.below, fr)
    <3>1. Outcome(i, s) = State(A, Frame(v), s.taken, L)
      BY <2>8, DoneCases
    <3>2. i.op \notin Ends /\ v \in Values
      BY <1>1, <2>1, <2>8, PassedValues DEF Ends, Proper
    <3>3. Standing(f, Frame(v))
      BY <3>2, NewFrame DEF Standing
    <3>4. Waiting(f, fr)
      BY <1>1, <2>1, <2>3, <2>8, <3>2 DEF Waiting, IsSelfCall
    <3>5. /\ A \in Seq(Frames) /\ Len(A) = Len(s.below) + 1 /\ Len(s.below) \in Nat
          /\ A[Len(s.below) + 1] = fr /\ \A j \in 1 .. Len(s.below) : A[j] = s.below[j]
      BY <1>1, AppendParts
    <3>6. ASSUME NEW j \in 1 .. Len(A) PROVE Waiting(f, A[j])
      <4>1. CASE j = Len(s.below) + 1
        BY <3>4, <3>5, <4>1
      <4>2. CASE j # Len(s.below) + 1
        <5>1. j \in 1 .. Len(s.below)
          BY <3>5, <4>2
        <5> QED BY <1>1, <3>5, <5>1
      <4> QED BY <4>1, <4>2
    <3> HIDE DEF A
    <3>7. State(A, Frame(v), s.taken, L) \in States(f)
      BY <1>1, <3>3, <3>5, <3>6, StateStays
    <3>8. State(A, Frame(v), s.taken, L).log = L
      BY StateParts
    <3> QED BY <1>2, <2>2, <3>1, <3>7, <3>8
  <2>9. CASE i.op \in Ends
    <3> DEFINE v == ReturnValue(i, fr)
    <3>1. Outcome(i, s) = Delivered(s.below, v, s.taken, L)
      BY <2>9, DoneCases
    <3>2. v \in Nat
      BY <1>1, FrameTypes DEF ReturnValue
    <3> QED BY <1>1, <2>2, <3>1, <3>2, DeliveredStays
  <2>10. i.op = "call" => i.self \in BOOLEAN
    BY <2>1 DEF Proper
  <2> QED BY <2>1, <2>5, <2>6, <2>7, <2>8, <2>9, <2>10
<1> QED
  BY <1>3, <1>4

(* x comes after s, or is s.                                               *)
Reach(f, ch, s, x) ==
    \A S \in SUBSET States(f) :
        /\ s \in S
        /\ \A z \in S : CanMove(ch, z) => Move(f, ch, z) \in S
        => x \in S

LEMMA ReachMove ==
    ASSUME NEW f, NEW ch, NEW s, NEW z, Reach(f, ch, s, z), CanMove(ch, z)
    PROVE  Reach(f, ch, s, Move(f, ch, z))
BY DEF Reach

LEMMA ReachLater ==     \* when more branches are known
    ASSUME NEW f \in Source, NEW ch \in Seq(DOMAIN f), NEW b \in DOMAIN f, NEW s, NEW x,
           Reach(f, ch, s, x)
    PROVE  Reach(f, Append(ch, b), s, x)
<1> DEFINE ch2 == Append(ch, b)
<1>1. Len(ch2) = Len(ch) + 1 /\ Len(ch) \in Nat /\ \A i \in 1 .. Len(ch) : ch2[i] = ch[i]
  BY AppendProperties, LenProperties
<1> HIDE DEF ch2
<1>2. ASSUME NEW z \in States(f), CanMove(ch, z)
      PROVE  CanMove(ch2, z) /\ Move(f, ch2, z) = Move(f, ch, z)
  <2>1. z.taken \in Nat
    BY DEF States, RunState
  <2>2. z.top.block = 0 => z.taken < Len(ch2) /\ ch2[z.taken + 1] = ch[z.taken + 1]
    BY <1>1, <1>2, <2>1 DEF CanMove
  <2> QED BY <1>2, <2>2 DEF CanMove, Move
<1>3. Reach(f, ch2, s, x)
  <2> SUFFICES ASSUME NEW S \in SUBSET States(f), s \in S,
                      \A z \in S : CanMove(ch2, z) => Move(f, ch2, z) \in S
               PROVE  x \in S
    BY DEF Reach
  <2>1. \A z \in S : CanMove(ch, z) => Move(f, ch, z) \in S
    BY <1>2
  <2> QED BY <2>1 DEF Reach
<1> QED
  BY <1>3 DEF ch2

(* What comes after a state comes after the next one, or is the state.     *)
LEMMA ReachFirst ==
    ASSUME NEW f, NEW ch, NEW s \in States(f), NEW x, Reach(f, ch, s, x), x # s
    PROVE  CanMove(ch, s) /\ Reach(f, ch, Move(f, ch, s), x)
<1>1. CanMove(ch, s)
  <2> SUFFICES ASSUME ~CanMove(ch, s) PROVE FALSE
    OBVIOUS
  <2>1. {s} \in SUBSET States(f) /\ \A z \in {s} : CanMove(ch, z) => Move(f, ch, z) \in {s}
    OBVIOUS
  <2>2. x \in {s}
    BY <2>1 DEF Reach
  <2> QED BY <2>2
<1>2. Reach(f, ch, Move(f, ch, s), x)
  <2> SUFFICES ASSUME NEW S \in SUBSET States(f), Move(f, ch, s) \in S,
                      \A z \in S : CanMove(ch, z) => Move(f, ch, z) \in S
               PROVE  x \in S
    BY DEF Reach
  <2> DEFINE T == S \union {s}
  <2>1. T \in SUBSET States(f) /\ s \in T
    OBVIOUS
  <2>2. \A z \in T : CanMove(ch, z) => Move(f, ch, z) \in T
    OBVIOUS
  <2>3. x \in T
    BY <2>1, <2>2 DEF Reach
  <2> QED BY <2>3
<1> QED
  BY <1>1, <1>2

LEMMA ReachLog ==
    ASSUME NEW f \in Source, NEW ch \in Seq(DOMAIN f), NEW s \in States(f), NEW x,
           Reach(f, ch, s, x)
    PROVE  x \in States(f) /\ Extends(s.log, x.log)
<1> DEFINE S == {z \in States(f) : Extends(s.log, z.log)}
<1>1. \A z \in States(f) : z.log \in Seq(Events)
  BY DEF States, RunState
<1>2. s \in S
  BY <1>1, LenProperties DEF Extends
<1>3. ASSUME NEW z \in S, CanMove(ch, z) PROVE Move(f, ch, z) \in S
  <2>1. z \in States(f) /\ Extends(s.log, z.log)
    OBVIOUS
  <2>2. Move(f, ch, z) \in States(f) /\ Extends(z.log, Move(f, ch, z).log)
    BY <1>3, <2>1, MoveStays
  <2>3. Extends(s.log, Move(f, ch, z).log)
    BY <1>1, <2>1, <2>2, ExtendsTransitive
  <2> QED BY <2>2, <2>3
<1>4. S \in SUBSET States(f)
  OBVIOUS
<1> HIDE DEF S
<1>5. x \in S
  BY <1>2, <1>3, <1>4 DEF Reach
<1> QED
  BY <1>5 DEF S
-----------------------------------------------------------------------------
(* Part 3.  The activations of the two runs.                               *)

(* Its call became a jump: only the end of the function is behind it.      *)
Pending(f, fr) == LoopsBack(f[fr.block]) /\ fr.pc = TailOf(f[fr.block])
Alike(f, a, b) ==
    /\ a.block = b.block /\ a.pc = b.pc /\ a.var = b.var /\ a.tmp = b.tmp
    /\ ~Pending(f, a)

(* The target waits with the activations of the source that are not        *)
(* pending, in their order.                                                *)
Matches(f, R, B, h) ==
    /\ h \in [1 .. Len(B) -> 1 .. Len(R)]
    /\ \A i, j \in 1 .. Len(B) : i < j => h[i] < h[j]
    /\ \A i \in 1 .. Len(B) : Alike(f, R[h[i]], B[i])
    /\ \A m \in 1 .. Len(R) : (\A i \in 1 .. Len(B) : h[i] # m) => Pending(f, R[m])
Stacked(f, R, B) == \E h : Matches(f, R, B, h)

LEMMA StackedEmpty ==
    ASSUME NEW f
    PROVE  Stacked(f, <<>>, <<>>)
<1> DEFINE h == [i \in 1 .. 0 |-> 1]
<1>1. Len(<<>>) = 0
  OBVIOUS
<1>2. Matches(f, <<>>, <<>>, h)
  BY <1>1 DEF Matches
<1> QED
  BY <1>2 DEF Stacked

LEMMA StackedPending ==
    ASSUME NEW f, NEW R \in Seq(Frames), NEW B \in Seq(Frames), Stacked(f, R, B),
           NEW fr \in Frames, Pending(f, fr)
    PROVE  Stacked(f, Append(R, fr), B)
<1> DEFINE A == Append(R, fr)
<1>1. /\ Len(A) = Len(R) + 1 /\ Len(R) \in Nat /\ A[Len(R) + 1] = fr
      /\ \A i \in 1 .. Len(R) : A[i] = R[i]
  BY AppendParts
<1> HIDE DEF A
<1>2. PICK h : Matches(f, R, B, h)
  BY DEF Stacked
<1>3. h \in [1 .. Len(B) -> 1 .. Len(A)]
  BY <1>1, <1>2 DEF Matches
<1>4. \A i \in 1 .. Len(B) : Alike(f, A[h[i]], B[i])
  BY <1>1, <1>2 DEF Matches
<1>5. ASSUME NEW m \in 1 .. Len(A), \A i \in 1 .. Len(B) : h[i] # m
      PROVE  Pending(f, A[m])
  <2>1. CASE m = Len(R) + 1
    BY <1>1, <2>1
  <2>2. CASE m # Len(R) + 1
    <3>1. m \in 1 .. Len(R)
      BY <1>1, <2>2
    <3> QED BY <1>1, <1>2, <1>5, <3>1 DEF Matches
  <2> QED BY <2>1, <2>2
<1>6. \A i, j \in 1 .. Len(B) : i < j => h[i] < h[j]
  BY <1>2 DEF Matches
<1>7. Matches(f, A, B, h)
  BY <1>3, <1>4, <1>5, <1>6 DEF Matches
<1> QED
  BY <1>7 DEF A, Stacked

LEMMA StackedBoth ==
    ASSUME NEW f, NEW R \in Seq(Frames), NEW B \in Seq(Frames), Stacked(f, R, B),
           NEW a \in Frames, NEW b \in Frames, Alike(f, a, b)
    PROVE  Stacked(f, Append(R, a), Append(B, b))
<1> DEFINE A == Append(R, a)
           C == Append(B, b)
<1>1. /\ Len(A) = Len(R) + 1 /\ Len(R) \in Nat /\ A[Len(R) + 1] = a
      /\ \A i \in 1 .. Len(R) : A[i] = R[i]
  BY AppendParts
<1>2. /\ Len(C) = Len(B) + 1 /\ Len(B) \in Nat /\ C[Len(B) + 1] = b
      /\ \A i \in 1 .. Len(B) : C[i] = B[i]
  BY AppendParts
<1> HIDE DEF A, C
<1>3. PICK h : Matches(f, R, B, h)
  BY DEF Stacked
<1> DEFINE g == [i \in 1 .. Len(B) + 1 |-> IF i = Len(B) + 1 THEN Len(R) + 1 ELSE h[i]]
<1>4. \A i \in 1 .. Len(B) : h[i] \in 1 .. Len(R)
  BY <1>3 DEF Matches
<1>5. /\ g[Len(B) + 1] = Len(R) + 1 /\ \A i \in 1 .. Len(B) : g[i] = h[i]
      /\ \A i \in 1 .. Len(B) + 1 : i = Len(B) + 1 \/ i \in 1 .. Len(B)
  BY <1>2
<1>6. g \in [1 .. Len(C) -> 1 .. Len(A)]
  BY <1>1, <1>2, <1>4
<1> HIDE DEF g
<1>7. ASSUME NEW i \in 1 .. Len(C), NEW j \in 1 .. Len(C), i < j
      PROVE  g[i] < g[j]
  <2>1. i \in 1 .. Len(B)
    BY <1>2, <1>7
  <2>2. CASE j = Len(B) + 1
    <3>1. g[i] \in 1 .. Len(R) /\ g[j] = Len(R) + 1
      BY <1>4, <1>5, <2>1, <2>2
    <3> QED BY <1>1, <3>1
  <2>3. CASE j \in 1 .. Len(B)
    BY <1>3, <1>5, <1>7, <2>1, <2>3 DEF Matches
  <2> QED BY <1>2, <1>5, <2>2, <2>3
<1>8. ASSUME NEW i \in 1 .. Len(C)
      PROVE  Alike(f, A[g[i]], C[i])
  <2>1. CASE i = Len(B) + 1
    BY <1>1, <1>2, <1>5, <2>1
  <2>2. CASE i \in 1 .. Len(B)
    <3>1. A[g[i]] = R[h[i]] /\ C[i] = B[i]
      BY <1>1, <1>2, <1>4, <1>5, <2>2
    <3> QED BY <1>3, <2>2, <3>1 DEF Matches
  <2> QED BY <1>2, <1>5, <2>1, <2>2
<1>9. ASSUME NEW m \in 1 .. Len(A), \A i \in 1 .. Len(C) : g[i] # m
      PROVE  Pending(f, A[m])
  <2>1. Len(B) + 1 \in 1 .. Len(C) /\ 1 .. Len(B) \subseteq 1 .. Len(C)
    BY <1>2
  <2>2. m \in 1 .. Len(R)
    BY <1>1, <1>5, <1>9, <2>1
  <2>3. \A i \in 1 .. Len(B) : h[i] # m
    BY <1>5, <1>9, <2>1
  <2> QED BY <1>1, <1>3, <2>2, <2>3 DEF Matches
<1>10. Matches(f, A, C, g)
  BY <1>6, <1>7, <1>8, <1>9 DEF Matches
<1> QED
  BY <1>10 DEF A, C, Stacked

(* The innermost of the source is pending, or the match of the target's.   *)
LEMMA StackedInnermost ==
    ASSUME NEW f, NEW R \in Seq(Frames), NEW B \in Seq(Frames), Stacked(f, R, B)
    PROVE  /\ R = <<>> => B = <<>>
           /\ R # <<>> =>
                \/ Pending(f, R[Len(R)]) /\ Stacked(f, Outside(R), B)
                \/ /\ B # <<>> /\ Alike(f, R[Len(R)], B[Len(B)])
                   /\ Stacked(f, Outside(R), Outside(B))
<1>1. PICK h : Matches(f, R, B, h)
  BY DEF Stacked
<1>2. /\ h \in [1 .. Len(B) -> 1 .. Len(R)] /\ \A i \in 1 .. Len(B) : h[i] \in 1 .. Len(R)
      /\ \A i, j \in 1 .. Len(B) : i < j => h[i] < h[j]
      /\ \A i \in 1 .. Len(B) : Alike(f, R[h[i]], B[i])
      /\ \A m \in 1 .. Len(R) : (\A i \in 1 .. Len(B) : h[i] # m) => Pending(f, R[m])
  BY <1>1 DEF Matches
<1>3. Len(R) \in Nat /\ Len(B) \in Nat
  BY LenProperties
<1>4. R = <<>> => B = <<>>
  <2> SUFFICES ASSUME R = <<>>, B # <<>> PROVE FALSE
    OBVIOUS
  <2>1. 1 \in 1 .. Len(B)
    BY EmptySeq
  <2>2. Len(R) = 0
    OBVIOUS
  <2>3. h[1] \in 1 .. Len(R)
    BY <1>2, <2>1
  <2> QED BY <2>2, <2>3
<1>5. ASSUME R # <<>>
      PROVE  \/ Pending(f, R[Len(R)]) /\ Stacked(f, Outside(R), B)
             \/ /\ B # <<>> /\ Alike(f, R[Len(R)], B[Len(B)])
                /\ Stacked(f, Outside(R), Outside(B))
  <2> DEFINE O == Outside(R)
             l == Len(R)
  <2>1. /\ O \in Seq(Frames) /\ Len(O) = l - 1 /\ l \in Nat \ {0}
        /\ \A i \in 1 .. l - 1 : O[i] = R[i]
    BY <1>5, OutsideParts
  <2> HIDE DEF O
  <2>2. CASE \A i \in 1 .. Len(B) : h[i] # l
    <3>1. Pending(f, R[l])
      BY <1>2, <2>1, <2>2
    <3>2. \A i \in 1 .. Len(B) : h[i] \in 1 .. Len(O)
      BY <1>2, <2>1, <2>2
    <3>3. h \in [1 .. Len(B) -> 1 .. Len(O)]
      BY <1>2, <3>2
    <3>4. \A i \in 1 .. Len(B) : Alike(f, O[h[i]], B[i])
      BY <1>2, <2>1, <3>2
    <3>5. \A m \in 1 .. Len(O) : (\A i \in 1 .. Len(B) : h[i] # m) => Pending(f, O[m])
      BY <1>2, <2>1
    <3>6. Matches(f, O, B, h)
      BY <1>2, <3>3, <3>4, <3>5 DEF Matches
    <3> QED BY <3>1, <3>6 DEF Stacked, O
  <2>3. CASE \E i \in 1 .. Len(B) : h[i] = l
    <3>1. PICK k \in 1 .. Len(B) : h[k] = l
      BY <2>3
    <3>2. k = Len(B)
      <4> SUFFICES ASSUME k # Len(B) PROVE FALSE
        OBVIOUS
      <4>1. k < Len(B) /\ Len(B) \in 1 .. Len(B)
        BY <1>3, <3>1
      <4>2. h[k] < h[Len(B)] /\ h[Len(B)] \in 1 .. l
        BY <1>2, <4>1
      <4> QED BY <2>1, <3>1, <4>2
    <3>3. B # <<>>
      <4>1. Len(<<>>) = 0
        OBVIOUS
      <4> QED BY <3>1, <4>1
    <3>4. Alike(f, R[l], B[Len(B)])
      BY <1>2, <3>1, <3>2
    <3> DEFINE C == Outside(B)
               g == [i \in 1 .. Len(B) - 1 |-> h[i]]
    <3>5. /\ Len(C) = Len(B) - 1 /\ \A i \in 1 .. Len(B) - 1 : C[i] = B[i]
      BY <3>3, OutsideParts
    <3> HIDE DEF C
    <3>6. \A i \in 1 .. Len(B) - 1 : i \in 1 .. Len(B) /\ i < Len(B)
      BY <1>3
    <3>7. \A i \in 1 .. Len(B) - 1 : g[i] = h[i]
      OBVIOUS
    <3>8. \A i \in 1 .. Len(B) - 1 : h[i] \in 1 .. l - 1
      <4> TAKE i \in 1 .. Len(B) - 1
      <4>1. h[i] < h[Len(B)] /\ h[i] \in 1 .. l
        BY <1>2, <3>1, <3>2, <3>6
      <4> QED BY <2>1, <3>1, <3>2, <4>1
    <3>9. g \in [1 .. Len(C) -> 1 .. Len(O)]
      BY <2>1, <3>5, <3>8
    <3> HIDE DEF g
    <3>10. \A i, j \in 1 .. Len(C) : i < j => g[i] < g[j]
      BY <1>2, <3>5, <3>6, <3>7
    <3>11. \A i \in 1 .. Len(C) : Alike(f, O[g[i]], C[i])
      <4> TAKE i \in 1 .. Len(C)
      <4>1. i \in 1 .. Len(B) /\ C[i] = B[i] /\ g[i] = h[i] /\ O[g[i]] = R[h[i]]
        BY <2>1, <3>5, <3>6, <3>7, <3>8
      <4> QED BY <1>2, <4>1
    <3>12. ASSUME NEW m \in 1 .. Len(O), \A i \in 1 .. Len(C) : g[i] # m
           PROVE  Pending(f, O[m])
      <4>1. m \in 1 .. l /\ m # l /\ O[m] = R[m]
        <5>1. m \in 1 .. l - 1
          BY <2>1
        <5>2. O[m] = R[m]
          BY <2>1, <5>1
        <5>3. m \in 1 .. l /\ m # l
          BY <2>1, <5>1
        <5> QED BY <5>2, <5>3
      <4>2. ASSUME NEW i \in 1 .. Len(B) PROVE h[i] # m
        <5>1. CASE i = Len(B)
          BY <3>1, <3>2, <4>1, <5>1
        <5>2. CASE i # Len(B)
          <6>1. i \in 1 .. Len(B) - 1
            BY <1>3, <5>2
          <6> QED BY <3>5, <3>7, <3>12, <6>1
        <5> QED BY <5>1, <5>2
      <4> QED BY <1>2, <4>1, <4>2
    <3>13. Matches(f, O, C, g)
      BY <3>9, <3>10, <3>11, <3>12 DEF Matches
    <3> QED BY <3>3, <3>4, <3>13 DEF Stacked, C, O
  <2> QED BY <2>2, <2>3
<1> QED
  BY <1>4, <1>5
-----------------------------------------------------------------------------
(* Part 4.  A value on its way down the activations of the source.         *)

Level(f, a, b) ==       \* at the same place
    /\ b \in Frames /\ a.block = b.block /\ a.var = b.var
    /\ a.block # 0 =>
          /\ a.pc = b.pc /\ a.tmp = b.tmp
          /\ LoopsBack(f[a.block]) => a.pc =< TailOf(f[a.block])
          /\ (\E j \in 1 .. a.pc - 1 : f[a.block][j].op = "call") => a.result = b.result
Storing(f, a, b) ==     \* the target on its way from the call to the jump
    /\ b \in Frames /\ a.block # 0 /\ a.block = b.block /\ a.tmp = b.tmp /\ Pending(f, a)
    /\ LET args == f[a.block][a.pc].args
       IN  \/ b.pc = a.pc + 1 /\ b.var = [a.var EXCEPT ![1] = ValueIn(a, args[1])]
           \/ b.pc = a.pc + 2 /\ b.var = Passed(a, args)
Sim(f, s, t) ==
    \/ s.over /\ s = t
    \/ /\ ~s.over /\ ~t.over /\ t.below \in Seq(Frames)
       /\ s.taken = t.taken /\ s.log = t.log /\ Stacked(f, s.below, t.below)
       /\ Level(f, s.top, t.top) \/ Storing(f, s.top, t.top)

(* Every end returns what has been returned to it.                         *)
Returned(f, v) == v \in Nat /\ \A b \in DOMAIN f : f[b][FirstEnd(f[b])].op = "fend" => v = 0
Unwinding(f, u, B, v, n, L) ==
    LET c == f[u.top.block]
    IN  /\ u \in States(f) /\ ~u.over /\ u.taken = n /\ u.log = L
        /\ Stacked(f, u.below, B)
        /\ u.top.block # 0 /\ LoopsBack(c) /\ u.top.pc > TailOf(c)
        /\ c[FirstEnd(c)].op = "ret" => u.top.result = v

LEMMA WaitingPlace ==
    ASSUME NEW f \in Source, NEW fr, Waiting(f, fr)
    PROVE  LET c == f[fr.block]
           IN  /\ fr \in Frames /\ fr.block \in DOMAIN f /\ fr.block \in Nat \ {0}
               /\ FirstEnd(c) \in Nat /\ TailOf(c) \in Nat
               /\ fr.pc \in 1 .. FirstEnd(c) - 1 /\ c[fr.pc].op = "call" /\ fr.pc =< TailOf(c)
<1> DEFINE c == f[fr.block]
           k == TailOf(c)
<1>1. /\ fr \in Frames /\ fr.block \in DOMAIN f /\ fr.pc \in 1 .. FirstEnd(c) - 1
      /\ c[fr.pc].op = "call"
  BY DEF Waiting, IsSelfCall
<1>2. /\ FirstEnd(c) \in 1 .. Len(c) /\ Len(c) \in Nat /\ k \in 1 .. Len(c)
      /\ \A j \in k + 1 .. Len(c) : c[j].op \in Above
  BY <1>1, FirstEndProperties, TailOfProperties
<1>3. fr.pc =< k
  <2> SUFFICES ASSUME ~(fr.pc =< k) PROVE FALSE
    OBVIOUS
  <2>1. fr.pc \in k + 1 .. Len(c)
    BY <1>1, <1>2
  <2>2. c[fr.pc].op \in Above
    BY <1>2, <2>1
  <2> QED BY <1>1, <2>2 DEF Above
<1>4. fr.block \in Nat \ {0}
  BY <1>1, SourceBlocks
<1> QED
  BY <1>1, <1>2, <1>3, <1>4

(* A value returned into the waiting activations.                          *)
LEMMA DeliverSim ==
    ASSUME NEW f \in Source, NEW R \in Seq(Frames), \A j \in 1 .. Len(R) : Waiting(f, R[j]),
           NEW B \in Seq(Frames), Stacked(f, R, B),
           NEW v, Returned(f, v), NEW n \in Nat, NEW L \in Seq(Events)
    PROVE  \/ Sim(f, Delivered(R, v, n, L), Delivered(B, v, n, L))
           \/ Unwinding(f, Delivered(R, v, n, L), B, v, n, L)
<1> DEFINE s == Delivered(R, v, n, L)
           t == Delivered(B, v, n, L)
<1>0. v \in Nat
  BY DEF Returned
<1>1. s \in States(f)
  BY <1>0, DeliveredStays
<1>2. CASE R = <<>>
  <2>1. B = <<>>
    BY <1>2, StackedInnermost
  <2>2. s = Finished(Append(L, <<v>>)) /\ t = s
    BY <1>2, <2>1 DEF Delivered
  <2>3. s.over
    BY <2>2, FinishedParts
  <2> HIDE DEF s, t
  <2>4. Sim(f, s, t)
    BY <2>2, <2>3 DEF Sim
  <2> QED BY <2>4 DEF s, t
<1>3. CASE R # <<>>
  <2> DEFINE m == R[Len(R)]
             O == Outside(R)
             c == f[m.block]
  <2>1. O \in Seq(Frames) /\ Len(R) \in Nat \ {0} /\ m \in Frames
    BY <1>3, OutsideParts
  <2>2. Waiting(f, m)
    BY <2>1
  <2>3. /\ m.block \in DOMAIN f /\ m.block \in Nat \ {0} /\ TailOf(c) \in Nat
        /\ m.pc \in Nat /\ m.pc =< TailOf(c)
    BY <2>2, WaitingPlace
  <2>4. /\ Resumed(m, v) \in Frames /\ Resumed(m, v).block = m.block
        /\ Resumed(m, v).pc = m.pc + 1 /\ Resumed(m, v).var = m.var
        /\ Resumed(m, v).tmp = m.tmp /\ Resumed(m, v).result = v
    BY <1>0, <2>1, CalledFrame
  <2>5. s = State(O, Resumed(m, v), n, L)
    BY <1>3 DEF Delivered
  <2>6. s.below = O /\ s.top = Resumed(m, v) /\ s.taken = n /\ s.log = L /\ ~s.over
    BY <2>5, StateParts
  <2>7. CASE Pending(f, m) /\ Stacked(f, O, B)
    <3>1. LoopsBack(c) /\ m.pc + 1 > TailOf(c)
      BY <2>3, <2>7 DEF Pending
    <3>2. s.top.block # 0 /\ s.top.block = m.block /\ s.top.pc = m.pc + 1 /\ s.top.result = v
      BY <2>3, <2>4, <2>6
    <3> HIDE DEF s
    <3>3. Unwinding(f, s, B, v, n, L)
      BY <1>1, <2>6, <2>7, <3>1, <3>2 DEF Unwinding
    <3> QED BY <3>3 DEF s
  <2>8. CASE B # <<>> /\ Alike(f, m, B[Len(B)]) /\ Stacked(f, O, Outside(B))
    <3> DEFINE w == B[Len(B)]
    <3>1. w \in Frames /\ Outside(B) \in Seq(Frames)
      BY <2>8, OutsideParts
    <3>2. /\ Resumed(w, v) \in Frames /\ Resumed(w, v).block = w.block
          /\ Resumed(w, v).pc = w.pc + 1 /\ Resumed(w, v).var = w.var
          /\ Resumed(w, v).tmp = w.tmp /\ Resumed(w, v).result = v
      BY <1>0, <3>1, CalledFrame
    <3>3. m.block = w.block /\ m.pc = w.pc /\ m.var = w.var /\ m.tmp = w.tmp /\ ~Pending(f, m)
      BY <2>8 DEF Alike
    <3>4. LoopsBack(c) => m.pc + 1 =< TailOf(c)
      BY <2>3, <3>3 DEF Pending
    <3>5. Level(f, Resumed(m, v), Resumed(w, v))
      BY <2>4, <3>2, <3>3, <3>4 DEF Level
    <3>6. t = State(Outside(B), Resumed(w, v), n, L)
      BY <2>8 DEF Delivered
    <3>7. ~t.over /\ t.below = Outside(B) /\ t.top = Resumed(w, v) /\ t.taken = n /\ t.log = L
      BY <3>6, StateParts
    <3> HIDE DEF s, t
    <3>8. Sim(f, s, t)
      BY <2>6, <2>8, <3>1, <3>5, <3>7 DEF Sim
    <3> QED BY <3>8 DEF s, t
  <2> QED BY <1>3, <2>7, <2>8, StackedInnermost
<1> QED
  BY <1>2, <1>3

(* Behind a call in tail position the source returns what it was given.    *)
LEMMA UnwindStep ==
    ASSUME NEW f \in Source, NEW ch \in Seq(DOMAIN f), NEW B \in Seq(Frames),
           NEW v, Returned(f, v), NEW n \in Nat, NEW L \in Seq(Events),
           NEW u, Unwinding(f, u, B, v, n, L)
    PROVE  \/ Sim(f, Move(f, ch, u), Delivered(B, v, n, L))
           \/ Unwinding(f, Move(f, ch, u), B, v, n, L)
<1> DEFINE fr == u.top
           c == f[fr.block]
           k == TailOf(c)
           e == FirstEnd(c)
           i == c[fr.pc]
<1>1. /\ u \in States(f) /\ ~u.over /\ u.taken = n /\ u.log = L /\ Stacked(f, u.below, B)
      /\ fr.block # 0 /\ LoopsBack(c) /\ fr.pc > k
      /\ c[e].op = "ret" => fr.result = v
  BY DEF Unwinding
<1>2. /\ u.below \in Seq(Frames) /\ Standing(f, fr)
      /\ \A j \in 1 .. Len(u.below) : Waiting(f, u.below[j])
  BY <1>1 DEF States, RunState
<1>3. /\ fr \in Frames /\ fr.block \in DOMAIN f /\ e \in Nat /\ fr.pc \in 1 .. e
      /\ i.op \in Ends <=> fr.pc = e
  BY <1>1, <1>2, AtInstr
<1>4. e =< Len(c) /\ Len(c) \in Nat /\ k \in Nat /\ \A j \in k + 1 .. Len(c) : c[j].op \in Above
  BY <1>3, FirstEndProperties, TailOfProperties
<1>5. Move(f, ch, u) = Outcome(i, u)
  BY <1>1 DEF Move
<1>6. CASE fr.pc = e
  <2>1. i.op \in Ends /\ i = c[e]
    BY <1>3, <1>6
  <2>2. Outcome(i, u) = Delivered(u.below, ReturnValue(i, fr), n, L)
    BY <1>1, <2>1, DoneCases
  <2>3. ReturnValue(i, fr) = v
    <3>1. CASE i.op = "fend"
      BY <1>3, <2>1, <3>1 DEF ReturnValue, Returned
    <3>2. CASE i.op = "ret"
      <4>1. i.what = "result"
        BY <1>1, <1>3, <2>1, <3>2 DEF Source, Safe
      <4> QED BY <1>1, <2>1, <3>2, <4>1 DEF ReturnValue
    <3> QED BY <2>1, <3>1, <3>2 DEF Ends
  <2> QED BY <1>1, <1>2, <1>5, <2>2, <2>3, DeliverSim
<1>7. CASE fr.pc # e
  <2>1. fr.pc \in k + 1 .. Len(c) /\ fr.pc \in Nat /\ k < fr.pc + 1
    BY <1>1, <1>3, <1>4, <1>7
  <2>2. i.op \in Above /\ i.op \notin Ends
    BY <1>3, <1>4, <1>7, <2>1
  <2>3. i.op = "endscope"
    BY <2>2 DEF Above, Ends
  <2> DEFINE w == Move(f, ch, u)
  <2>4. w = State(u.below, Stepped(fr), n, L)
    BY <1>1, <1>5, <2>3, DoneCases
  <2>5. w.below = u.below /\ w.top = Stepped(fr) /\ w.taken = n /\ w.log = L /\ ~w.over
    BY <2>4, StateParts
  <2>6. Stepped(fr).block = fr.block /\ Stepped(fr).pc = fr.pc + 1 /\ Stepped(fr).result = fr.result
    BY <1>3, SteppedFrame
  <2>7. w \in States(f)
    <3>1. CanMove(ch, u)
      BY <1>1 DEF CanMove
    <3> QED BY <1>1, <3>1, MoveStays
  <2> HIDE DEF w
  <2>8. Unwinding(f, w, B, v, n, L)
    BY <1>1, <2>1, <2>5, <2>6, <2>7 DEF Unwinding
  <2> QED BY <2>8 DEF w
<1> QED
  BY <1>6, <1>7

(* The source gets to where the target is when it has returned.            *)
LEMMA CatchUp ==
    ASSUME NEW f \in Source, NEW ch \in Seq(DOMAIN f), NEW B \in Seq(Frames),
           NEW v, Returned(f, v), NEW n \in Nat, NEW L \in Seq(Events),
           NEW s \in States(f),
           Sim(f, s, Delivered(B, v, n, L)) \/ Unwinding(f, s, B, v, n, L),
           NEW x, x.over, Reach(f, ch, s, x)
    PROVE  \E y \in States(f) : Sim(f, y, Delivered(B, v, n, L)) /\ Reach(f, ch, y, x)
<1> DEFINE t == Delivered(B, v, n, L)
           Later(z) == \E y \in States(f) : Sim(f, y, t) /\ Reach(f, ch, y, z)
           T == {z \in States(f) : Unwinding(f, z, B, v, n, L) \/ Later(z)}
<1> HIDE DEF t
<1>1. \A y \in States(f) : Reach(f, ch, y, y)
  BY DEF Reach
<1>2. s \in T
  BY <1>1 DEF t
<1>3. ASSUME NEW z \in T, CanMove(ch, z) PROVE Move(f, ch, z) \in T
  <2>1. Move(f, ch, z) \in States(f)
    BY <1>3, MoveStays
  <2>2. CASE Unwinding(f, z, B, v, n, L)
    <3>1. Sim(f, Move(f, ch, z), t) \/ Unwinding(f, Move(f, ch, z), B, v, n, L)
      BY <2>2, UnwindStep DEF t
    <3> QED BY <1>1, <2>1, <3>1
  <2>3. CASE Later(z)
    <3>1. PICK y \in States(f) : Sim(f, y, t) /\ Reach(f, ch, y, z)
      BY <2>3
    <3>2. Reach(f, ch, y, Move(f, ch, z))
      BY <1>3, <3>1, ReachMove
    <3> QED BY <2>1, <3>1, <3>2
  <2> QED BY <2>2, <2>3
<1>4. T \in SUBSET States(f)
  OBVIOUS
<1>5. x \in T
  <2> HIDE DEF T
  <2> QED BY <1>2, <1>3, <1>4 DEF Reach
<1>6. ~Unwinding(f, x, B, v, n, L)
  BY DEF Unwinding
<1> QED
  BY <1>5, <1>6 DEF t
-----------------------------------------------------------------------------
(* Part 5.  The simulation.                                                *)

LEMMA SafeFacts ==
    ASSUME NEW f \in Source, NEW b \in DOMAIN f
    PROVE  LET c == f[b]
               last == c[FirstEnd(c)]
           IN  /\ \A d \in DOMAIN f : f[d][FirstEnd(f[d])].op = last.op
               /\ last.op = "ret" /\ last.what = "result" =>
                      \E j \in 1 .. FirstEnd(c) - 1 : c[j].op = "call"
               /\ LoopsBack(c) => NotReadLater(c[TailOf(c)].args)
<1>1. Safe(f)
  BY DEF Source
<1>2. \A d \in DOMAIN f : f[d][FirstEnd(f[d])].op = f[b][FirstEnd(f[b])].op
  BY <1>1 DEF Safe
<1>3. LoopsBack(f[b]) => NotReadLater(f[b][TailOf(f[b])].args)
  BY <1>1 DEF Safe
<1>4. LET c == f[b]
          last == c[FirstEnd(c)]
      IN  last.op = "ret" /\ last.what = "result" =>
              \E j \in 1 .. FirstEnd(c) - 1 : c[j].op = "call"
  BY <1>1 DEF Safe
<1> QED
  BY <1>2, <1>3, <1>4

(* The call in tail position of a block.                                   *)
LEMMA TailCall ==
    ASSUME NEW f \in Source, NEW b \in DOMAIN f, LoopsBack(f[b])
    PROVE  LET c == f[b]
               i == c[TailOf(c)]
           IN  /\ TailOf(c) \in 1 .. FirstEnd(c) - 1 /\ FirstEnd(c) \in Nat
               /\ i.op = "call" /\ i.self /\ i.args \in Arguments /\ NotReadLater(i.args)
<1> DEFINE c == f[b]
           k == TailOf(c)
<1>1. k \in 1 .. Len(c) /\ FirstEnd(c) \in 1 .. Len(c) /\ Len(c) \in Nat /\ c[k] \in Instruction
  BY TailOfProperties, FirstEndProperties
<1>2. c[k].op = "call" /\ c[k].self /\ k < FirstEnd(c)
  BY DEF LoopsBack, IsSelfCall
<1>3. c[k].args \in Arguments
  BY <1>1, <1>2, SelfCallArgs
<1> QED
  BY <1>1, <1>2, <1>3, SafeFacts

(* What stands where the target is.                                        *)
LEMMA SimInstr ==
    ASSUME NEW f \in Source, NEW a, Standing(f, a), a.block # 0, NEW b,
           Level(f, a, b) \/ Storing(f, a, b)
    PROVE  LET c == f[a.block]
               i == Transformed(f)[b.block][b.pc]
               args == c[a.pc].args
           IN  /\ b.block # 0 /\ Proper(i)
               /\ Level(f, a, b) /\ ~Pending(f, a) => i = c[a.pc]
               /\ Level(f, a, b) /\ Pending(f, a) => i = StoreOf(args, 1)
               /\ Storing(f, a, b) /\ b.pc = a.pc + 1 => i = StoreOf(args, 2)
               /\ Storing(f, a, b) /\ b.pc = a.pc + 2 => i = Jmp
<1> DEFINE c == f[a.block]
           k == TailOf(c)
           i == Transformed(f)[b.block][b.pc]
           args == c[a.pc].args
<1>1. /\ a \in Frames /\ a.block \in DOMAIN f /\ FirstEnd(c) \in Nat
      /\ a.pc \in 1 .. FirstEnd(c) /\ Proper(c[a.pc])
  BY AtInstr
<1>2. b.block = a.block
  BY DEF Level, Storing
<1>3. /\ \A j \in 1 .. FirstEnd(c) :
             ~(LoopsBack(c) /\ j >= k) => Transformed(f)[a.block][j] = c[j]
      /\ LoopsBack(c) => /\ k \in Nat
                         /\ Transformed(f)[a.block][k] = StoreOf(c[k].args, 1)
                         /\ Transformed(f)[a.block][k + 1] = StoreOf(c[k].args, 2)
                         /\ Transformed(f)[a.block][k + 2] = Jmp
  BY <1>1, TargetInstr
<1>4. Pending(f, a) => LoopsBack(c) /\ a.pc = k
  BY DEF Pending
<1>5. ASSUME Pending(f, a), NEW p \in Params PROVE Proper(StoreOf(args, p))
  <2>1. args \in Arguments
    BY <1>1, <1>4, <1>5, TailCall
  <2>2. args[p] \in ArgumentKinds
    BY <2>1 DEF Arguments, ArgumentKinds
  <2> QED BY <2>2 DEF Proper, StoreOf
<1>6. Proper(Jmp)
  BY DEF Proper, Jmp
<1>7. CASE Level(f, a, b) /\ ~Pending(f, a)
  <2>1. a.pc = b.pc /\ (LoopsBack(c) => a.pc =< k)
    BY <1>7 DEF Level
  <2>2. k \in Nat
    BY <1>1, TailOfProperties, FirstEndProperties
  <2>3. ~(LoopsBack(c) /\ a.pc >= k)
    BY <1>1, <1>7, <2>1, <2>2 DEF Pending
  <2>4. i = c[a.pc]
    BY <1>1, <1>2, <1>3, <2>1, <2>3
  <2>5. ~Storing(f, a, b)
    BY <1>7 DEF Storing
  <2> QED BY <1>1, <1>2, <1>7, <2>4, <2>5
<1>8. CASE Level(f, a, b) /\ Pending(f, a)
  <2>1. a.pc = b.pc
    BY <1>8 DEF Level
  <2>2. i = StoreOf(args, 1)
    BY <1>2, <1>3, <1>4, <1>8, <2>1
  <2>3. ~(b.pc = a.pc + 1) /\ ~(b.pc = a.pc + 2)
    BY <1>1, <2>1
  <2>4. Proper(i)
    BY <1>5, <1>8, <2>2 DEF Params
  <2> QED BY <1>2, <1>8, <2>2, <2>3, <2>4
<1>9. CASE Storing(f, a, b)
  <2>1. Pending(f, a) /\ (b.pc = a.pc + 1 \/ b.pc = a.pc + 2)
    BY <1>9 DEF Storing
  <2>2. a.pc + 1 # a.pc + 2 /\ a.pc # a.pc + 1 /\ a.pc # a.pc + 2
    BY <1>1
  <2>3. ~Level(f, a, b)
    BY <2>1, <2>2 DEF Level
  <2>4. b.pc = a.pc + 1 => i = StoreOf(args, 2)
    BY <1>2, <1>3, <1>4, <2>1
  <2>5. b.pc = a.pc + 2 => i = Jmp
    BY <1>2, <1>3, <1>4, <2>1
  <2>6. Proper(i)
    BY <1>5, <1>6, <2>1, <2>4, <2>5 DEF Params
  <2> QED BY <1>2, <2>2, <2>3, <2>4, <2>5, <2>6
<1> QED
  BY <1>7, <1>8, <1>9

(* The run of the target is where some moment of the run of the source is, *)
(* from which that run ends at x.                                          *)
Followed(f, ch, t, x) == \E s \in States(f) : Sim(f, s, t) /\ Reach(f, ch, s, x)

(* Both at the same place, and not at a call that became a jump.           *)
LEMMA LevelMove ==
    ASSUME NEW f \in Source, NEW ch \in Seq(DOMAIN f), NEW s \in States(f), NEW t, NEW x,
           ~s.over, t.below \in Seq(Frames), s.taken = t.taken, s.log = t.log,
           Stacked(f, s.below, t.below), Level(f, s.top, t.top),
           s.top.block # 0, ~Pending(f, s.top),
           x.over, Reach(f, ch, s, x)
    PROVE  Followed(f, ch, Outcome(f[s.top.block][s.top.pc], t), x)
<1> DEFINE a == s.top
           b == t.top
           L == s.log
           c == f[a.block]
           i == c[a.pc]
           e == FirstEnd(c)
           s2 == Move(f, ch, s)
           t2 == Outcome(i, t)
<1> SUFFICES Followed(f, ch, t2, x)
  OBVIOUS
<1>1. /\ s.below \in Seq(Frames) /\ a \in Frames /\ s.taken \in Nat /\ L \in Seq(Events)
      /\ Standing(f, a) /\ \A j \in 1 .. Len(s.below) : Waiting(f, s.below[j])
  BY DEF States, RunState
<1>2. /\ a.block \in DOMAIN f /\ e \in Nat /\ a.pc \in 1 .. e /\ Proper(i)
      /\ i.op \in {"use", "endscope", "call"} \union Ends
      /\ i.op \in Ends <=> a.pc = e
  BY <1>1, AtInstr
<1>3. CanMove(ch, s) /\ Reach(f, ch, s2, x)
  <2>1. x # s
    OBVIOUS
  <2> QED BY <2>1, ReachFirst
<1>4. s2 \in States(f)
  BY <1>3, MoveStays
<1>5. s2 = Outcome(i, s)
  BY DEF Move
<1>6. /\ b \in Frames /\ a.block = b.block /\ a.var = b.var /\ a.pc = b.pc /\ a.tmp = b.tmp
      /\ LoopsBack(c) => a.pc =< TailOf(c)
      /\ (\E j \in 1 .. a.pc - 1 : c[j].op = "call") => a.result = b.result
  BY DEF Level
<1>7. LoopsBack(c) => a.pc + 1 =< TailOf(c)
  <2>1. TailOf(c) \in Nat
    BY <1>2, TailOfProperties, FirstEndProperties
  <2> QED BY <1>2, <1>6, <2>1 DEF Pending
<1>8. ASSUME NEW g \in Frames, NEW h \in Frames, NEW M,
             g.block = a.block, h.block = a.block, g.pc = a.pc + 1, h.pc = a.pc + 1,
             g.var = h.var, g.tmp = h.tmp,
             (\E j \in 1 .. a.pc : c[j].op = "call") => g.result = h.result,
             s2 = State(s.below, g, s.taken, M), t2 = State(t.below, h, t.taken, M)
      PROVE  Followed(f, ch, t2, x)
  <2>1. g.pc - 1 = a.pc
    BY <1>2, <1>8
  <2>a. g.var = h.var /\ g.tmp = h.tmp /\ g.pc = h.pc /\ g.block = h.block
    BY <1>8
  <2>b. LoopsBack(f[g.block]) => g.pc =< TailOf(f[g.block])
    BY <1>7, <1>8
  <2>c. (\E j \in 1 .. g.pc - 1 : f[g.block][j].op = "call") => g.result = h.result
    BY <1>8, <2>1
  <2>2. Level(f, g, h)
    BY <2>a, <2>b, <2>c DEF Level
  <2>3. ~s2.over /\ s2.below = s.below /\ s2.top = g /\ s2.taken = s.taken /\ s2.log = M
    BY <1>8, StateParts
  <2>4. ~t2.over /\ t2.below = t.below /\ t2.top = h /\ t2.taken = t.taken /\ t2.log = M
    BY <1>8, StateParts
  <2> HIDE DEF s2, t2
  <2>5. Sim(f, s2, t2)
    BY <2>2, <2>3, <2>4 DEF Sim
  <2> QED BY <1>3, <1>4, <2>5 DEF Followed
<1>9. /\ Stepped(a) \in Frames /\ Stepped(a).block = a.block /\ Stepped(a).pc = a.pc + 1
      /\ Stepped(a).var = a.var /\ Stepped(a).tmp = a.tmp /\ Stepped(a).result = a.result
      /\ Stepped(b) \in Frames /\ Stepped(b).block = a.block /\ Stepped(b).pc = a.pc + 1
      /\ Stepped(b).var = a.var /\ Stepped(b).tmp = a.tmp /\ Stepped(b).result = b.result
  BY <1>1, <1>6, SteppedFrame
<1>10. i.op # "call" /\ (\E j \in 1 .. a.pc : c[j].op = "call") => a.result = b.result
  <2> SUFFICES ASSUME i.op # "call", NEW j \in 1 .. a.pc, c[j].op = "call"
               PROVE  a.result = b.result
    OBVIOUS
  <2>1. j \in 1 .. a.pc - 1
    BY <1>2
  <2> QED BY <1>6, <2>1
<1>11. CASE i.op = "use"
  <2>1. s2 = State(s.below, Stepped(a), s.taken, Append(L, a.var))
    BY <1>5, <1>11, DoneCases
  <2>2. t2 = State(t.below, Stepped(b), t.taken, Append(L, a.var))
    BY <1>6, <1>11, DoneCases
  <2>3. (\E j \in 1 .. a.pc : c[j].op = "call") => a.result = b.result
    BY <1>10, <1>11
  <2> HIDE DEF s2, t2
  <2> QED BY <1>8, <1>9, <2>1, <2>2, <2>3
<1>12. CASE i.op = "endscope"
  <2>1. s2 = State(s.below, Stepped(a), s.taken, L)
    BY <1>5, <1>12, DoneCases
  <2>2. t2 = State(t.below, Stepped(b), t.taken, L)
    BY <1>12, DoneCases
  <2>3. (\E j \in 1 .. a.pc : c[j].op = "call") => a.result = b.result
    BY <1>10, <1>12
  <2> HIDE DEF s2, t2
  <2> QED BY <1>8, <1>9, <2>1, <2>2, <2>3
<1> DEFINE v == Passed(a, i.args)
<1>13. i.op = "call" => /\ i.self \in BOOLEAN /\ v \in Values /\ v[1] \in Nat
                        /\ Passed(b, i.args) = v
  <2> SUFFICES ASSUME i.op = "call"
               PROVE  i.self \in BOOLEAN /\ v \in Values /\ v[1] \in Nat /\ Passed(b, i.args) = v
    OBVIOUS
  <2>1. i.self \in BOOLEAN /\ i.args \in Arguments
    BY <1>2 DEF Proper
  <2>2. v \in Values
    BY <1>1, <2>1, PassedValues
  <2>3. v[1] \in Nat
    BY <2>2 DEF Values, Params
  <2>4. Passed(b, i.args) = v
    BY <1>6 DEF Passed, ValueIn
  <2> QED BY <2>1, <2>2, <2>3, <2>4
<1>14. CASE i.op = "call" /\ ~i.self
  <2>1. s2 = State(s.below, Resumed(a, v[1]), s.taken, Append(L, v))
    BY <1>5, <1>14, DoneCases
  <2>2. t2 = State(t.below, Resumed(b, v[1]), t.taken, Append(L, v))
    BY <1>13, <1>14, DoneCases
  <2>3. /\ Resumed(a, v[1]) \in Frames /\ Resumed(a, v[1]).block = a.block
        /\ Resumed(a, v[1]).pc = a.pc + 1 /\ Resumed(a, v[1]).var = a.var
        /\ Resumed(a, v[1]).tmp = a.tmp /\ Resumed(a, v[1]).result = v[1]
    BY <1>1, <1>13, <1>14, CalledFrame
  <2>4. /\ Resumed(b, v[1]) \in Frames /\ Resumed(b, v[1]).block = a.block
        /\ Resumed(b, v[1]).pc = a.pc + 1 /\ Resumed(b, v[1]).var = a.var
        /\ Resumed(b, v[1]).tmp = a.tmp /\ Resumed(b, v[1]).result = v[1]
    <3>1. v[1] \in Nat
      BY <1>13, <1>14
    <3> HIDE DEF v
    <3>2. /\ Resumed(b, v[1]) \in Frames /\ Resumed(b, v[1]).block = b.block
          /\ Resumed(b, v[1]).pc = b.pc + 1 /\ Resumed(b, v[1]).var = b.var
          /\ Resumed(b, v[1]).tmp = b.tmp /\ Resumed(b, v[1]).result = v[1]
      BY <1>6, <3>1, CalledFrame
    <3> QED BY <1>6, <3>2
  <2> HIDE DEF s2, t2, v
  <2> QED BY <1>8, <2>1, <2>2, <2>3, <2>4
<1>15. CASE i.op = "call" /\ i.self
  <2> DEFINE A == Append(s.below, a)
             B == Append(t.below, b)
  <2>1. s2 = State(A, Frame(v), s.taken, L)
    BY <1>5, <1>15, DoneCases
  <2>2. t2 = State(B, Frame(v), t.taken, L)
    BY <1>13, <1>15, DoneCases
  <2>3. Alike(f, a, b)
    BY <1>6 DEF Alike
  <2>4. Stacked(f, A, B) /\ B \in Seq(Frames)
    BY <1>1, <1>6, <2>3, StackedBoth, AppendParts
  <2>5. Level(f, Frame(v), Frame(v))
    BY <1>13, <1>15, NewFrame DEF Level
  <2> HIDE DEF s2, t2, A, B, v
  <2>6. ~s2.over /\ s2.below = A /\ s2.top = Frame(v) /\ s2.taken = s.taken /\ s2.log = L
    BY <2>1, StateParts
  <2>7. ~t2.over /\ t2.below = B /\ t2.top = Frame(v) /\ t2.taken = t.taken /\ t2.log = L
    BY <2>2, StateParts
  <2>8. Sim(f, s2, t2)
    BY <2>4, <2>5, <2>6, <2>7 DEF Sim
  <2> QED BY <1>3, <1>4, <2>8 DEF Followed
<1>16. CASE i.op \in Ends
  <2> DEFINE r == ReturnValue(i, a)
  <2>1. a.pc = e /\ i = c[e]
    BY <1>2, <1>16
  <2>2. s2 = Delivered(s.below, r, s.taken, L)
    BY <1>5, <1>16, DoneCases
  <2>3. ReturnValue(i, b) = r
    <3>1. CASE i.op = "ret" /\ i.what = "result"
      <4>1. \E j \in 1 .. a.pc - 1 : c[j].op = "call"
        BY <1>2, <2>1, <3>1, SafeFacts
      <4> QED BY <1>6, <3>1, <4>1 DEF ReturnValue
    <3>2. CASE ~(i.op = "ret" /\ i.what = "result")
      BY <1>6, <1>16, <3>2 DEF ReturnValue, Ends
    <3> QED BY <3>1, <3>2
  <2>4. t2 = Delivered(t.below, r, s.taken, L)
    BY <1>16, <2>3, DoneCases
  <2>5. Returned(f, r)
    <3>1. r \in Nat
      BY <1>1, FrameTypes DEF ReturnValue
    <3>2. ASSUME NEW d \in DOMAIN f, f[d][FirstEnd(f[d])].op = "fend" PROVE r = 0
      <4>1. i.op = "fend"
        BY <1>2, <2>1, <3>2, SafeFacts
      <4> QED BY <4>1 DEF ReturnValue
    <3> QED BY <3>1, <3>2 DEF Returned
  <2> HIDE DEF r
  <2>6. Sim(f, s2, Delivered(t.below, r, s.taken, L)) \/ Unwinding(f, s2, t.below, r, s.taken, L)
    BY <1>1, <2>2, <2>5, DeliverSim
  <2> HIDE DEF s2
  <2>7. \E y \in States(f) : Sim(f, y, Delivered(t.below, r, s.taken, L)) /\ Reach(f, ch, y, x)
    BY <1>1, <1>3, <1>4, <2>5, <2>6, CatchUp
  <2> QED BY <2>4, <2>7 DEF Followed
<1> QED
  BY <1>2, <1>11, <1>12, <1>13, <1>14, <1>15, <1>16

(* The stores put in place what the call passes.                           *)
LEMMA StoresPass ==
    ASSUME NEW a \in Frames, NEW args \in Arguments, NotReadLater(args), NEW b \in Frames,
           b.tmp = a.tmp, b.var = [a.var EXCEPT ![1] = ValueIn(a, args[1])]
    PROVE  [b.var EXCEPT ![2] = ValueIn(b, args[2])] = Passed(a, args)
<1> DEFINE x == ValueIn(a, args[1])
           y == ValueIn(a, args[2])
           w == Passed(a, args)
<1>1. x \in Nat /\ y \in Nat /\ w \in Values /\ w[1] = x /\ w[2] = y
  <2>1. 1 \in Params /\ 2 \in Params
    BY DEF Params
  <2> QED BY <2>1, PassedValues
<1>2. a.var \in Values /\ b.var[2] = a.var[2] /\ b.var[1] = x
  BY FrameTypes DEF Values, Params
<1>3. /\ args[1].kind \in {"variable", "temporary"} /\ args[1].p \in Params
      /\ args[2].kind \in {"variable", "temporary"} /\ args[2].p \in Params
  BY DEF Arguments, Params
<1>4. ValueIn(b, args[2]) = y
  <2>1. CASE args[2].kind # "variable"
    BY <2>1 DEF ValueIn
  <2>2. CASE args[2].kind = "variable" /\ args[2].p = 2
    BY <1>2, <2>2 DEF ValueIn
  <2>3. CASE args[2].kind = "variable" /\ args[2].p = 1
    <3>1. args[1].kind = "variable" /\ args[1].p = 1
      BY <2>3 DEF NotReadLater
    <3>2. x = a.var[1] /\ y = a.var[1]
      BY <2>3, <3>1 DEF ValueIn
    <3> QED BY <1>2, <2>3, <3>2 DEF ValueIn
  <2> QED BY <1>3, <2>1, <2>2, <2>3 DEF Params
<1>5. b.var \in Values
  BY FrameTypes
<1> HIDE DEF x, y, w
<1>6. [b.var EXCEPT ![2] = y] = w
  BY <1>1, <1>2, <1>5 DEF Values, Params
<1> QED
  BY <1>4, <1>6 DEF w

(* A step of the target is some steps of the source, or none.              *)
LEMMA SimStep ==
    ASSUME NEW f \in Source, NEW ch \in Seq(DOMAIN f), NEW t, ~t.over, NEW x, x.over,
           Followed(f, ch, t, x)
    PROVE  Followed(f, ch, Move(Transformed(f), ch, t), x)
<1> DEFINE t2 == Move(Transformed(f), ch, t)
<1>1. PICK s \in States(f) : Sim(f, s, t) /\ Reach(f, ch, s, x)
  BY DEF Followed
<1> DEFINE a == s.top
           b == t.top
           c == f[a.block]
           i == Transformed(f)[b.block][b.pc]
           args == c[a.pc].args
           s2 == Move(f, ch, s)
<1>2. /\ ~s.over /\ t.below \in Seq(Frames)
      /\ s.taken = t.taken /\ s.log = t.log /\ Stacked(f, s.below, t.below)
      /\ Level(f, a, b) \/ Storing(f, a, b)
  BY <1>1 DEF Sim
<1>3. /\ s.below \in Seq(Frames) /\ a \in Frames /\ s.taken \in Nat /\ s.log \in Seq(Events)
      /\ Standing(f, a)
  BY DEF States, RunState
<1>4. /\ CanMove(ch, s) /\ Reach(f, ch, s2, x) /\ s2 \in States(f)
  <2>1. x # s
    BY <1>2
  <2>2. CanMove(ch, s) /\ Reach(f, ch, s2, x)
    BY <1>1, <2>1, ReachFirst
  <2> QED BY <2>2, MoveStays
<1>5. CASE a.block = 0
  <2>1. Level(f, a, b) /\ b.block = 0 /\ b.var = a.var /\ b \in Frames
    BY <1>2, <1>5 DEF Level, Storing
  <2> DEFINE d == ch[s.taken + 1]
             n == s.taken + 1
  <2>2. d \in DOMAIN f
    <3>1. s.taken + 1 \in 1 .. Len(ch)
      BY <1>3, <1>4, <1>5, LenProperties DEF CanMove
    <3> QED BY <3>1, ElementOfSeq
  <2>3. d \in Nat /\ d # 0
    BY <2>2, SourceBlocks
  <2>4. s2 = State(s.below, Entered(a, d), n, s.log)
    BY <1>5 DEF Move
  <2>5. t2 = State(t.below, Entered(b, d), n, t.log)
    BY <1>2, <2>1 DEF Move
  <2> HIDE DEF s2, t2, n
  <2>6. /\ Entered(a, d) \in Frames /\ Entered(a, d).block = d /\ Entered(a, d).pc = 1
        /\ Entered(a, d).var = a.var /\ Entered(a, d).tmp = [p \in Params |-> a.var[p] + 1]
    BY <1>3, <2>3, EnteredFrame
  <2>7. /\ Entered(b, d) \in Frames /\ Entered(b, d).block = d /\ Entered(b, d).pc = 1
        /\ Entered(b, d).var = a.var /\ Entered(b, d).tmp = [p \in Params |-> a.var[p] + 1]
    BY <2>1, <2>3, EnteredFrame
  <2>8. 1 =< TailOf(f[d])
    BY <2>2, TailOfProperties, FirstEndProperties
  <2> DEFINE g == Entered(a, d)
             h == Entered(b, d)
  <2>9. Level(f, g, h)
    <3>1. g.block = d /\ h.block = d /\ g.pc = 1 /\ h.pc = 1 /\ g.var = h.var /\ g.tmp = h.tmp /\ h \in Frames
      BY <2>6, <2>7
    <3> HIDE DEF g, h
    <3>2. \A j \in 1 .. g.pc - 1 : FALSE
      BY <3>1
    <3> QED BY <2>8, <3>1, <3>2 DEF Level
  <2> HIDE DEF g, h
  <2>10. ~s2.over /\ s2.below = s.below /\ s2.top = g /\ s2.taken = n /\ s2.log = s.log
    BY <2>4, StateParts DEF g
  <2>11. ~t2.over /\ t2.below = t.below /\ t2.top = h /\ t2.taken = n /\ t2.log = t.log
    BY <2>5, StateParts DEF h
  <2>12. Sim(f, s2, t2)
    BY <1>2, <2>9, <2>10, <2>11 DEF Sim
  <2> QED BY <1>4, <2>12 DEF Followed, t2
<1>6. CASE a.block # 0
  <2>1. /\ b.block # 0
        /\ Level(f, a, b) /\ ~Pending(f, a) => i = c[a.pc]
        /\ Level(f, a, b) /\ Pending(f, a) => i = StoreOf(args, 1)
        /\ Storing(f, a, b) /\ b.pc = a.pc + 1 => i = StoreOf(args, 2)
        /\ Storing(f, a, b) /\ b.pc = a.pc + 2 => i = Jmp
    BY <1>2, <1>3, <1>6, SimInstr
  <2>2. t2 = Outcome(i, t)
    BY <2>1 DEF Move
  <2>3. CASE Level(f, a, b) /\ ~Pending(f, a)
    BY <1>1, <1>2, <1>6, <2>1, <2>2, <2>3, LevelMove
  <2>4. ASSUME Pending(f, a)
        PROVE  /\ c[a.pc].op = "call" /\ c[a.pc].self /\ args \in Arguments /\ NotReadLater(args)
               /\ Passed(a, args) \in Values /\ a.block \in DOMAIN f
               /\ \A p \in Params : Passed(a, args)[p] = ValueIn(a, args[p]) /\ ValueIn(a, args[p]) \in Nat
    <3>1. a.block \in DOMAIN f
      BY <1>3, <1>6 DEF Standing
    <3>2. c[a.pc].op = "call" /\ c[a.pc].self /\ args \in Arguments /\ NotReadLater(args)
      BY <2>4, <3>1, TailCall DEF Pending
    <3> QED BY <1>3, <3>1, <3>2, PassedValues
  <2>5. ASSUME NEW h, t2 = State(t.below, h, t.taken, t.log), Storing(f, a, h)
        PROVE  Followed(f, ch, t2, x)
    <3>1. ~t2.over /\ t2.below = t.below /\ t2.top = h /\ t2.taken = t.taken /\ t2.log = t.log
      BY <2>5, StateParts
    <3> HIDE DEF t2
    <3>2. Sim(f, s, t2)
      BY <1>2, <2>5, <3>1 DEF Sim
    <3> QED BY <1>1, <3>2 DEF Followed
  <2>6. CASE Level(f, a, b) /\ Pending(f, a)
    <3> DEFINE v == ValueIn(a, args[1])
               h == Stored(b, 1, v)
    <3>1. b \in Frames /\ b.block = a.block /\ b.var = a.var /\ b.tmp = a.tmp /\ b.pc = a.pc
      BY <1>6, <2>6 DEF Level
    <3>2. i.op = "store" /\ i.to = 1 /\ i.arg = args[1]
      BY <2>1, <2>6 DEF StoreOf
    <3>3. ValueIn(b, args[1]) = v
      BY <3>1 DEF ValueIn
    <3>4. t2 = State(t.below, h, t.taken, t.log)
      BY <2>2, <3>2, <3>3, DoneCases
    <3>5. v \in Nat /\ 1 \in Params
      BY <2>4, <2>6 DEF Params
    <3>6. /\ h \in Frames /\ h.block = a.block /\ h.pc = a.pc + 1
          /\ h.var = [a.var EXCEPT ![1] = v] /\ h.tmp = a.tmp
      <4> HIDE DEF v
      <4>1. /\ h \in Frames /\ h.block = b.block /\ h.pc = b.pc + 1
            /\ h.var = [b.var EXCEPT ![1] = v] /\ h.tmp = b.tmp
        BY <3>1, <3>5, StoredFrame, Zenon
      <4> QED BY <3>1, <4>1
    <3> HIDE DEF h, t2
    <3>7. Storing(f, a, h)
      BY <1>6, <2>6, <3>6 DEF Storing
    <3>8. Followed(f, ch, t2, x)
      BY <2>5, <3>4, <3>7
    <3> QED BY <3>8 DEF t2
  <2>7. CASE Storing(f, a, b) /\ b.pc = a.pc + 1
    <3> DEFINE v == ValueIn(b, args[2])
               h == Stored(b, 2, v)
    <3>1. /\ b \in Frames /\ b.block = a.block /\ b.tmp = a.tmp /\ Pending(f, a)
          /\ b.var = [a.var EXCEPT ![1] = ValueIn(a, args[1])]
      <4>1. a.pc + 1 # a.pc + 2
        BY <1>3, FrameTypes
      <4> QED BY <2>7, <4>1 DEF Storing
    <3>2. i.op = "store" /\ i.to = 2 /\ i.arg = args[2]
      BY <2>1, <2>7 DEF StoreOf
    <3>4. t2 = State(t.below, h, t.taken, t.log)
      BY <2>2, <3>2, DoneCases
    <3>5. v \in Nat /\ 2 \in Params
      <4>1. 2 \in Params
        BY DEF Params
      <4> QED BY <2>4, <3>1, <4>1, PassedValues
    <3>6. [b.var EXCEPT ![2] = v] = Passed(a, args)
      <4>1. a \in Frames /\ args \in Arguments /\ NotReadLater(args)
        BY <1>3, <2>4, <3>1
      <4> HIDE DEF a, b, c, args
      <4> QED BY <3>1, <4>1, StoresPass
    <3>7. /\ h \in Frames /\ h.block = a.block /\ h.pc = b.pc + 1
          /\ h.var = Passed(a, args) /\ h.tmp = a.tmp
      <4> HIDE DEF a, b, c, args, v
      <4>1. /\ Stored(b, 2, v) \in Frames /\ Stored(b, 2, v).block = b.block
            /\ Stored(b, 2, v).pc = b.pc + 1 /\ Stored(b, 2, v).tmp = b.tmp
            /\ Stored(b, 2, v).var = [b.var EXCEPT ![2] = v]
        BY <3>1, <3>5, StoredFrame
      <4> QED BY <3>1, <3>6, <4>1
    <3>8. h.pc = a.pc + 2
      <4>1. a.pc \in Nat
        BY <1>3, FrameTypes
      <4> HIDE DEF a, b, h
      <4> QED BY <2>7, <3>7, <4>1
    <3> HIDE DEF h, t2
    <3>9. Storing(f, a, h)
      BY <1>6, <3>1, <3>7, <3>8 DEF Storing
    <3>10. Followed(f, ch, t2, x)
      BY <2>5, <3>4, <3>9
    <3> QED BY <3>10 DEF t2
  <2>8. CASE Storing(f, a, b) /\ b.pc = a.pc + 2
    <3> DEFINE v == Passed(a, args)
               h == Restarted(b)
               A == Append(s.below, a)
    <3>1. b \in Frames /\ Pending(f, a) /\ b.var = v
      <4>1. a.pc + 1 # a.pc + 2
        BY <1>3, FrameTypes
      <4> QED BY <2>8, <4>1 DEF Storing
    <3>2. i.op = "jmp"
      BY <2>1, <2>8 DEF Jmp
    <3>3. t2 = State(t.below, h, t.taken, t.log)
      BY <2>2, <3>2, DoneCases
    <3>4. s2 = Outcome(c[a.pc], s)
      BY <1>6 DEF Move
    <3>5. s2 = State(A, Frame(v), s.taken, s.log)
      BY <2>4, <3>1, <3>4, DoneCases
    <3>6. h \in Frames /\ h.block = 0 /\ h.var = v
      BY <3>1, RestartedFrame
    <3>7. Frame(v).block = 0 /\ Frame(v).var = v
      BY <2>4, <3>1, NewFrame
    <3>8. Level(f, Frame(v), h)
      <4> HIDE DEF h, v
      <4> QED BY <3>6, <3>7 DEF Level
    <3>9. Stacked(f, A, t.below)
      BY <1>2, <1>3, <3>1, StackedPending
    <3> HIDE DEF h, v, A, s2, t2
    <3>10. ~s2.over /\ s2.below = A /\ s2.top = Frame(v) /\ s2.taken = s.taken /\ s2.log = s.log
      BY <3>5, StateParts
    <3>11. ~t2.over /\ t2.below = t.below /\ t2.top = h /\ t2.taken = t.taken /\ t2.log = t.log
      BY <3>3, StateParts
    <3>12. Sim(f, s2, t2)
      BY <1>2, <3>8, <3>9, <3>10, <3>11 DEF Sim
    <3> QED BY <1>4, <3>12 DEF Followed, t2
  <2>9. Storing(f, a, b) => b.pc = a.pc + 1 \/ b.pc = a.pc + 2
    BY DEF Storing
  <2> QED BY <1>2, <2>3, <2>6, <2>7, <2>8, <2>9
<1> QED
  BY <1>5, <1>6
-----------------------------------------------------------------------------
(* Part 6.  The invariant.                                                 *)

(* The blocks in front of `next` are transformed.                          *)
PassInv ==
    side = "pass" =>
        /\ next \in Nat
        /\ target = [b \in DOMAIN source |-> IF b < next THEN Transformed(source)[b] ELSE source[b]]
        /\ choices = <<>> /\ taken = 0 /\ log = [d \in Sides |-> <<>>]
AfterPass ==
    side # "pass" =>
        target = Transformed(source) /\ choices \in Seq(DOMAIN source) /\ log \in [Sides -> Seq(Events)]
SourceInv ==
    side = "source" =>
        /\ Started /\ Cur \in States(source) /\ Reach(source, choices, Start, Cur)
        /\ taken = Len(choices) /\ log["target"] = <<>>
TargetInv ==
    side = "target" => Started /\ Followed(source, choices, Cur, Finished(log["source"]))
EndInv == side = "done" => log["target"] = log["source"]
Inv ==
    /\ source \in Source /\ side \in {"pass", "source", "target", "done"}
    /\ PassInv /\ AfterPass /\ SourceInv /\ TargetInv /\ EndInv

LEMMA StartState ==
    ASSUME NEW f
    PROVE  /\ Start \in States(f) /\ Start.below = <<>> /\ Start.top = Frame(Initial)
           /\ Start.taken = 0 /\ Start.log = <<>> /\ ~Start.over
           /\ Sim(f, Start, Start)
<1>1. Frame(Initial) \in Frames /\ Frame(Initial).block = 0
  BY NewFrame, InitialValues
<1>2. <<>> \in Seq(Frames) /\ <<>> \in Seq(Events) /\ Len(<<>>) = 0
  BY EmptySeq
<1>3. Start \in States(f)
  <2>1. Standing(f, Frame(Initial))
    BY <1>1 DEF Standing
  <2>2. \A j \in 1 .. Len(<<>>) : Waiting(f, <<>>[j])
    BY <1>2
  <2> QED BY <1>2, <2>1, <2>2, StateStays DEF Start
<1>4. /\ Start.below = <<>> /\ Start.top = Frame(Initial)
      /\ Start.taken = 0 /\ Start.log = <<>> /\ ~Start.over
  BY StateParts DEF Start
<1>5. Level(f, Frame(Initial), Frame(Initial))
  BY <1>1 DEF Level
<1>6. Sim(f, Start, Start)
  BY <1>2, <1>4, <1>5, StackedEmpty DEF Sim
<1> QED
  BY <1>3, <1>4, <1>6

LEMMA OneFrame ==
    ASSUME NEW fr \in Frames
    PROVE  /\ <<fr>> \in Seq(Frames) /\ <<fr>> # <<>> /\ Outside(<<fr>>) = <<>>
           /\ <<fr>>[Len(<<fr>>)] = fr
<1> DEFINE A == <<fr>>
<1>1. A \in Seq(Frames) /\ A # <<>> /\ Len(A) = 1 /\ A[1] = fr
  OBVIOUS
<1> HIDE DEF A
<1>2. Outside(A) \in Seq(Frames) /\ Len(Outside(A)) = 0
  BY <1>1, OutsideParts
<1>3. Outside(A) = <<>>
  BY <1>2, EmptySeq
<1> QED
  BY <1>1, <1>3 DEF A

(* A run begins.                                                           *)
LEMMA Begins ==
    ASSUME side' \in Sides, frames' = <<Frame(Initial)>>, taken' = 0,
           log' \in [Sides -> Seq(Events)], log'[side'] = <<>>
    PROVE  Started' /\ Cur' = Start
<1>1. Frame(Initial) \in Frames
  BY NewFrame, InitialValues
<1>3. /\ frames' \in Seq(Frames) /\ frames' # <<>> /\ Outside(frames') = <<>>
      /\ frames'[Len(frames')] = Frame(Initial)
  BY <1>1, OneFrame
<1>4. Below' = <<>> /\ Top' = Frame(Initial)
  BY <1>3 DEF Below, Top, Outside
<1> QED
  BY <1>3, <1>4 DEF Started, Cur, Start

LEMMA CurParts ==
    ASSUME Started
    PROVE  /\ Cur.below = Below /\ Cur.top = Top /\ Cur.taken = taken /\ Cur.log = log[side]
           /\ ~Cur.over
BY DEF Cur, State

LEMMA StartsSound ==
    ASSUME \A f \in TailFunctions : Safe(f), TreInit
    PROVE  Inv
<1>1. source \in Source
  BY DEF TreInit, Source, Safe
<1>2. side = "pass" /\ next = 1 /\ target = source /\ choices = <<>> /\ taken = 0
      /\ log = [source |-> <<>>, target |-> <<>>]
  BY DEF TreInit
<1>3. log = [d \in Sides |-> <<>>]
  BY <1>2 DEF Sides
<1>4. target = [b \in DOMAIN source |-> IF b < next THEN Transformed(source)[b] ELSE source[b]]
  <2>1. DOMAIN source = 1 .. Len(source) /\ Len(source) \in Nat
    BY <1>1, SourceBlocks
  <2>2. \A b \in DOMAIN source : ~(b < next)
    BY <1>2, <2>1
  <2>3. source \in Seq(Seq(Instruction))
    BY <1>1 DEF Source
  <2>4. source = [b \in DOMAIN source |-> source[b]]
    BY <2>3
  <2> QED BY <1>2, <2>2, <2>4
<1>5. PassInv
  BY <1>2, <1>3, <1>4 DEF PassInv
<1> QED
  BY <1>1, <1>2, <1>5 DEF Inv, AfterPass, SourceInv, TargetInv, EndInv

(* The pass itself.                                                        *)
LEMMA PassStep ==
    ASSUME Inv, Eliminate \/ LeaveAlone
    PROVE  Inv'
<1>1. /\ side = "pass" /\ next =< Len(source) /\ next' = next + 1 /\ source' = source
      /\ side' = side /\ choices' = choices /\ taken' = taken /\ log' = log
  BY DEF Eliminate, LeaveAlone, runVars
<1>2. /\ source \in Source /\ next \in Nat /\ choices = <<>> /\ taken = 0
      /\ log = [d \in Sides |-> <<>>]
      /\ target = [b \in DOMAIN source |-> IF b < next THEN Transformed(source)[b] ELSE source[b]]
  BY <1>1 DEF Inv, PassInv
<1>3. DOMAIN source = 1 .. Len(source) /\ Len(source) \in Nat
  BY <1>2, SourceBlocks
<1> DEFINE k == TailOf(source[next])
           new == [b \in DOMAIN source |-> IF b < next + 1 THEN Transformed(source)[b] ELSE source[b]]
<1>4. CASE next = 0
  <2>1. next \notin DOMAIN target
    BY <1>2, <1>3, <1>4
  <2>2. target' = target
    <3>1. CASE Eliminate
      <4>1. target' = [target EXCEPT ![next] = Looped(@, TailOf(target[next]))]
        BY <3>1 DEF Eliminate
      <4> QED BY <1>2, <2>1, <4>1
    <3>2. CASE LeaveAlone
      BY <3>2 DEF LeaveAlone
    <3> QED BY <3>1, <3>2
  <2>3. \A b \in DOMAIN source : ~(b < next) /\ ~(b < next + 1)
    BY <1>3, <1>4
  <2>4. target' = new
    BY <1>2, <2>2, <2>3
  <2> QED BY <1>1, <1>2, <2>4 DEF Inv, PassInv, AfterPass, SourceInv, TargetInv, EndInv
<1>5. CASE next # 0
  <2>1. next \in DOMAIN source
    BY <1>1, <1>2, <1>3, <1>5
  <2>2. target[next] = source[next] /\ DOMAIN target = DOMAIN source
    BY <1>2, <2>1
  <2>3. \A b \in DOMAIN source : b # next => (b < next + 1 <=> b < next)
    BY <1>2, <1>3
  <2>4. Transformed(source)[next] = IF IsSelfCall(source[next][k]) THEN Looped(source[next], k) ELSE source[next]
    BY <2>1 DEF Transformed
  <2>5. target' = new
    <3>1. CASE Eliminate
      <4>1. /\ IsSelfCall(source[next][k])
            /\ target' = [target EXCEPT ![next] = Looped(source[next], k)]
        BY <2>2, <3>1 DEF Eliminate
      <4>2. target' = [target EXCEPT ![next] = Transformed(source)[next]]
        BY <2>4, <4>1
      <4> DEFINE T == Transformed(source)
      <4> HIDE DEF T
      <4>3. /\ target = [b \in DOMAIN source |-> IF b < next THEN T[b] ELSE source[b]]
            /\ target' = [target EXCEPT ![next] = T[next]]
        BY <1>2, <4>2 DEF T
      <4>4. target' = [b \in DOMAIN source |-> IF b = next THEN T[next] ELSE target[b]]
        BY <2>2, <4>3
      <4>5. \A b \in DOMAIN source :
                (IF b = next THEN T[next] ELSE target[b]) = IF b < next + 1 THEN T[b] ELSE source[b]
        <5> TAKE b \in DOMAIN source
        <5>1. target[b] = IF b < next THEN T[b] ELSE source[b]
          BY <4>3
        <5>2. b = next => b < next + 1
          BY <1>2
        <5> QED BY <2>3, <5>1, <5>2
      <4> QED BY <4>4, <4>5 DEF T
    <3>2. CASE LeaveAlone
      <4>1. ~IsSelfCall(source[next][k]) /\ target' = target
        BY <2>2, <3>2 DEF LeaveAlone
      <4>2. Transformed(source)[next] = source[next]
        BY <2>4, <4>1
      <4> QED BY <1>2, <2>1, <2>3, <4>1, <4>2
    <3> QED BY <3>1, <3>2
  <2> QED BY <1>1, <1>2, <2>5 DEF Inv, PassInv, AfterPass, SourceInv, TargetInv, EndInv
<1> QED
  BY <1>4, <1>5

LEMMA StartSourceStep ==
    ASSUME Inv, StartSource
    PROVE  Inv'
<1>1. /\ side = "pass" /\ next > Len(source) /\ side' = "source" /\ frames' = <<Frame(Initial)>>
      /\ source' = source /\ target' = target /\ choices' = choices /\ taken' = taken /\ log' = log
  BY DEF StartSource, passVars
<1>2. /\ source \in Source /\ next \in Nat /\ choices = <<>> /\ taken = 0
      /\ log = [d \in Sides |-> <<>>]
      /\ target = [b \in DOMAIN source |-> IF b < next THEN Transformed(source)[b] ELSE source[b]]
  BY <1>1 DEF Inv, PassInv
<1>3. target = Transformed(source)
  <2>1. DOMAIN source = 1 .. Len(source) /\ Len(source) \in Nat
    BY <1>2, SourceBlocks
  <2>2. \A b \in DOMAIN source : b < next
    BY <1>1, <1>2, <2>1
  <2>3. target = [b \in DOMAIN source |-> Transformed(source)[b]]
    BY <1>2, <2>2
  <2> QED BY <2>3 DEF Transformed
<1>4. log \in [Sides -> Seq(Events)] /\ log["source"] = <<>> /\ log["target"] = <<>>
  BY <1>2, EmptySeq DEF Sides
<1>5. Started' /\ Cur' = Start
  BY <1>1, <1>2, <1>4, Begins DEF Sides
<1>6. choices \in Seq(DOMAIN source) /\ Len(choices) = 0
  BY <1>2, EmptySeq
<1>7. Cur' \in States(source) /\ Reach(source, choices, Start, Cur')
  BY <1>5, StartState DEF Reach
<1>8. SourceInv'
  BY <1>1, <1>2, <1>4, <1>5, <1>6, <1>7 DEF SourceInv
<1> QED
  BY <1>1, <1>2, <1>3, <1>4, <1>6, <1>8 DEF Inv, PassInv, AfterPass, TargetInv, EndInv

(* What an instruction finds.                                              *)
LEMMA SourceFacts ==
    ASSUME Inv, side = "source"
    PROVE  /\ source \in Source /\ Started /\ choices \in Seq(DOMAIN source)
           /\ Cur \in States(source) /\ Reach(source, choices, Start, Cur)
           /\ taken = Len(choices) /\ log["target"] = <<>> /\ log \in [Sides -> Seq(Events)]
           /\ target = Transformed(source)
BY DEF Inv, AfterPass, SourceInv

LEMMA TargetFacts ==
    ASSUME Inv, side = "target"
    PROVE  /\ source \in Source /\ Started /\ choices \in Seq(DOMAIN source)
           /\ Followed(source, choices, Cur, Finished(log["source"]))
           /\ log \in [Sides -> Seq(Events)] /\ target = Transformed(source)
BY DEF Inv, AfterPass, TargetInv

LEMMA EnterSourceStep ==
    ASSUME Inv, EnterSource
    PROVE  Inv'
<1>1. PICK b \in DOMAIN source : EnterAs(b) /\ choices' = Append(choices, b)
  BY DEF EnterSource
<1>2. side = "source" /\ Top.block = 0
  BY DEF EnterSource
<1>3. /\ source \in Source /\ Started /\ choices \in Seq(DOMAIN source)
      /\ Cur \in States(source) /\ Reach(source, choices, Start, Cur)
      /\ taken = Len(choices) /\ log["target"] = <<>> /\ log \in [Sides -> Seq(Events)]
      /\ target = Transformed(source)
  BY <1>2, SourceFacts
<1>4. b \in Nat
  BY <1>3, SourceBlocks
<1>5. Started' /\ side' = side /\ Cur' = State(Below, Entered(Top, b), taken + 1, log[side])
  BY <1>1, <1>3, <1>4, EnterMoves
<1>6. /\ taken' = taken + 1 /\ source' = source /\ target' = target /\ log' = log
  BY <1>1 DEF EnterAs, passVars
<1> DEFINE ch == Append(choices, b)
<1>7. ch \in Seq(DOMAIN source) /\ Len(ch) = Len(choices) + 1 /\ ch[taken + 1] = b
  BY <1>3, AppendProperties
<1>8. Cur.below = Below /\ Cur.top = Top /\ Cur.taken = taken /\ Cur.log = log[side] /\ ~Cur.over
  BY <1>3, CurParts
<1>9. Cur' = Move(source, ch, Cur)
  BY <1>2, <1>5, <1>7, <1>8 DEF Move
<1>10. CanMove(ch, Cur)
  BY <1>3, <1>7, <1>8, LenProperties DEF CanMove
<1>11. Reach(source, ch, Start, Cur')
  <2>1. Reach(source, ch, Start, Cur)
    BY <1>3, ReachLater
  <2> QED BY <1>9, <1>10, <2>1, ReachMove
<1>12. Cur' \in States(source)
  BY <1>3, <1>7, <1>9, <1>10, MoveStays
<1> HIDE DEF ch
<1>13. choices' = ch
  BY <1>1 DEF ch
<1>14. SourceInv'
  BY <1>2, <1>3, <1>5, <1>6, <1>7, <1>11, <1>12, <1>13 DEF SourceInv
<1>15. AfterPass'
  BY <1>3, <1>6, <1>7, <1>13 DEF AfterPass
<1> QED
  BY <1>2, <1>3, <1>5, <1>6, <1>14, <1>15 DEF Inv, PassInv, TargetInv, EndInv

LEMMA SourceInstrStep ==
    ASSUME Inv, InstrSteps, side = "source"
    PROVE  Inv'
<1>1. /\ source \in Source /\ Started /\ choices \in Seq(DOMAIN source)
      /\ Cur \in States(source) /\ Reach(source, choices, Start, Cur)
      /\ taken = Len(choices) /\ log["target"] = <<>> /\ log \in [Sides -> Seq(Events)]
      /\ target = Transformed(source)
  BY SourceFacts
<1>2. Cur.below = Below /\ Cur.top = Top /\ Cur.taken = taken /\ Cur.log = log[side] /\ ~Cur.over
  BY <1>1, CurParts
<1>3. Top.block # 0 /\ Instr = source[Top.block][Top.pc]
  BY DEF InstrSteps, Use, Call, Store, Jump, Step, Return, Runs, Instr, Code
<1>4. Standing(source, Top)
  BY <1>1, <1>2 DEF States
<1>5. Proper(Instr) /\ Instr \in Instruction
  BY <1>1, <1>3, <1>4, AtInstr
<1>6. CanMove(choices, Cur)
  BY <1>2, <1>3 DEF CanMove
<1>7. Move(source, choices, Cur) = Outcome(Instr, Cur)
  BY <1>2, <1>3 DEF Move
<1>8. Outcome(Instr, Cur) \in States(source) /\ Reach(source, choices, Start, Outcome(Instr, Cur))
  BY <1>1, <1>6, <1>7, MoveStays, ReachMove
<1>9. CASE Return => Below # <<>>
  <2>1. Started' /\ side' = side /\ UNCHANGED <<passVars, choices>> /\ Cur' = Outcome(Instr, Cur)
    BY <1>1, <1>5, <1>9, InstrMoves
  <2>2. source' = source /\ target' = target /\ choices' = choices
    BY <2>1 DEF passVars
  <2>3. taken' = taken /\ log'["target"] = log["target"]
    <3>1. taken' = taken
      BY <1>9 DEF InstrSteps, Use, Call, Store, Jump, Step, Return
    <3>2. log' = log \/ \E e : log' = [log EXCEPT !["source"] = Append(@, e)]
      BY <1>9 DEF InstrSteps, Use, Call, Store, Jump, Step, Return, Seen
    <3>3. log'["target"] = log["target"]
      BY <1>1, <3>2 DEF Sides
    <3> QED BY <3>1, <3>3
  <2>4. SourceInv'
    BY <1>1, <1>8, <2>1, <2>2, <2>3 DEF SourceInv
  <2>5. AfterPass'
    BY <1>1, <2>1, <2>2 DEF AfterPass, Started
  <2> QED BY <1>1, <2>1, <2>2, <2>4, <2>5 DEF Inv, PassInv, TargetInv, EndInv
<1>10. CASE Return /\ Below = <<>>
  <2> DEFINE L == Append(log[side], <<ReturnValue(Instr, Top)>>)
  <2>1. /\ Outcome(Instr, Cur) = Finished(L) /\ L \in Seq(Events)
        /\ log' = [log EXCEPT ![side] = L] /\ taken' = 0
        /\ side' = "target" /\ frames' = <<Frame(Initial)>>
        /\ UNCHANGED <<passVars, choices>>
    BY <1>1, <1>10, LastReturn
  <2> HIDE DEF L
  <2>2. source' = source /\ target' = target /\ choices' = choices
    BY <2>1 DEF passVars
  <2>3. log' \in [Sides -> Seq(Events)] /\ log'["source"] = L /\ log'["target"] = <<>>
    BY <1>1, <2>1 DEF Sides
  <2>4. Started' /\ Cur' = Start
    BY <2>1, <2>3, Begins DEF Sides
  <2>5. Followed(source, choices, Start, Finished(L))
    BY <1>8, <2>1, StartState DEF Followed
  <2>6. TargetInv'
    BY <2>2, <2>3, <2>4, <2>5 DEF TargetInv
  <2>7. AfterPass'
    BY <1>1, <2>2, <2>3 DEF AfterPass
  <2> QED BY <1>1, <2>1, <2>2, <2>6, <2>7 DEF Inv, PassInv, SourceInv, EndInv
<1> QED
  BY <1>9, <1>10

LEMMA EnterTargetStep ==
    ASSUME Inv, EnterTarget
    PROVE  Inv'
<1>1. side = "target" /\ Top.block = 0 /\ taken < Len(choices) /\ choices' = choices
      /\ EnterAs(choices[taken + 1])
  BY DEF EnterTarget
<1> DEFINE b == choices[taken + 1]
           x == Finished(log["source"])
<1>2. /\ source \in Source /\ Started /\ choices \in Seq(DOMAIN source)
      /\ Followed(source, choices, Cur, x)
      /\ log \in [Sides -> Seq(Events)] /\ target = Transformed(source)
  BY <1>1, TargetFacts
<1>3. b \in Nat
  <2>1. taken + 1 \in 1 .. Len(choices)
    BY <1>1, <1>2, LenProperties DEF Started
  <2> QED BY <1>2, <2>1, ElementOfSeq, SourceBlocks
<1>4. Started' /\ side' = side /\ Cur' = State(Below, Entered(Top, b), taken + 1, log[side])
  BY <1>1, <1>2, <1>3, EnterMoves
<1>5. source' = source /\ target' = target /\ log' = log
  BY <1>1 DEF EnterAs, passVars
<1>6. Cur.below = Below /\ Cur.top = Top /\ Cur.taken = taken /\ Cur.log = log[side] /\ ~Cur.over
  BY <1>2, CurParts
<1>7. Cur' = Move(Transformed(source), choices, Cur)
  BY <1>1, <1>4, <1>6 DEF Move
<1>8. x.over
  BY FinishedParts
<1> HIDE DEF x
<1>9. Followed(source, choices, Cur', x)
  BY <1>2, <1>6, <1>7, <1>8, SimStep
<1>10. TargetInv'
  BY <1>1, <1>4, <1>5, <1>9 DEF TargetInv, x
<1> QED
  BY <1>1, <1>2, <1>4, <1>5, <1>10 DEF Inv, PassInv, AfterPass, SourceInv, EndInv

LEMMA TargetInstrStep ==
    ASSUME Inv, InstrSteps, side = "target"
    PROVE  Inv'
<1> DEFINE x == Finished(log["source"])
<1>1. /\ source \in Source /\ Started /\ choices \in Seq(DOMAIN source)
      /\ Followed(source, choices, Cur, x)
      /\ log \in [Sides -> Seq(Events)] /\ target = Transformed(source)
  BY TargetFacts
<1>2. Cur.below = Below /\ Cur.top = Top /\ Cur.taken = taken /\ Cur.log = log[side] /\ ~Cur.over
  BY <1>1, CurParts
<1>3. Top.block # 0 /\ Instr = Transformed(source)[Top.block][Top.pc]
  <2>1. Top.block # 0 /\ Instr = target[Top.block][Top.pc]
    BY DEF InstrSteps, Use, Call, Store, Jump, Step, Return, Runs, Instr, Code
  <2> QED BY <1>1, <2>1
<1>4. Proper(Instr)
  <2>1. PICK s \in States(source) : Sim(source, s, Cur)
    BY <1>1 DEF Followed
  <2>2. Level(source, s.top, Top) \/ Storing(source, s.top, Top)
    BY <1>2, <2>1 DEF Sim
  <2>3. s.top.block # 0 /\ Standing(source, s.top)
    BY <1>3, <2>2 DEF Level, Storing, States
  <2> QED BY <1>1, <1>3, <2>2, <2>3, SimInstr
<1>5. Move(Transformed(source), choices, Cur) = Outcome(Instr, Cur)
  BY <1>2, <1>3 DEF Move
<1>6. x.over /\ x.log = log["source"]
  BY FinishedParts
<1> HIDE DEF x
<1>7. Followed(source, choices, Outcome(Instr, Cur), x)
  BY <1>1, <1>2, <1>5, <1>6, SimStep
<1>8. CASE Return => Below # <<>>
  <2>1. Started' /\ side' = side /\ UNCHANGED <<passVars, choices>> /\ Cur' = Outcome(Instr, Cur)
    BY <1>1, <1>4, <1>8, InstrMoves
  <2>2. source' = source /\ target' = target /\ choices' = choices
    BY <2>1 DEF passVars
  <2>3. log'["source"] = log["source"]
    <3>1. log' = log \/ \E e : log' = [log EXCEPT !["target"] = Append(@, e)]
      BY <1>8 DEF InstrSteps, Use, Call, Store, Jump, Step, Return, Seen
    <3> QED BY <1>1, <3>1 DEF Sides
  <2>4. TargetInv'
    BY <1>7, <2>1, <2>2, <2>3 DEF TargetInv, x
  <2>5. AfterPass'
    BY <1>1, <2>1, <2>2 DEF AfterPass, Started
  <2> QED BY <1>1, <2>1, <2>2, <2>4, <2>5 DEF Inv, PassInv, SourceInv, EndInv
<1>9. CASE Return /\ Below = <<>>
  <2> DEFINE L == Append(log[side], <<ReturnValue(Instr, Top)>>)
  <2>1. /\ Outcome(Instr, Cur) = Finished(L) /\ L \in Seq(Events)
        /\ log' = [log EXCEPT ![side] = L]
        /\ side' = "done" /\ UNCHANGED <<passVars, choices>>
    BY <1>1, <1>9, LastReturn
  <2> HIDE DEF L
  <2>2. source' = source /\ target' = target /\ choices' = choices
    BY <2>1 DEF passVars
  <2>3. log' \in [Sides -> Seq(Events)] /\ log'["target"] = L /\ log'["source"] = log["source"]
    BY <1>1, <2>1 DEF Sides
  <2>4. PICK s \in States(source) : Sim(source, s, Finished(L)) /\ Reach(source, choices, s, x)
    BY <1>7, <2>1 DEF Followed
  <2>5. s.over /\ s.log = L
    <3>1. Finished(L).over /\ Finished(L).log = L
      BY FinishedParts
    <3> QED BY <2>4, <3>1 DEF Sim
  <2>6. x = s
    <3> SUFFICES ASSUME x # s PROVE FALSE
      OBVIOUS
    <3>1. CanMove(choices, s)
      BY <2>4, ReachFirst
    <3> QED BY <2>5, <3>1 DEF CanMove
  <2>7. L = log["source"]
    BY <1>6, <2>5, <2>6
  <2> QED BY <1>1, <2>1, <2>2, <2>3, <2>7 DEF Inv, PassInv, AfterPass, SourceInv, TargetInv, EndInv
<1> QED
  BY <1>8, <1>9
LEMMA NextInv == Inv /\ [TreNext]_treVars => Inv'
<1> SUFFICES ASSUME Inv, [TreNext]_treVars PROVE Inv'
  OBVIOUS
<1>1. CASE Eliminate \/ LeaveAlone
  BY <1>1, PassStep
<1>2. CASE StartSource
  BY <1>2, StartSourceStep
<1>3. CASE EnterSource
  BY <1>3, EnterSourceStep
<1>4. CASE EnterTarget
  BY <1>4, EnterTargetStep
<1>5. CASE InstrSteps
  <2>1. side \in {"source", "target"}
    BY <1>5 DEF InstrSteps, Use, Call, Store, Jump, Step, Return, Runs
  <2> QED BY <1>5, <2>1, SourceInstrStep, TargetInstrStep
<1>6. CASE UNCHANGED treVars
  <2>1. /\ source' = source /\ target' = target /\ next' = next /\ side' = side
        /\ frames' = frames /\ choices' = choices /\ taken' = taken /\ log' = log
    BY <1>6 DEF treVars, passVars, runVars
  <2>2. (Started' <=> Started) /\ Cur' = Cur
    BY <2>1 DEF Started, Cur, Below, Top
  <2> QED BY <2>1, <2>2 DEF Inv, PassInv, AfterPass, SourceInv, TargetInv, EndInv
<1> QED
  BY <1>1, <1>2, <1>3, <1>4, <1>5, <1>6 DEF TreNext, InstrSteps
-----------------------------------------------------------------------------
(* Part 7.  What the invariant says of the runs.                           *)

(* Where the target is while it runs.                                      *)
LEMMA TargetPlace ==
    ASSUME Inv, side = "target"
    PROVE  \E s \in States(source) :
               /\ Sim(source, s, Cur) /\ ~s.over /\ CanMove(choices, s)
               /\ Extends(s.log, log["source"])
<1> DEFINE x == Finished(log["source"])
<1>1. /\ source \in Source /\ Started /\ choices \in Seq(DOMAIN source)
      /\ Followed(source, choices, Cur, x)
  BY TargetFacts
<1>2. PICK s \in States(source) : Sim(source, s, Cur) /\ Reach(source, choices, s, x)
  BY <1>1 DEF Followed
<1>3. ~Cur.over
  BY <1>1, CurParts
<1>4. ~s.over
  BY <1>2, <1>3 DEF Sim
<1>5. x.over /\ x.log = log["source"]
  BY FinishedParts
<1> HIDE DEF x
<1>6. x # s
  BY <1>4, <1>5
<1>7. CanMove(choices, s)
  BY <1>2, <1>6, ReachFirst
<1>8. Extends(s.log, log["source"])
  BY <1>1, <1>2, <1>5, ReachLog
<1> QED
  BY <1>2, <1>4, <1>7, <1>8

LEMMA ExtendsSubSeq ==
    ASSUME NEW a \in Seq(Events), NEW b \in Seq(Events), Extends(a, b)
    PROVE  Len(a) =< Len(b) /\ a = SubSeq(b, 1, Len(a))
<1>1. Len(a) \in Nat /\ Len(b) \in Nat /\ Len(a) =< Len(b) /\ \A i \in 1 .. Len(a) : b[i] = a[i]
  BY LenProperties DEF Extends
<1>2. \A i \in 1 .. Len(a) : b[i] \in Events
  BY <1>1, ElementOfSeq
<1> DEFINE c == SubSeq(b, 1, Len(a))
<1>3. c \in Seq(Events) /\ Len(c) = Len(a) /\ \A i \in 1 .. Len(a) : c[i] = b[i]
  BY <1>1, <1>2, SubSeqProperties
<1> HIDE DEF c
<1>4. a = c
  BY <1>1, <1>3, SeqEqual
<1> QED
  BY <1>1, <1>4 DEF c

LEMMA InvBehaviour ==
    ASSUME Inv
    PROVE  SameBehaviour
<1>1. ASSUME side = "target"
      PROVE  /\ Len(log.target) =< Len(log.source)
             /\ log.target = SubSeq(log.source, 1, Len(log.target))
             /\ Top.block = 0 => taken < Len(choices)
  <2>1. PICK s \in States(source) :
            /\ Sim(source, s, Cur) /\ ~s.over /\ CanMove(choices, s)
            /\ Extends(s.log, log["source"])
    BY <1>1, TargetPlace
  <2>2. Started /\ log["target"] \in Seq(Events) /\ log["source"] \in Seq(Events)
    BY <1>1, TargetFacts DEF Sides
  <2>3. Cur.top = Top /\ Cur.taken = taken /\ Cur.log = log["target"]
    BY <1>1, <2>2, CurParts
  <2>4. s.taken = taken /\ s.log = log["target"] /\ (Level(source, s.top, Top) \/ Storing(source, s.top, Top))
    BY <2>1, <2>3 DEF Sim
  <2>5. Top.block = 0 => taken < Len(choices)
    BY <2>1, <2>4 DEF Level, Storing, CanMove
  <2> QED BY <2>1, <2>2, <2>4, <2>5, ExtendsSubSeq
<1>2. side = "done" => log.target = log.source
  BY DEF Inv, EndInv
<1> QED
  BY <1>1, <1>2 DEF SameBehaviour

(* Where nothing but the end is behind a call, the call became a jump.     *)
LEMMA TailCallsPend ==
    ASSUME NEW f \in Source, NEW fr, Waiting(f, fr),
           \A j \in fr.pc + 1 .. Len(f[fr.block]) : f[fr.block][j].op \in Above
    PROVE  Pending(f, fr)
<1> DEFINE c == f[fr.block]
           k == TailOf(c)
<1>1. /\ fr.block \in DOMAIN f /\ FirstEnd(c) \in Nat /\ k \in Nat
      /\ fr.pc \in 1 .. FirstEnd(c) - 1 /\ fr.pc =< k
  BY WaitingPlace
<1>2. k \in 1 .. Len(c) /\ Len(c) \in Nat /\ (k = 1 \/ c[k].op \notin Above)
  BY <1>1, TailOfProperties, FirstEndProperties
<1>3. fr.pc = k
  <2> SUFFICES ASSUME fr.pc < k PROVE FALSE
    BY <1>1
  <2>1. k \in fr.pc + 1 .. Len(c) /\ k # 1
    BY <1>1, <1>2
  <2> QED BY <1>2, <2>1
<1>4. IsSelfCall(c[k]) /\ k < FirstEnd(c)
  BY <1>1, <1>3 DEF Waiting
<1> QED
  BY <1>3, <1>4 DEF Pending, LoopsBack

LEMMA InvFlat ==
    ASSUME Inv
    PROVE  StackStaysFlat
<1> SUFFICES ASSUME side = "target", OnlyTailCalls PROVE Len(frames) = 1
  BY DEF StackStaysFlat
<1>1. source \in Source /\ Started
  BY TargetFacts
<1>2. PICK s \in States(source) : Sim(source, s, Cur) /\ ~s.over
  BY TargetPlace
<1>3. Below \in Seq(Frames) /\ Top \in Frames /\ frames = Append(Below, Top) /\ Cur.below = Below
  BY <1>1, StartedParts, CurParts
<1>4. PICK h : Matches(source, s.below, Below, h)
  BY <1>2, <1>3 DEF Sim, Stacked
<1>5. \A i \in 1 .. Len(Below) : FALSE
  <2> SUFFICES ASSUME NEW i \in 1 .. Len(Below) PROVE FALSE
    OBVIOUS
  <2> DEFINE m == s.below[h[i]]
             c == source[m.block]
  <2>1. h[i] \in 1 .. Len(s.below) /\ ~Pending(source, m)
    BY <1>4 DEF Matches, Alike
  <2>2. Waiting(source, m)
    BY <2>1 DEF States
  <2>3. m.block \in DOMAIN source /\ m.pc \in 1 .. FirstEnd(c) - 1 /\ IsSelfCall(c[m.pc])
    BY <2>2 DEF Waiting
  <2>4. FirstEnd(c) \in 1 .. Len(c) /\ Len(c) \in Nat /\ DOMAIN c = 1 .. Len(c)
    BY <1>1, <2>3, SourceBlocks, FirstEndProperties, LenProperties
  <2>5. m.pc \in DOMAIN c
    BY <2>3, <2>4
  <2>6. \A j \in m.pc + 1 .. Len(c) : c[j].op \in Above
    BY <2>3, <2>5 DEF OnlyTailCalls
  <2> HIDE DEF m
  <2> QED BY <1>1, <2>1, <2>2, <2>6, TailCallsPend
<1>6. Len(Below) = 0
  <2>1. Len(Below) \in Nat
    BY <1>3, LenProperties
  <2> QED BY <1>5, <2>1
<1> QED
  BY <1>3, <1>6, AppendParts
-----------------------------------------------------------------------------
(* The theorems speak of the functions the pass may be given, whose stores *)
(* do not destroy an argument that is still to be read.                    *)

(* While the target runs it is where the source has been, up to the        *)
(* activations whose call became a jump.                                   *)
THEOREM TailInvariant ==
    ASSUME \A f \in TailFunctions : Safe(f)
    PROVE  TreSpec => []Inv
<1>1. TreInit => Inv
  BY StartsSound
<1> QED
  BY <1>1, NextInv, PTL DEF TreSpec

(* The loop does what the recursion did, in the same order and with the    *)
(* same values, takes no branch the recursion did not take, and returns    *)
(* the same: HIR_FUNC_perform_tre hands every argument on.                 *)
THEOREM TailCallsKeepBehaviour ==
    ASSUME \A f \in TailFunctions : Safe(f)
    PROVE  TreSpec => []SameBehaviour
<1>1. TreSpec => []Inv
  BY TailInvariant
<1>2. Inv => SameBehaviour
  BY InvBehaviour
<1> QED
  BY <1>1, <1>2, PTL

(* Where nothing but the end of the function follows its self calls, the   *)
(* run after the pass keeps one activation however often it recurses.      *)
THEOREM TailCallsStayFlat ==
    ASSUME \A f \in TailFunctions : Safe(f)
    PROVE  TreSpec => []StackStaysFlat
<1>1. TreSpec => []Inv
  BY TailInvariant
<1>2. Inv => StackStaysFlat
  BY InvFlat
<1> QED
  BY <1>1, <1>2, PTL

(***************************************************************************)
(* Loops.  For functions of any number of blocks, whatever the order in    *)
(* which blocks and edges are taken.                                       *)
(*                                                                         *)
(* The argument: whatever precedes a block of the open loop was visited or *)
(* is still to be, so when the walk ends its blocks are closed under       *)
(* predecessors, and nothing else was added (Parts 1 to 3); two loops that *)
(* share a block are nested by the dominance of their headers (Part 5);    *)
(* every preheader has a header of its own and took over all predecessors  *)
(* outside of one of its loops (Part 4).                                   *)
(***************************************************************************)

(* Part 1.  Natural loops.                                                 *)

(* A graph the passes may be given.                                        *)
Sane(g) == g \in Edges /\ Alive(g) /\ \A b \in Block : Entry \notin g[b]

(* No edge leads from a block no path reaches to another one.              *)
LEMMA SourceReachable ==
    ASSUME NEW g, Sane(g), NEW p \in Block, NEW b \in g[p], b # p
    PROVE  b \in Block /\ Reachable(g, p) /\ Reachable(g, b)
<1>1. g \in Edges /\ Reachable(g, p)
  BY DEF Sane, Alive
<1> QED
  BY <1>1, SuccessorReachable

LEMMA PredecessorReachable ==
    ASSUME NEW g, Sane(g), NEW b \in Block, Reachable(g, b), NEW p \in Block, b \in g[p]
    PROVE  Reachable(g, p)
BY SourceReachable

LEMMA OrphanUnreachable ==
    ASSUME NEW g \in Edges, NEW b \in Orphans(g)
    PROVE  ~Reachable(g, b)
<1>1. Entry \in Block \ {b} /\ \A x \in Block \ {b} : g[x] \subseteq Block \ {b}
  BY EntryReachable DEF Orphans, Edges
<1> QED
  BY <1>1 DEF Reachable

(* The dominators of a reachable block are those HIR_CFG_compute_dom finds.*)
LEMMA ComputedIsDominates ==
    ASSUME NEW g, Sane(g), NEW b \in Block, NEW d \in Block
    PROVE  /\ ComputedDominator(g, b, b)
           /\ Reachable(g, b) => (ComputedDominator(g, d, b) <=> Dominates(g, d, b))
<1>0. g \in Edges
  BY DEF Sane
<1>1. ComputedDominator(g, b, b)
  <2>1. /\ Block \ {b} \in SUBSET (Block \ {b}) /\ ClosedAvoiding(g, Block \ {b}, b)
        /\ ({Entry} \union Orphans(g)) \ {b} \subseteq Block \ {b}
    BY <1>0, EntryReachable DEF ClosedAvoiding, Edges, Orphans
  <2> QED BY <2>1 DEF ComputedDominator
<1>2. ComputedDominator(g, d, b) => Dominates(g, d, b)
  BY DEF ComputedDominator, Dominates
<1>3. ASSUME Reachable(g, b), Dominates(g, d, b) PROVE ComputedDominator(g, d, b)
  <2>1. PICK S \in SUBSET (Block \ {d}) :
          (d # Entry => Entry \in S) /\ ClosedAvoiding(g, S, d) /\ b \notin S
    BY <1>3 DEF Dominates
  <2> DEFINE T == S \union (Orphans(g) \ {d})
  <2>2. T \in SUBSET (Block \ {d}) /\ ({Entry} \union Orphans(g)) \ {d} \subseteq T
    BY <2>1 DEF Orphans
  <2>3. \A x \in Orphans(g) : g[x] = {}
    BY <1>0, OrphanUnreachable DEF Sane, Alive, Orphans
  <2>4. ClosedAvoiding(g, T, d)
    BY <2>1, <2>3 DEF ClosedAvoiding
  <2>5. b \notin T
    BY <1>0, <1>3, <2>1, OrphanUnreachable
  <2> QED BY <2>2, <2>4, <2>5 DEF ComputedDominator
<1> QED
  BY <1>1, <1>2, <1>3

(* So the edges the pass takes are those that close a loop.                *)
LEMMA BackEdgesClose ==
    ASSUME NEW g, Sane(g), NEW b \in Block, NEW s \in Block
    PROVE  (s \in g[b] /\ ComputedDominator(g, s, b)) <=> <<b, s>> \in Closing(g)
<1>1. CASE s = b
  BY <1>1, ComputedIsDominates DEF Closing
<1>2. CASE s # b
  <2>1. s \in g[b] => Reachable(g, b)
    BY <1>2, SourceReachable
  <2>2. Reachable(g, b) => (ComputedDominator(g, s, b) <=> Dominates(g, s, b))
    BY ComputedIsDominates
  <2> QED BY <1>2, <2>1, <2>2 DEF Closing
<1> QED
  BY <1>1, <1>2

(* A natural loop with its edge.                                           *)
NaturalLoop(g, h, l, S) ==
    /\ S \subseteq Block /\ <<l, h>> \in Closing(g) /\ IsNatural(g, h, l, S)

LEMMA LoopParts ==
    ASSUME NEW g, Sane(g), NEW h, NEW l, NEW S, NaturalLoop(g, h, l, S)
    PROVE  /\ g \in Edges /\ h \in Block /\ l \in Block /\ h \in g[l] /\ h # Entry
           /\ h \in S /\ l \in S /\ IsLoopSet(g, h, l, S)
           /\ h # l => Reachable(g, l) /\ Reachable(g, h)
BY SourceReachable DEF NaturalLoop, Closing, IsNatural, IsLoopSet, Sane

(* A loop that can run has only blocks that can, below its header; another *)
(* has one block.                                                          *)
LEMMA LoopIsDominated ==
    ASSUME NEW g, Sane(g), NEW h, NEW l, NEW S, NaturalLoop(g, h, l, S)
    PROVE  /\ Reachable(g, h) => \A b \in S : Reachable(g, b) /\ Dominates(g, h, b)
           /\ ~Reachable(g, h) => h = l /\ S = {h}
           /\ h = l => S = {h}
           /\ Entry \notin S
<1>1. /\ g \in Edges /\ h \in Block /\ l \in Block /\ h \in g[l] /\ h # Entry
      /\ h \in S /\ l \in S /\ IsLoopSet(g, h, l, S) /\ S \subseteq Block
      /\ h # l => Reachable(g, l) /\ Reachable(g, h)
  BY LoopParts DEF NaturalLoop
<1>2. ASSUME Reachable(g, h) PROVE \A b \in S : Reachable(g, b) /\ Dominates(g, h, b)
  <2> DEFINE D == {b \in S : Reachable(g, b) /\ Dominates(g, h, b)}
  <2>1. h \in D
    BY <1>1, <1>2, DominatesSelf
  <2>2. l \in D
    <3>1. l = h \/ (Reachable(g, l) /\ Dominates(g, h, l))
      BY DEF NaturalLoop, Closing
    <3> QED BY <1>1, <2>1, <3>1
  <2>3. ASSUME NEW b \in D \ {h}, NEW p \in Block, b \in g[p] PROVE p \in D
    <3>1. Reachable(g, p) /\ p \in S
      BY <1>1, <2>3, PredecessorReachable DEF IsLoopSet
    <3>2. h \in Dominators(g, p)
      BY <1>1, <2>3, DominatorsOfPredecessors DEF Dominators
    <3> QED BY <3>1, <3>2 DEF Dominators
  <2>4. D \in SUBSET S /\ IsLoopSet(g, h, l, D)
    BY <2>1, <2>2, <2>3 DEF IsLoopSet
  <2>5. D = S
    BY <2>4 DEF NaturalLoop, IsNatural
  <2> QED BY <2>5
<1>3. ASSUME h = l PROVE S = {h}
  <2>1. {h} \in SUBSET S /\ IsLoopSet(g, h, l, {h})
    BY <1>1, <1>3 DEF IsLoopSet
  <2> QED BY <2>1 DEF NaturalLoop, IsNatural
<1>4. Entry \notin S
  <2>1. CASE h = l
    BY <1>1, <1>3, <2>1
  <2>2. CASE h # l
    <3>1. ~Dominates(g, h, Entry)
      BY <1>1 DEF Dominates
    <3> QED BY <1>1, <1>2, <2>2, <3>1
  <2> QED BY <2>1, <2>2
<1> QED
  BY <1>1, <1>2, <1>3, <1>4

(* A set of blocks without the entry that an edge never enters from        *)
(* outside holds no block that can run.                                    *)
LEMMA EnteredFromOutside ==
    ASSUME NEW g \in Edges, NEW T \in SUBSET Block, Entry \notin T,
           \A b \in T : \A p \in Block : b \in g[p] => p \in T,
           NEW x \in T
    PROVE  ~Reachable(g, x)
<1>1. Entry \in Block \ T /\ \A y \in Block \ T : g[y] \subseteq Block \ T
  BY EntryReachable DEF Edges
<1> QED
  BY <1>1 DEF Reachable

(* The header of a loop of several blocks precedes one of the others.      *)
LEMMA HeaderEnters ==
    ASSUME NEW g, Sane(g), NEW h, NEW l, NEW S, NaturalLoop(g, h, l, S), h # l
    PROVE  \E b \in S \ {h} : b \in g[h]
<1>1. /\ g \in Edges /\ h \in Block /\ l \in S /\ IsLoopSet(g, h, l, S) /\ S \subseteq Block
      /\ Reachable(g, l)
  BY LoopParts DEF NaturalLoop
<1>2. Entry \notin S
  BY LoopIsDominated
<1> SUFFICES ASSUME \A b \in S \ {h} : b \notin g[h] PROVE FALSE
  OBVIOUS
<1> DEFINE T == S \ {h}
<1>3. \A b \in T : \A p \in Block : b \in g[p] => p \in T
  BY <1>1 DEF IsLoopSet
<1>4. T \in SUBSET Block /\ Entry \notin T /\ l \in T
  BY <1>1, <1>2
<1> HIDE DEF T
<1> QED
  BY <1>1, <1>3, <1>4, EnteredFromOutside

(* The header of a loop that can run has a predecessor outside of it.      *)
LEMMA HeaderIsEntered ==
    ASSUME NEW g, Sane(g), NEW h, NEW l, NEW S, NaturalLoop(g, h, l, S), Reachable(g, h)
    PROVE  \E p \in Block \ S : h \in g[p]
<1>1. /\ g \in Edges /\ h \in S /\ IsLoopSet(g, h, l, S) /\ S \in SUBSET Block
  BY LoopParts DEF NaturalLoop
<1>2. Entry \notin S
  BY LoopIsDominated
<1> SUFFICES ASSUME \A p \in Block \ S : h \notin g[p] PROVE FALSE
  OBVIOUS
<1>3. \A b \in S : \A p \in Block : b \in g[p] => p \in S
  BY <1>1 DEF IsLoopSet
<1> QED
  BY <1>1, <1>2, <1>3, EnteredFromOutside

(* Of two loops that share a block, the one whose header is dominated lies *)
(* strictly in the other.                                                  *)
LEMMA LoopsNest ==
    ASSUME NEW g, Sane(g),
           NEW h, NEW l, NEW S, NaturalLoop(g, h, l, S),
           NEW i, NEW m, NEW T, NaturalLoop(g, i, m, T),
           h # i, NEW x \in S \intersect T
    PROVE  /\ Reachable(g, h) /\ Reachable(g, i)
           /\ Dominates(g, h, i) => T \subseteq S /\ h \notin T
           /\ Dominates(g, h, i) \/ Dominates(g, i, h)
<1>1. /\ g \in Edges /\ h \in Block /\ h \in S /\ l \in S /\ IsLoopSet(g, h, l, S)
      /\ i \in Block /\ m \in Block /\ i \in T /\ m \in T /\ IsLoopSet(g, i, m, T) /\ i \in g[m]
      /\ S \subseteq Block /\ T \subseteq Block
  BY LoopParts DEF NaturalLoop
<1>2. Reachable(g, h) /\ Reachable(g, i)
  <2>1. ASSUME ~Reachable(g, h) PROVE FALSE
    <3>1. S = {h} /\ x = h
      BY <2>1, LoopIsDominated
    <3> QED BY <2>1, <3>1, LoopIsDominated
  <2>2. ASSUME ~Reachable(g, i) PROVE FALSE
    <3>1. T = {i} /\ x = i
      BY <2>2, LoopIsDominated
    <3> QED BY <2>2, <3>1, LoopIsDominated
  <2> QED BY <2>1, <2>2
<1>3. /\ \A b \in S : Reachable(g, b) /\ Dominates(g, h, b)
      /\ \A b \in T : Reachable(g, b) /\ Dominates(g, i, b)
      /\ Entry \notin S
  BY <1>2, LoopIsDominated
<1>4. Dominates(g, h, i) \/ Dominates(g, i, h)
  BY <1>1, <1>3, DominatorsAreAChain
<1>5. ASSUME Dominates(g, h, i) PROVE T \subseteq S /\ h \notin T
  <2>1. h \notin T
    BY <1>1, <1>2, <1>3, <1>5, DominatesAntisym
  <2>2. i \in S
    <3> SUFFICES ASSUME i \notin S PROVE FALSE
      OBVIOUS
    <3> DEFINE R == S \intersect T
    <3>1. \A b \in R : \A p \in Block : b \in g[p] => p \in R
      BY <1>1, <2>1 DEF IsLoopSet
    <3>2. R \in SUBSET Block /\ Entry \notin R /\ x \in R /\ Reachable(g, x)
      BY <1>1, <1>3
    <3> HIDE DEF R
    <3> QED BY <1>1, <3>1, <3>2, EnteredFromOutside
  <2>3. m \in S
    BY <1>1, <2>2 DEF IsLoopSet
  <2>4. S \intersect T \in SUBSET T /\ IsLoopSet(g, i, m, S \intersect T)
    BY <1>1, <2>1, <2>2, <2>3 DEF IsLoopSet
  <2>5. S \intersect T = T
    BY <2>4 DEF NaturalLoop, IsNatural
  <2> QED BY <2>1, <2>5
<1> QED
  BY <1>2, <1>4, <1>5
-----------------------------------------------------------------------------
(* Part 2.  The walk that collects a loop.                                 *)

Loop == [header : Block, latch : Block, blocks : SUBSET Block, exits : SUBSET Block]
Activation == [block : Block, todo : SUBSET Block]

SeenIn(g, c, p) == p \in c.blocks /\ g[p] \ c.blocks \subseteq c.exits

(* Whatever precedes a block of the loop was visited, or is still to be by *)
(* the activation for this block; nothing but what every loop of this edge *)
(* must hold was visited.                                                  *)
Walking(g, c, w) ==
    /\ c \in Loop /\ <<c.latch, c.header>> \in Closing(g)
    /\ c.header \in c.blocks /\ c.latch \in c.blocks
    /\ \A S \in SUBSET Block : IsLoopSet(g, c.header, c.latch, S) => c.blocks \subseteq S
    /\ \A b \in c.blocks : b # c.header \/ c.header = c.latch => SeenIn(g, c, b)
    /\ w \in Seq(Activation)
    /\ \A j \in 1 .. Len(w) :
        /\ w[j].block \in c.blocks \ {c.header}
        /\ w[j].todo \subseteq Mirror(g)[w[j].block]
    /\ \A j, k \in 1 .. Len(w) : w[j].block = w[k].block => j = k
    /\ \A b \in c.blocks \ {c.header} : \A p \in Block : b \in g[p] =>
        \/ SeenIn(g, c, p)
        \/ \E j \in 1 .. Len(w) : w[j].block = b /\ p \in w[j].todo

(* A loop as it is put on the list.                                        *)
Whole(g, c) ==
    /\ c \in Loop /\ NaturalLoop(g, c.header, c.latch, c.blocks)
    /\ \A b \in c.blocks : g[b] \ c.blocks \subseteq c.exits

LEMMA WalkEnds ==
    ASSUME NEW g, Sane(g), NEW c, Walking(g, c, <<>>)
    PROVE  Whole(g, c)
<1>1. /\ c \in Loop /\ <<c.latch, c.header>> \in Closing(g)
      /\ c.header \in c.blocks /\ c.latch \in c.blocks
      /\ \A S \in SUBSET Block : IsLoopSet(g, c.header, c.latch, S) => c.blocks \subseteq S
      /\ \A b \in c.blocks : b # c.header \/ c.header = c.latch => SeenIn(g, c, b)
      /\ c.blocks \subseteq Block /\ c.header \in Block
  BY DEF Walking, Loop
<1>2. \A b \in c.blocks \ {c.header} : \A p \in Block : b \in g[p] => SeenIn(g, c, p)
  <2>1. 1 .. Len(<<>>) = {}
    OBVIOUS
  <2> QED BY <2>1 DEF Walking
<1>3. IsLoopSet(g, c.header, c.latch, c.blocks)
  BY <1>1, <1>2 DEF IsLoopSet, SeenIn
<1>4. \A R \in SUBSET c.blocks : IsLoopSet(g, c.header, c.latch, R) => R = c.blocks
  BY <1>1
<1>5. NaturalLoop(g, c.header, c.latch, c.blocks)
  BY <1>1, <1>3, <1>4 DEF NaturalLoop, IsNatural
<1>6. SeenIn(g, c, c.header)
  <2>1. CASE c.header = c.latch
    BY <1>1, <2>1
  <2>2. CASE c.header # c.latch
    <3>1. PICK b \in c.blocks \ {c.header} : b \in g[c.header]
      BY <1>5, <2>2, HeaderEnters
    <3> QED BY <1>1, <1>2, <3>1
  <2> QED BY <2>1, <2>2
<1>7. \A b \in c.blocks : SeenIn(g, c, b)
  BY <1>1, <1>6
<1> QED
  BY <1>1, <1>5, <1>7 DEF Whole, SeenIn

(* The activations but the innermost.                                      *)
Rest(w) == SubSeq(w, 1, Len(w) - 1)
LEMMA RestOf ==
    ASSUME NEW s \in Seq(Activation), s # <<>>
    PROVE  /\ Rest(s) \in Seq(Activation) /\ Len(s) \in Nat /\ Len(s) >= 1
           /\ Len(Rest(s)) = Len(s) - 1
           /\ \A i \in 1 .. Len(Rest(s)) : Rest(s)[i] = s[i] /\ i \in 1 .. Len(s) /\ i < Len(s)
<1>1. Len(s) \in Nat /\ Len(s) # 0
  BY EmptySeq
<1>2. PICK m \in Int : m = Len(s) - 1
  BY <1>1
<1>3. \A i \in 1 .. m : s[i] \in Activation /\ i \in 1 .. Len(s) /\ i < Len(s)
  BY <1>1, <1>2
<1>4. /\ Rest(s) \in Seq(Activation) /\ Len(Rest(s)) = IF 1 <= m THEN m - 1 + 1 ELSE 0
      /\ \A i \in 1 .. m - 1 + 1 : Rest(s)[i] = s[1 + i - 1]
  <2>1. Rest(s) = SubSeq(s, 1, m)
    BY <1>2 DEF Rest
  <2> QED BY <1>3, <2>1, SubSeqProperties
<1>5. Len(Rest(s)) = m /\ \A i \in 1 .. m : Rest(s)[i] = s[i]
  BY <1>1, <1>2, <1>4
<1> QED
  BY <1>1, <1>2, <1>3, <1>4, <1>5

LEMMA WalkPops ==
    ASSUME NEW g, NEW c, NEW w, Walking(g, c, w), w # <<>>, w[Len(w)].todo = {}
    PROVE  Walking(g, c, Rest(w))
<1>1. /\ w \in Seq(Activation)
      /\ \A j \in 1 .. Len(w) :
          /\ w[j].block \in c.blocks \ {c.header}
          /\ w[j].todo \subseteq Mirror(g)[w[j].block]
      /\ \A j, k \in 1 .. Len(w) : w[j].block = w[k].block => j = k
      /\ \A b \in c.blocks \ {c.header} : \A p \in Block : b \in g[p] =>
          \/ SeenIn(g, c, p)
          \/ \E j \in 1 .. Len(w) : w[j].block = b /\ p \in w[j].todo
  BY DEF Walking
<1>2. PICK r : r = Rest(w)
  OBVIOUS
<1>3. /\ r \in Seq(Activation) /\ Len(w) \in Nat /\ Len(w) >= 1 /\ Len(r) = Len(w) - 1
      /\ \A i \in 1 .. Len(r) : r[i] = w[i] /\ i \in 1 .. Len(w)
  BY <1>1, <1>2, RestOf
<1>4. \A j \in 1 .. Len(w) : j = Len(w) \/ j \in 1 .. Len(r)
  BY <1>3
<1>5. \A b, p : (\E j \in 1 .. Len(w) : w[j].block = b /\ p \in w[j].todo) =>
                 \E j \in 1 .. Len(r) : r[j].block = b /\ p \in r[j].todo
  BY <1>3, <1>4
<1>6. /\ \A j \in 1 .. Len(r) :
          /\ r[j].block \in c.blocks \ {c.header}
          /\ r[j].todo \subseteq Mirror(g)[r[j].block]
      /\ \A j, k \in 1 .. Len(r) : r[j].block = r[k].block => j = k
  BY <1>1, <1>3
<1>7. \A b \in c.blocks \ {c.header} : \A p \in Block : b \in g[p] =>
          \/ SeenIn(g, c, p)
          \/ \E j \in 1 .. Len(r) : r[j].block = b /\ p \in r[j].todo
  BY <1>1, <1>5
<1>8. Walking(g, c, r)
  BY <1>3, <1>6, <1>7 DEF Walking
<1> QED
  BY <1>2, <1>8

(* The innermost activation with a predecessor less to visit.              *)
LessOne(w, p) == Append(Rest(w), [w[Len(w)] EXCEPT !.todo = @ \ {p}])
LEMMA LessOneOf ==
    ASSUME NEW s \in Seq(Activation), s # <<>>, NEW p
    PROVE  /\ LessOne(s, p) \in Seq(Activation) /\ Len(LessOne(s, p)) = Len(s)
           /\ Len(s) \in Nat /\ Len(s) >= 1
           /\ \A i \in 1 .. Len(s) :
               /\ LessOne(s, p)[i].block = s[i].block
               /\ LessOne(s, p)[i].todo = IF i = Len(s) THEN s[i].todo \ {p} ELSE s[i].todo
<1>1. PICK B, t, R : B = Rest(s) /\ t = [s[Len(s)] EXCEPT !.todo = @ \ {p}] /\ R = LessOne(s, p)
  OBVIOUS
<1>2. /\ B \in Seq(Activation) /\ Len(s) \in Nat /\ Len(s) >= 1 /\ Len(B) = Len(s) - 1
      /\ \A i \in 1 .. Len(B) : B[i] = s[i]
  BY <1>1, RestOf
<1>3. s[Len(s)] \in Activation
  BY <1>2
<1>4. t \in Activation /\ t.block = s[Len(s)].block /\ t.todo = s[Len(s)].todo \ {p}
  BY <1>1, <1>3 DEF Activation
<1>5. R = Append(B, t)
  BY <1>1 DEF LessOne
<1>6. R \in Seq(Activation) /\ Len(R) = Len(B) + 1 /\ R[Len(B) + 1] = t /\ \A i \in 1 .. Len(B) : R[i] = B[i]
  BY <1>2, <1>4, <1>5, AppendProperties
<1>7. Len(R) = Len(s) /\ R[Len(s)] = t
  BY <1>2, <1>6
<1>8. \A i \in 1 .. Len(s) : i # Len(s) => R[i] = s[i]
  BY <1>2, <1>6
<1>9. \A i \in 1 .. Len(s) :
        /\ R[i].block = s[i].block
        /\ R[i].todo = IF i = Len(s) THEN s[i].todo \ {p} ELSE s[i].todo
  BY <1>4, <1>7, <1>8
<1> QED
  BY <1>1, <1>2, <1>6, <1>7, <1>9

(* The loop once b was visited.                                            *)
Visited(g, b, c) == [c EXCEPT !.exits = @ \union (g[b] \ c.blocks), !.blocks = @ \union {b}]
LEMMA VisitedIs ==
    ASSUME NEW g \in Edges, NEW c \in Loop, NEW b \in Block
    PROVE  /\ Visited(g, b, c) \in Loop
           /\ Visited(g, b, c).header = c.header /\ Visited(g, b, c).latch = c.latch
           /\ Visited(g, b, c).blocks = c.blocks \union {b}
           /\ SeenIn(g, Visited(g, b, c), b)
           /\ \A q : SeenIn(g, c, q) => SeenIn(g, Visited(g, b, c), q)
<1>1. PICK v : v = Visited(g, b, c)
  OBVIOUS
<1>2. /\ v \in Loop /\ v.header = c.header /\ v.latch = c.latch
      /\ v.blocks = c.blocks \union {b} /\ v.exits = c.exits \union (g[b] \ c.blocks)
  BY <1>1 DEF Visited, Loop, Edges
<1> QED
  BY <1>1, <1>2 DEF SeenIn

LEMMA WalkKnown ==
    ASSUME NEW g \in Edges, NEW c, NEW w, Walking(g, c, w), w # <<>>,
           NEW p \in w[Len(w)].todo, p \in c.blocks
    PROVE  Walking(g, Visited(g, p, c), LessOne(w, p))
<1>1. /\ c \in Loop /\ <<c.latch, c.header>> \in Closing(g)
      /\ c.header \in c.blocks /\ c.latch \in c.blocks
      /\ \A S \in SUBSET Block : IsLoopSet(g, c.header, c.latch, S) => c.blocks \subseteq S
      /\ \A b \in c.blocks : b # c.header \/ c.header = c.latch => SeenIn(g, c, b)
      /\ w \in Seq(Activation)
      /\ \A j \in 1 .. Len(w) :
          /\ w[j].block \in c.blocks \ {c.header}
          /\ w[j].todo \subseteq Mirror(g)[w[j].block]
      /\ \A j, k \in 1 .. Len(w) : w[j].block = w[k].block => j = k
      /\ \A b \in c.blocks \ {c.header} : \A q \in Block : b \in g[q] =>
          \/ SeenIn(g, c, q)
          \/ \E j \in 1 .. Len(w) : w[j].block = b /\ q \in w[j].todo
  BY DEF Walking
<1>2. PICK v, r : v = Visited(g, p, c) /\ r = LessOne(w, p)
  OBVIOUS
<1>3. p \in Block
  BY <1>1 DEF Loop
<1>4. /\ v \in Loop /\ v.header = c.header /\ v.latch = c.latch
      /\ v.blocks = c.blocks /\ SeenIn(g, v, p)
      /\ \A q : SeenIn(g, c, q) => SeenIn(g, v, q)
  <2>1. c \in Loop /\ v = Visited(g, p, c) /\ c.blocks \union {p} = c.blocks
    BY <1>1, <1>2
  <2>2. /\ v \in Loop /\ v.header = c.header /\ v.latch = c.latch
        /\ v.blocks = c.blocks \union {p} /\ SeenIn(g, v, p)
        /\ \A q : SeenIn(g, c, q) => SeenIn(g, v, q)
    BY <1>3, <2>1, VisitedIs
  <2> QED BY <2>1, <2>2
<1>5. /\ r \in Seq(Activation) /\ Len(r) = Len(w)
      /\ Len(w) \in Nat /\ Len(w) >= 1
      /\ \A i \in 1 .. Len(w) :
           /\ r[i].block = w[i].block
           /\ r[i].todo = IF i = Len(w) THEN w[i].todo \ {p} ELSE w[i].todo
  <2>1. w \in Seq(Activation) /\ w # <<>> /\ r = LessOne(w, p)
    BY <1>1, <1>2
  <2>2. /\ LessOne(w, p) \in Seq(Activation) /\ Len(LessOne(w, p)) = Len(w)
        /\ Len(w) \in Nat /\ Len(w) >= 1
        /\ \A i \in 1 .. Len(w) :
             /\ LessOne(w, p)[i].block = w[i].block
             /\ LessOne(w, p)[i].todo = IF i = Len(w) THEN w[i].todo \ {p} ELSE w[i].todo
    BY <2>1, LessOneOf, Zenon
  <2> QED BY <2>1, <2>2, Zenon
<1>6. \A i \in 1 .. Len(r) : r[i].todo \subseteq w[i].todo /\ \A q \in w[i].todo : q = p \/ q \in r[i].todo
  BY <1>5
<1>7. \A b \in v.blocks \ {v.header} : \A q \in Block : b \in g[q] =>
          \/ SeenIn(g, v, q)
          \/ \E j \in 1 .. Len(r) : r[j].block = b /\ q \in r[j].todo
  <2> SUFFICES ASSUME NEW b \in c.blocks \ {c.header}, NEW q \in Block, b \in g[q], ~SeenIn(g, v, q)
               PROVE  \E j \in 1 .. Len(r) : r[j].block = b /\ q \in r[j].todo
    BY <1>4
  <2>1. PICK j \in 1 .. Len(w) : w[j].block = b /\ q \in w[j].todo
    BY <1>1, <1>4
  <2>2. q # p
    BY <1>4
  <2> QED BY <1>5, <1>6, <2>1, <2>2
<1>8. \A j \in 1 .. Len(r) :
          /\ r[j].block \in v.blocks \ {v.header}
          /\ r[j].todo \subseteq Mirror(g)[r[j].block]
  <2> TAKE j \in 1 .. Len(r)
  <2>1. r[j].block = w[j].block /\ r[j].todo \subseteq w[j].todo /\ j \in 1 .. Len(w)
    BY <1>5, <1>6
  <2> QED BY <1>1, <1>4, <2>1
<1>9. \A j, k \in 1 .. Len(r) : r[j].block = r[k].block => j = k
  BY <1>1, <1>5
<1>10. \A b \in v.blocks : b # v.header \/ v.header = v.latch => SeenIn(g, v, b)
  BY <1>1, <1>4
<1>11. Walking(g, v, r)
  BY <1>1, <1>4, <1>5, <1>7, <1>8, <1>9, <1>10 DEF Walking
<1> QED
  BY <1>2, <1>11

(* A predecessor visited for the first time gets an activation.            *)
LEMMA WalkDeeper ==
    ASSUME NEW g \in Edges, NEW c, NEW w, Walking(g, c, w), w # <<>>,
           NEW p \in w[Len(w)].todo, p \notin c.blocks
    PROVE  Walking(g, Visited(g, p, c),
                   Append(LessOne(w, p), [block |-> p, todo |-> Mirror(g)[p]]))
<1>1. /\ c \in Loop /\ <<c.latch, c.header>> \in Closing(g)
      /\ c.header \in c.blocks /\ c.latch \in c.blocks
      /\ \A S \in SUBSET Block : IsLoopSet(g, c.header, c.latch, S) => c.blocks \subseteq S
      /\ \A b \in c.blocks : b # c.header \/ c.header = c.latch => SeenIn(g, c, b)
      /\ w \in Seq(Activation)
      /\ \A j \in 1 .. Len(w) :
          /\ w[j].block \in c.blocks \ {c.header}
          /\ w[j].todo \subseteq Mirror(g)[w[j].block]
      /\ \A j, k \in 1 .. Len(w) : w[j].block = w[k].block => j = k
      /\ \A b \in c.blocks \ {c.header} : \A q \in Block : b \in g[q] =>
          \/ SeenIn(g, c, q)
          \/ \E j \in 1 .. Len(w) : w[j].block = b /\ q \in w[j].todo
  BY DEF Walking
<1>2. PICK v, r, t, u : /\ v = Visited(g, p, c) /\ r = LessOne(w, p)
                        /\ t = [block |-> p, todo |-> Mirror(g)[p]] /\ u = Append(r, t)
  OBVIOUS
<1>3. /\ r \in Seq(Activation) /\ Len(r) = Len(w)
      /\ Len(w) \in Nat /\ Len(w) >= 1
      /\ \A i \in 1 .. Len(w) :
           /\ r[i].block = w[i].block
           /\ r[i].todo = IF i = Len(w) THEN w[i].todo \ {p} ELSE w[i].todo
  <2>1. w \in Seq(Activation) /\ w # <<>> /\ r = LessOne(w, p)
    BY <1>1, <1>2
  <2>2. /\ LessOne(w, p) \in Seq(Activation) /\ Len(LessOne(w, p)) = Len(w)
        /\ Len(w) \in Nat /\ Len(w) >= 1
        /\ \A i \in 1 .. Len(w) :
             /\ LessOne(w, p)[i].block = w[i].block
             /\ LessOne(w, p)[i].todo = IF i = Len(w) THEN w[i].todo \ {p} ELSE w[i].todo
    BY <2>1, LessOneOf, Zenon
  <2> QED BY <2>1, <2>2, Zenon
<1>4. Len(w) \in 1 .. Len(w) /\ w[Len(w)] \in Activation
  BY <1>1, <1>3
<1>5. /\ p \in Block /\ p \in Mirror(g)[w[Len(w)].block]
      /\ w[Len(w)].block \in c.blocks \ {c.header} /\ c.blocks \subseteq Block
  BY <1>1, <1>4 DEF Activation, Loop
<1>6. w[Len(w)].block \in g[p]
  BY <1>5 DEF Mirror
<1>7. /\ v \in Loop /\ v.header = c.header /\ v.latch = c.latch
      /\ v.blocks = c.blocks \union {p} /\ SeenIn(g, v, p) /\ p # c.header
      /\ \A q : SeenIn(g, c, q) => SeenIn(g, v, q)
  <2>1. c \in Loop /\ v = Visited(g, p, c) /\ p \in Block /\ p # c.header
    BY <1>1, <1>2, <1>5
  <2> QED BY <2>1, VisitedIs
<1>8. t \in Activation /\ t.block = p /\ t.todo = Mirror(g)[p]
  BY <1>2, <1>5 DEF Activation, Mirror
<1>9. /\ u \in Seq(Activation) /\ Len(u) = Len(w) + 1 /\ u[Len(w) + 1] = t
      /\ \A i \in 1 .. Len(w) : u[i] = r[i]
  BY <1>2, <1>3, <1>8, AppendProperties
<1>10. \A i \in 1 .. Len(u) : i = Len(w) + 1 \/ i \in 1 .. Len(w)
  BY <1>3, <1>9
<1>11. \A i \in 1 .. Len(w) : /\ u[i].block = w[i].block /\ u[i].todo \subseteq w[i].todo
                              /\ \A q \in w[i].todo : q = p \/ q \in u[i].todo
                              /\ i \in 1 .. Len(u)
  <2> TAKE i \in 1 .. Len(w)
  <2>1. u[i] = r[i] /\ i \in 1 .. Len(u)
    BY <1>3, <1>9
  <2>2. /\ r[i].block = w[i].block
        /\ r[i].todo = IF i = Len(w) THEN w[i].todo \ {p} ELSE w[i].todo
    BY <1>3
  <2> QED BY <2>1, <2>2
<1>12. Len(w) + 1 \in 1 .. Len(u)
  BY <1>3, <1>9
<1>13. \A j \in 1 .. Len(u) :
          /\ u[j].block \in v.blocks \ {v.header}
          /\ u[j].todo \subseteq Mirror(g)[u[j].block]
  <2> TAKE j \in 1 .. Len(u)
  <2>1. CASE j = Len(w) + 1
    BY <1>7, <1>8, <1>9, <2>1
  <2>2. CASE j \in 1 .. Len(w)
    <3>1. u[j].block = w[j].block /\ u[j].todo \subseteq w[j].todo
      BY <1>11, <2>2
    <3> QED BY <1>1, <1>7, <2>2, <3>1
  <2> QED BY <1>10, <2>1, <2>2
<1>14. \A j, k \in 1 .. Len(u) : u[j].block = u[k].block => j = k
  <2> TAKE j, k \in 1 .. Len(u)
  <2>1. \A i \in 1 .. Len(w) : u[i].block # p
    BY <1>1, <1>11
  <2> QED BY <1>1, <1>8, <1>9, <1>10, <1>11, <2>1
<1>15. \A b \in v.blocks \ {v.header} : \A q \in Block : b \in g[q] =>
          \/ SeenIn(g, v, q)
          \/ \E j \in 1 .. Len(u) : u[j].block = b /\ q \in u[j].todo
  <2> SUFFICES ASSUME NEW b \in v.blocks \ {v.header}, NEW q \in Block, b \in g[q], ~SeenIn(g, v, q)
               PROVE  \E j \in 1 .. Len(u) : u[j].block = b /\ q \in u[j].todo
    OBVIOUS
  <2>1. CASE b = p
    <3>1. q \in Mirror(g)[p]
      BY <1>5, <2>1 DEF Mirror
    <3> QED BY <1>8, <1>9, <1>12, <2>1, <3>1
  <2>2. CASE b # p
    <3>1. b \in c.blocks \ {c.header}
      BY <1>7, <2>2
    <3>2. PICK j \in 1 .. Len(w) : w[j].block = b /\ q \in w[j].todo
      BY <1>1, <1>7, <3>1
    <3>3. q # p
      BY <1>7
    <3> QED BY <1>11, <3>2, <3>3
  <2> QED BY <2>1, <2>2
<1>16. \A S \in SUBSET Block : IsLoopSet(g, v.header, v.latch, S) => v.blocks \subseteq S
  <2> SUFFICES ASSUME NEW S \in SUBSET Block, IsLoopSet(g, c.header, c.latch, S)
               PROVE  c.blocks \union {p} \subseteq S
    BY <1>7
  <2>1. c.blocks \subseteq S
    BY <1>1
  <2>2. p \in S
    BY <1>5, <1>6, <2>1 DEF IsLoopSet
  <2> QED BY <2>1, <2>2
<1>17. /\ \A b \in v.blocks : b # v.header \/ v.header = v.latch => SeenIn(g, v, b)
       /\ v.header \in v.blocks /\ v.latch \in v.blocks /\ <<v.latch, v.header>> \in Closing(g)
  BY <1>1, <1>7
<1>18. Walking(g, v, u)
  BY <1>7, <1>9, <1>13, <1>14, <1>15, <1>16, <1>17 DEF Walking
<1> QED
  BY <1>2, <1>18

(* The first activation is for the latch; a loop of one block needs none.  *)
LEMMA WalkBegins ==
    ASSUME NEW g \in Edges, NEW h, NEW l, <<l, h>> \in Closing(g)
    PROVE  Walking(g, Visited(g, l, NewLoop(h, l)),
                   IF l = h THEN <<>> ELSE <<[block |-> l, todo |-> Mirror(g)[l]]>>)
<1>1. h \in Block /\ l \in Block /\ h \in g[l]
  BY DEF Closing
<1>2. PICK c, v, t : c = NewLoop(h, l) /\ v = Visited(g, l, c) /\ t = [block |-> l, todo |-> Mirror(g)[l]]
  OBVIOUS
<1>3. c \in Loop /\ c.header = h /\ c.latch = l /\ c.blocks = {h}
  BY <1>1, <1>2 DEF NewLoop, Loop
<1>4. v \in Loop /\ v.header = h /\ v.latch = l /\ v.blocks = {h, l} /\ SeenIn(g, v, l)
  BY <1>1, <1>2, <1>3, VisitedIs
<1>5. \A S \in SUBSET Block : IsLoopSet(g, h, l, S) => v.blocks \subseteq S
  BY <1>4 DEF IsLoopSet
<1>6. \A b \in v.blocks : b # h \/ h = l => SeenIn(g, v, b)
  BY <1>4
<1>7. CASE l = h
  <2>0. <<>> \in Seq(Activation) /\ 1 .. Len(<<>>) = {}
    OBVIOUS
  <2>1. PICK w : w = <<>> /\ w \in Seq(Activation) /\ 1 .. Len(w) = {}
    BY <2>0
  <2>2. Walking(g, v, w)
    BY <1>4, <1>5, <1>6, <1>7, <2>1 DEF Walking
  <2> QED BY <1>2, <1>7, <2>1, <2>2
<1>8. CASE l # h
  <2>1. t \in Activation /\ t.block = l /\ t.todo = Mirror(g)[l]
    BY <1>1, <1>2 DEF Activation, Mirror
  <2>2. PICK w : w = <<t>>
    OBVIOUS
  <2>3. w \in Seq(Activation) /\ Len(w) = 1 /\ w[1] = t /\ 1 .. Len(w) = {1}
    BY <2>1, <2>2
  <2>4. \A b \in v.blocks \ {v.header} : \A q \in Block : b \in g[q] =>
          \E j \in 1 .. Len(w) : w[j].block = b /\ q \in w[j].todo
    BY <1>1, <1>4, <2>1, <2>3 DEF Mirror
  <2>5. /\ \A j \in 1 .. Len(w) : /\ w[j].block \in v.blocks \ {v.header}
                                  /\ w[j].todo \subseteq Mirror(g)[w[j].block]
        /\ \A j, k \in 1 .. Len(w) : w[j].block = w[k].block => j = k
    BY <1>4, <1>8, <2>1, <2>3
  <2>6. Walking(g, v, w)
    BY <1>4, <1>5, <1>6, <2>3, <2>4, <2>5 DEF Walking
  <2> QED BY <1>2, <1>8, <2>2, <2>6
<1> QED
  BY <1>7, <1>8
-----------------------------------------------------------------------------
(* Part 3.  The list of loops.                                             *)

Pairs(ls) == {<<ls[i].latch, ls[i].header>> : i \in DOMAIN ls}

(* ls holds one loop for each of the edges of P.                           *)
Listed(g, ls, P) ==
    /\ ls \in Seq(Loop) /\ Pairs(ls) = P
    /\ \A i, j \in DOMAIN ls : ls[i].latch = ls[j].latch /\ ls[i].header = ls[j].header => i = j
    /\ \A i \in DOMAIN ls : Whole(g, ls[i])

LEMMA ListedNone == ASSUME NEW g PROVE Listed(g, <<>>, {})
<1>1. DOMAIN <<>> = {} /\ <<>> \in Seq(Loop)
  OBVIOUS
<1> QED
  BY <1>1 DEF Listed, Pairs

LEMMA ListedOneMore ==
    ASSUME NEW g, NEW ls, NEW P, NEW c, Listed(g, ls, P), Whole(g, c),
           <<c.latch, c.header>> \notin P
    PROVE  Listed(g, Append(ls, c), P \union {<<c.latch, c.header>>})
<1>1. PICK m, e : m = Append(ls, c) /\ e = <<c.latch, c.header>>
  OBVIOUS
<1>2. ls \in Seq(Loop) /\ c \in Loop
  BY DEF Listed, Whole
<1>3. /\ m \in Seq(Loop) /\ Len(ls) \in Nat /\ Len(m) = Len(ls) + 1 /\ m[Len(ls) + 1] = c
      /\ \A i \in 1 .. Len(ls) : m[i] = ls[i]
  BY <1>1, <1>2, AppendProperties
<1>4. DOMAIN ls = 1 .. Len(ls) /\ DOMAIN m = 1 .. Len(m)
  BY <1>2, <1>3
<1>5. /\ \A i \in DOMAIN m : i = Len(ls) + 1 \/ (i \in DOMAIN ls /\ m[i] = ls[i])
      /\ \A i \in DOMAIN ls : i \in DOMAIN m /\ m[i] = ls[i]
      /\ Len(ls) + 1 \in DOMAIN m
  BY <1>3, <1>4
<1>6. /\ \A i \in DOMAIN ls : <<ls[i].latch, ls[i].header>> \in P
      /\ \A x \in P : \E i \in DOMAIN ls : x = <<ls[i].latch, ls[i].header>>
  BY DEF Listed, Pairs
<1>7. Pairs(m) = P \union {e}
  <2>1. Pairs(m) \subseteq P \union {e}
    <3> SUFFICES ASSUME NEW i \in DOMAIN m PROVE <<m[i].latch, m[i].header>> \in P \union {e}
      BY DEF Pairs
    <3> QED BY <1>1, <1>3, <1>5, <1>6
  <2>2. P \subseteq Pairs(m)
    BY <1>5, <1>6 DEF Pairs
  <2>3. e \in Pairs(m)
    BY <1>1, <1>3, <1>5 DEF Pairs
  <2> QED BY <2>1, <2>2, <2>3
<1>8. \A i, j \in DOMAIN m : m[i].latch = m[j].latch /\ m[i].header = m[j].header => i = j
  <2> SUFFICES ASSUME NEW i \in DOMAIN m, NEW j \in DOMAIN m,
                      m[i].latch = m[j].latch, m[i].header = m[j].header
               PROVE  i = j
    OBVIOUS
  <2>1. \A n \in DOMAIN ls : ~(ls[n].latch = c.latch /\ ls[n].header = c.header)
    BY <1>6
  <2>2. CASE i \in DOMAIN ls /\ m[i] = ls[i] /\ j \in DOMAIN ls /\ m[j] = ls[j]
    BY <2>2 DEF Listed
  <2> QED BY <1>3, <1>5, <2>1, <2>2
<1>9. \A i \in DOMAIN m : Whole(g, m[i])
  BY <1>3, <1>5 DEF Listed
<1>10. Listed(g, m, P \union {e})
  BY <1>3, <1>7, <1>8, <1>9 DEF Listed
<1> QED
  BY <1>1, <1>10

(* The edges already taken when the outer loop is at a and es are left.    *)
Taken(g, a, es) == {e \in Closing(g) : e[1] < a \/ (e[1] = a /\ e[2] \notin es)}

LEMMA TakenEdges ==
    ASSUME NEW g
    PROVE  /\ Taken(g, 0, {}) = {}
           /\ Taken(g, N, {}) = Closing(g)
           /\ \A a \in 0 .. N : a < N =>
                 Taken(g, a + 1, {s \in Block : <<a + 1, s>> \in Closing(g)}) = Taken(g, a, {})
           /\ \A a \in 0 .. N : \A es : \A s \in es : <<a, s>> \in Closing(g) =>
                 /\ Taken(g, a, es \ {s}) = Taken(g, a, es) \union {<<a, s>>}
                 /\ <<a, s>> \notin Taken(g, a, es)
<1>1. \A e \in Closing(g) : /\ e[1] \in 1 .. N /\ e[1] \in Nat /\ e[2] \in Block
                            /\ e = <<e[1], e[2]>>
  BY NAssumption DEF Closing, Block
<1>2. Taken(g, 0, {}) = {} /\ Taken(g, N, {}) = Closing(g)
  BY <1>1, NAssumption DEF Taken
<1>3. ASSUME NEW a \in 0 .. N, a < N
      PROVE  Taken(g, a + 1, {s \in Block : <<a + 1, s>> \in Closing(g)}) = Taken(g, a, {})
  <2>1. \A e \in Closing(g) : (e[1] < a + 1 <=> e[1] < a \/ e[1] = a)
    BY <1>1, NAssumption
  <2>2. \A e \in Closing(g) : e[1] = a + 1 => e[2] \in {s \in Block : <<a + 1, s>> \in Closing(g)}
    BY <1>1
  <2> QED BY <2>1, <2>2 DEF Taken
<1>4. ASSUME NEW a \in 0 .. N, NEW es, NEW s \in es, <<a, s>> \in Closing(g)
      PROVE  /\ Taken(g, a, es \ {s}) = Taken(g, a, es) \union {<<a, s>>}
             /\ <<a, s>> \notin Taken(g, a, es)
  <2>1. \A e \in Closing(g) : e[1] = a /\ e[2] = s => e = <<a, s>>
    BY <1>1
  <2>2. ~(a < a)
    BY NAssumption
  <2> QED BY <1>4, <2>1, <2>2 DEF Taken
<1> QED
  BY <1>2, <1>3, <1>4
-----------------------------------------------------------------------------
(* Part 4.  The preheaders.                                                *)

SkippedIn(s, S) == {b \in S : b =< N} \union UNION {s[b] : b \in {q \in S : q > N}}

LEMMA InSkipped ==
    ASSUME NEW s, NEW S, NEW x
    PROVE  x \in SkippedIn(s, S) <=> \/ x \in S /\ x =< N
                                    \/ \E q \in S : q > N /\ x \in s[q]
BY DEF SkippedIn

(* The preheader b of the header h lies outside of one of its loops, and   *)
(* took over all predecessors of h but some below h.                       *)
PreheaderOf(g, p, ls, b, h) ==
    /\ \A q \in p[h] \ {b} : q \in Block /\ Dominates(g, h, q)
    /\ p[b] \subseteq Block
    /\ \E i \in DOMAIN ls : ls[i].header = h /\ p[b] \intersect ls[i].blocks = {}

(* The graph with successors s and predecessors p is g with preheaders for *)
(* at least the headers of the loops outside todo.                         *)
Canon(g, s, p, ls, todo) ==
    /\ s \in [AllBlocks -> SUBSET AllBlocks] /\ p \in [AllBlocks -> SUBSET AllBlocks]
    /\ \A a, b \in AllBlocks : b \in s[a] <=> a \in p[b]
    /\ \E k \in 0 .. N : \A b \in AllBlocks : (b > N /\ s[b] # {}) <=> b \in N + 1 .. N + k
    /\ \A b \in AllBlocks : b > N /\ s[b] = {} => p[b] = {}
    /\ \A b \in AllBlocks : b > N /\ s[b] # {} =>
          \E h \in Block : s[b] = {h} /\ PreheaderOf(g, p, ls, b, h)
    /\ \A a, b \in AllBlocks : a > N /\ b > N /\ s[a] # {} /\ s[a] = s[b] => a = b
    /\ \A b \in Block : SkippedIn(s, s[b]) = g[b]
    /\ \A i \in DOMAIN ls \ todo : Reachable(g, ls[i].header) => \E q \in p[ls[i].header] : q > N

LEMMA BlockOrAbove ==
    /\ \A b \in AllBlocks : b \in Block <=> b =< N
    /\ \A b \in AllBlocks : b > N <=> b \notin Block
    /\ Block \subseteq AllBlocks
BY NAssumption DEF AllBlocks, Block

LEMMA CanonBegins ==
    ASSUME NEW g \in Edges, NEW ls
    PROVE  Canon(g, OnAll(g), OnAll(Mirror(g)), ls, DOMAIN ls)
<1>1. PICK s, p : s = OnAll(g) /\ p = OnAll(Mirror(g))
  OBVIOUS
<1>2. /\ s \in [AllBlocks -> SUBSET AllBlocks] /\ p \in [AllBlocks -> SUBSET AllBlocks]
      /\ \A b \in Block : s[b] = g[b] /\ p[b] = {q \in Block : b \in g[q]}
      /\ \A b \in AllBlocks : b > N => s[b] = {} /\ p[b] = {}
      /\ \A b \in Block : g[b] \subseteq Block
  BY <1>1, BlockOrAbove DEF OnAll, Mirror, Edges
<1>3. \A a, b \in AllBlocks : b \in s[a] <=> a \in p[b]
  <2> TAKE a, b \in AllBlocks
  <2>1. (a \in Block \/ s[a] = {}) /\ (b \in Block \/ p[b] = {})
    BY <1>2, BlockOrAbove
  <2> QED BY <1>2, <2>1
<1>4. \A b \in AllBlocks : (b > N /\ s[b] # {}) <=> b \in N + 1 .. N + 0
  BY <1>2, NAssumption
<1>5. \A b \in Block : SkippedIn(s, s[b]) = g[b]
  <2> TAKE b \in Block
  <2>1. \A x : x \in SkippedIn(s, s[b]) <=> x \in g[b]
    <3> TAKE x
    <3>1. \A y \in g[b] : y =< N /\ ~(y > N)
      BY <1>2, BlockOrAbove
    <3> QED BY <1>2, <3>1, InSkipped
  <2> QED BY <2>1
<1>6. 0 \in 0 .. N
  BY NAssumption
<1>7. \E k \in 0 .. N : \A b \in AllBlocks : (b > N /\ s[b] # {}) <=> b \in N + 1 .. N + k
  BY <1>4, <1>6
<1>8. Canon(g, s, p, ls, DOMAIN ls)
  BY <1>2, <1>3, <1>5, <1>7 DEF Canon
<1> QED
  BY <1>1, <1>8

(* A header without a preheader has the predecessors it had.               *)
LEMMA OriginalPredecessors ==
    ASSUME NEW g \in Edges, NEW s, NEW p, NEW ls, NEW todo, Canon(g, s, p, ls, todo),
           NEW h \in Block, \A q \in p[h] : ~(q > N)
    PROVE  /\ p[h] \subseteq Block
           /\ \A q \in Block : h \in g[q] <=> q \in p[h]
<1>1. /\ s \in [AllBlocks -> SUBSET AllBlocks] /\ p \in [AllBlocks -> SUBSET AllBlocks]
      /\ \A a, b \in AllBlocks : b \in s[a] <=> a \in p[b]
      /\ \A b \in Block : SkippedIn(s, s[b]) = g[b]
      /\ h \in AllBlocks
  BY BlockOrAbove DEF Canon
<1>2. p[h] \subseteq Block
  BY <1>1, BlockOrAbove
<1>3. ASSUME NEW q \in Block PROVE h \in g[q] <=> q \in p[h]
  <2>1. q \in AllBlocks /\ h =< N /\ s[q] \subseteq AllBlocks
    BY <1>1, BlockOrAbove
  <2>2. h \in g[q] <=> \/ h \in s[q] /\ h =< N
                      \/ \E r \in s[q] : r > N /\ h \in s[r]
    BY <1>1, InSkipped
  <2>3. \A r \in s[q] : ~(r > N /\ h \in s[r])
    BY <1>1, <2>1
  <2> QED BY <1>1, <2>1, <2>2, <2>3
<1> QED
  BY <1>2, <1>3

(* There is room for one more: every preheader stands for a header of its  *)
(* own, and none for h.                                                    *)
LEMMA RoomForOne ==
    ASSUME NEW g \in Edges, NEW s, NEW p, NEW ls, NEW todo, Canon(g, s, p, ls, todo),
           NEW h \in Block, \A q \in p[h] : ~(q > N)
    PROVE  \E k \in 0 .. N :
              /\ k < N
              /\ Cardinality({b \in AllBlocks : b > N /\ s[b] # {}}) = k
              /\ \A b \in AllBlocks : (b > N /\ s[b] # {}) <=> b \in N + 1 .. N + k
              /\ N + 1 + k \in AllBlocks /\ N + 1 + k > N
<1>1. /\ \A a, b \in AllBlocks : b \in s[a] <=> a \in p[b]
      /\ \A b \in AllBlocks : b > N /\ s[b] # {} => \E i \in Block : s[b] = {i}
      /\ \A a, b \in AllBlocks : a > N /\ b > N /\ s[a] # {} /\ s[a] = s[b] => a = b
      /\ h \in AllBlocks
  BY BlockOrAbove DEF Canon
<1>2. PICK k \in 0 .. N : \A b \in AllBlocks : (b > N /\ s[b] # {}) <=> b \in N + 1 .. N + k
  BY DEF Canon
<1> DEFINE U == N + 1 .. N + k
<1>3. N \in Nat /\ k \in Nat /\ N >= 1
  BY NAssumption
<1>4. \A b \in U : b \in AllBlocks /\ b > N
  BY <1>3 DEF AllBlocks
<1>5. {b \in AllBlocks : b > N /\ s[b] # {}} = U
  BY <1>2, <1>4
<1>6. IsFiniteSet(U) /\ Cardinality(U) = k
  <2>1. PICK x \in Int, y \in Int : x = N + 1 /\ y = N + k
    BY <1>3
  <2>2. IsFiniteSet(x .. y) /\ Cardinality(x .. y) = IF x > y THEN 0 ELSE y - x + 1
    BY FS_Interval
  <2>3. (IF x > y THEN 0 ELSE y - x + 1) = k
    BY <1>3, <2>1
  <2> QED BY <2>1, <2>2, <2>3
<1>7. IsFiniteSet(Block \ {h}) /\ Cardinality(Block \ {h}) = N - 1
  BY BlocksAreFinite, FS_RemoveElement
<1>8. k < N
  <2> SUFFICES ASSUME ~(k < N) PROVE FALSE
    OBVIOUS
  <2>1. N - 1 < k
    BY <1>3
  <2>2. \A b \in U : \E i \in Block \ {h} : s[b] = {i}
    <3> TAKE b \in U
    <3>1. b \in AllBlocks /\ b > N /\ s[b] # {}
      BY <1>2, <1>4
    <3>2. PICK i \in Block : s[b] = {i}
      BY <1>1, <3>1
    <3>3. i # h
      BY <1>1, <3>1, <3>2
    <3> QED BY <3>2, <3>3
  <2> DEFINE f == [b \in U |-> CHOOSE i \in Block \ {h} : s[b] = {i}]
  <2>3. f \in [U -> Block \ {h}] /\ \A b \in U : s[b] = {f[b]}
    BY <2>2
  <2> HIDE DEF f
  <2>4. \E a, b \in U : a # b /\ f[a] = f[b]
    <3> HIDE DEF U
    <3> QED BY <1>6, <1>7, <2>1, <2>3, FS_PigeonHole
  <2>5. PICK a \in U, b \in U : a # b /\ f[a] = f[b]
    BY <2>4
  <2>6. s[a] = s[b] /\ s[a] # {}
    BY <2>3, <2>5
  <2>7. a \in AllBlocks /\ b \in AllBlocks /\ a > N /\ b > N
    BY <1>4
  <2> QED BY <1>1, <2>5, <2>6, <2>7
<1>9. N + 1 + k \in AllBlocks /\ N + 1 + k > N
  BY <1>3, <1>8 DEF AllBlocks
<1> QED
  BY <1>2, <1>5, <1>6, <1>8, <1>9

(* One loop less to do.                                                    *)
LEMMA CanonDone ==
    ASSUME NEW g \in Edges, NEW s, NEW p, NEW ls, NEW todo, Canon(g, s, p, ls, todo),
           NEW i \in DOMAIN ls,
           Reachable(g, ls[i].header) => \E q \in p[ls[i].header] : q > N
    PROVE  Canon(g, s, p, ls, todo \ {i})
<1>1. \A j \in DOMAIN ls \ (todo \ {i}) :
        Reachable(g, ls[j].header) => \E q \in p[ls[j].header] : q > N
  BY DEF Canon
<1> QED
  BY <1>1 DEF Canon

LEMMA WholeLoop ==
    ASSUME NEW g, Sane(g), NEW c, Whole(g, c)
    PROVE  /\ c \in Loop /\ c.header \in Block /\ c.latch \in Block /\ c.blocks \subseteq Block
           /\ NaturalLoop(g, c.header, c.latch, c.blocks)
           /\ \A b \in c.blocks : Dominates(g, c.header, b)
           /\ Entry \notin c.blocks
<1>1. /\ c \in Loop /\ c.header \in Block /\ c.latch \in Block /\ c.blocks \subseteq Block
      /\ NaturalLoop(g, c.header, c.latch, c.blocks)
  BY DEF Whole, Loop
<1>2. /\ Entry \notin c.blocks
      /\ Reachable(g, c.header) => \A b \in c.blocks : Dominates(g, c.header, b)
      /\ ~Reachable(g, c.header) => c.blocks = {c.header}
  BY <1>1, LoopIsDominated
<1>3. Dominates(g, c.header, c.header)
  BY <1>1, DominatesSelf DEF Sane
<1> QED
  BY <1>1, <1>2, <1>3

(* Where a header has neither a preheader nor a predecessor outside, the   *)
(* loop cannot run.                                                        *)
LEMMA CanonNothing ==
    ASSUME NEW g, Sane(g), NEW s, NEW p, NEW ls, NEW todo, Canon(g, s, p, ls, todo),
           NEW i \in DOMAIN ls, Whole(g, ls[i]),
           \A q \in p[ls[i].header] : ~(q > N),
           p[ls[i].header] \ ls[i].blocks = {}
    PROVE  Canon(g, s, p, ls, todo \ {i})
<1>1. PICK c : c = ls[i]
  OBVIOUS
<1>2. g \in Edges /\ c.header \in Block /\ NaturalLoop(g, c.header, c.latch, c.blocks)
  BY <1>1, WholeLoop DEF Sane
<1>3. ~Reachable(g, c.header)
  <2> SUFFICES ASSUME Reachable(g, c.header) PROVE FALSE
    OBVIOUS
  <2>1. PICK q \in Block \ c.blocks : c.header \in g[q]
    BY <1>2, HeaderIsEntered
  <2>2. q \in p[c.header]
    BY <1>1, <1>2, <2>1, OriginalPredecessors
  <2> QED BY <1>1, <2>1, <2>2
<1> QED
  BY <1>1, <1>2, <1>3, CanonDone

(* The predecessors E of h go to the new block n instead.                  *)
Redirected(s, h, n, E) ==
    [b \in AllBlocks |-> IF b = n THEN {h}
                         ELSE IF b \in E THEN (s[b] \ {h}) \union {n}
                         ELSE s[b]]
Received(p, h, n, E) == [p EXCEPT ![n] = E, ![h] = (p[h] \ E) \union {n}]

Making(g, s, p, c, h, E, n) ==
    /\ Sane(g) /\ Whole(g, c)
    /\ h = c.header /\ \A q \in p[h] : ~(q > N)
    /\ E = p[h] \ c.blocks /\ E # {}
    /\ n = N + 1 + Cardinality({b \in AllBlocks : b > N /\ s[b] # {}})

LEMMA CanonMakes ==
    ASSUME NEW g, NEW s, NEW p, NEW ls, NEW todo, Canon(g, s, p, ls, todo),
           \A j \in DOMAIN ls : ls[j].header \in Block,
           NEW i \in DOMAIN ls, NEW h, NEW E, NEW n, Making(g, s, p, ls[i], h, E, n)
    PROVE  Canon(g, Redirected(s, h, n, E), Received(p, h, n, E), ls, todo \ {i})
<1>1. PICK c : c = ls[i]
  OBVIOUS
<1>2. /\ g \in Edges /\ h \in Block /\ h = c.header /\ c.blocks \subseteq Block
      /\ \A b \in c.blocks : Dominates(g, h, b)
  BY <1>1, WholeLoop DEF Sane, Making
<1>3. /\ s \in [AllBlocks -> SUBSET AllBlocks] /\ p \in [AllBlocks -> SUBSET AllBlocks]
      /\ \A a, b \in AllBlocks : b \in s[a] <=> a \in p[b]
      /\ \A b \in AllBlocks : b > N /\ s[b] = {} => p[b] = {}
      /\ \A b \in AllBlocks : b > N /\ s[b] # {} =>
            \E x \in Block : s[b] = {x} /\ PreheaderOf(g, p, ls, b, x)
      /\ \A a, b \in AllBlocks : a > N /\ b > N /\ s[a] # {} /\ s[a] = s[b] => a = b
      /\ \A b \in Block : SkippedIn(s, s[b]) = g[b]
      /\ \A j \in DOMAIN ls \ todo : Reachable(g, ls[j].header) => \E q \in p[ls[j].header] : q > N
  BY DEF Canon
<1>4. PICK k \in 0 .. N :
         /\ k < N /\ n = N + 1 + k
         /\ \A b \in AllBlocks : (b > N /\ s[b] # {}) <=> b \in N + 1 .. N + k
         /\ n \in AllBlocks /\ n > N
  <2>1. g \in Edges /\ h \in Block /\ \A q \in p[h] : ~(q > N)
    BY <1>2 DEF Making
  <2>2. PICK k \in 0 .. N :
           /\ k < N
           /\ Cardinality({b \in AllBlocks : b > N /\ s[b] # {}}) = k
           /\ \A b \in AllBlocks : (b > N /\ s[b] # {}) <=> b \in N + 1 .. N + k
           /\ N + 1 + k \in AllBlocks /\ N + 1 + k > N
    BY <2>1, RoomForOne, Zenon
  <2>3. n = N + 1 + k
    BY <2>2 DEF Making
  <2> QED BY <2>2, <2>3
<1>5. s[n] = {} /\ p[n] = {} /\ n \notin Block
  <2>1. n \notin N + 1 .. N + k
    BY <1>4, NAssumption
  <2>2. n \in AllBlocks /\ n > N
    BY <1>4
  <2>3. s[n] = {}
    BY <1>4, <2>1, <2>2, Zenon
  <2>4. p[n] = {}
    BY <1>3, <2>2, <2>3, Zenon
  <2> QED BY <2>2, <2>3, <2>4, BlockOrAbove, Zenon
<1>6. /\ p[h] \subseteq Block /\ E \subseteq Block /\ E \subseteq p[h]
      /\ E = p[h] \ c.blocks
      /\ n \notin E /\ h # n /\ h \in AllBlocks /\ Block \subseteq AllBlocks
  <2>1. (\A q \in p[h] : ~(q > N)) /\ E = p[h] \ c.blocks
    BY <1>1 DEF Making
  <2>2. p[h] \subseteq Block
    BY <1>2, <2>1, OriginalPredecessors
  <2> QED BY <1>2, <1>5, <2>1, <2>2, BlockOrAbove
<1>7. \A b \in AllBlocks : n \notin s[b]
  BY <1>3, <1>4, <1>5
<1>8. PICK t, r : t = Redirected(s, h, n, E) /\ r = Received(p, h, n, E)
  OBVIOUS
<1>9. /\ t \in [AllBlocks -> SUBSET AllBlocks]
      /\ t[n] = {h}
      /\ \A b \in E : t[b] = (s[b] \ {h}) \union {n}
      /\ \A b \in AllBlocks : b # n /\ b \notin E => t[b] = s[b]
  <2>1. n \in AllBlocks /\ h \in AllBlocks /\ n \notin E /\ E \subseteq AllBlocks
    BY <1>4, <1>6
  <2>2. s \in [AllBlocks -> SUBSET AllBlocks]
    BY <1>3
  <2>3. t = [b \in AllBlocks |-> IF b = n THEN {h}
                               ELSE IF b \in E THEN (s[b] \ {h}) \union {n}
                               ELSE s[b]]
    BY <1>8 DEF Redirected
  <2> QED BY <2>1, <2>2, <2>3
<1>10. /\ r \in [AllBlocks -> SUBSET AllBlocks]
       /\ r[n] = E /\ r[h] = (p[h] \ E) \union {n}
       /\ \A b \in AllBlocks : b # n /\ b # h => r[b] = p[b]
  <2>1. n \in AllBlocks /\ h \in AllBlocks /\ h # n /\ E \subseteq AllBlocks
    BY <1>4, <1>6
  <2>2. p \in [AllBlocks -> SUBSET AllBlocks]
    BY <1>3
  <2>3. r = [p EXCEPT ![n] = E, ![h] = (p[h] \ E) \union {n}]
    BY <1>8 DEF Received
  <2> QED BY <2>1, <2>2, <2>3
<1>11. \A a, b \in AllBlocks : b \in t[a] <=> a \in r[b]
  <2> TAKE a, b \in AllBlocks
  <2>1. CASE a = n
    <3>1. b # h /\ b # n => n \notin r[b]
      BY <1>3, <1>4, <1>5, <1>10
    <3> QED BY <1>6, <1>9, <1>10, <2>1, <3>1
  <2>2. CASE a \in E
    <3>1. a # n
      BY <1>6, <2>2
    <3>2. b # h /\ b # n => (b \in t[a] <=> a \in r[b])
      BY <1>3, <1>9, <1>10, <2>2
    <3> QED BY <1>6, <1>9, <1>10, <2>2, <3>1, <3>2
  <2>3. CASE a # n /\ a \notin E
    <3>1. t[a] = s[a]
      BY <1>9, <2>3
    <3>2. b = h => (b \in t[a] <=> a \in r[b])
      BY <1>3, <1>6, <1>10, <2>3, <3>1
    <3>3. b = n => (b \in t[a] <=> a \in r[b])
      BY <1>7, <1>10, <2>3, <3>1
    <3>4. b # h /\ b # n => (b \in t[a] <=> a \in r[b])
      BY <1>3, <1>10, <3>1
    <3> QED BY <3>2, <3>3, <3>4
  <2> QED BY <2>1, <2>2, <2>3
<1>12. \E m \in 0 .. N : \A b \in AllBlocks : (b > N /\ t[b] # {}) <=> b \in N + 1 .. N + m
  <2>1. k + 1 \in 0 .. N /\ N + (k + 1) = n
    BY <1>4, NAssumption
  <2>2. \A b \in AllBlocks : b \in N + 1 .. N + (k + 1) <=> b \in N + 1 .. N + k \/ b = n
    BY <1>4, NAssumption DEF AllBlocks
  <2>3. \A b \in AllBlocks : b > N /\ b # n => t[b] = s[b]
    BY <1>6, <1>9, BlockOrAbove
  <2>4. \A b \in AllBlocks : (b > N /\ t[b] # {}) <=> b \in N + 1 .. N + (k + 1)
    <3> TAKE b \in AllBlocks
    <3>1. CASE b = n
      BY <1>4, <1>9, <2>2, <3>1
    <3>2. CASE b # n
      <4>1. b > N => t[b] = s[b]
        BY <2>3, <3>2, Zenon
      <4>2. (b > N /\ s[b] # {}) <=> b \in N + 1 .. N + k
        BY <1>4
      <4> QED BY <2>2, <3>2, <4>1, <4>2, Zenon
    <3> QED BY <3>1, <3>2
  <2> QED BY <2>1, <2>4
<1>13. \A b \in AllBlocks : b > N /\ b # n => t[b] = s[b] /\ r[b] = p[b]
  BY <1>2, <1>6, <1>9, <1>10, BlockOrAbove
<1>14. \A b \in AllBlocks : b > N /\ t[b] = {} => r[b] = {}
  BY <1>3, <1>9, <1>13
<1>15. \A b \in AllBlocks : b > N /\ s[b] # {} => h \notin s[b]
  <2> TAKE b \in AllBlocks
  <2>1. h \in s[b] => b \in p[h]
    BY <1>3, <1>6
  <2>2. \A q \in p[h] : ~(q > N)
    BY DEF Making
  <2> QED BY <2>1, <2>2
<1>16. \A b \in AllBlocks : b > N /\ t[b] # {} =>
            \E x \in Block : t[b] = {x} /\ PreheaderOf(g, r, ls, b, x)
  <2> SUFFICES ASSUME NEW b \in AllBlocks, b > N, t[b] # {}
               PROVE  \E x \in Block : t[b] = {x} /\ PreheaderOf(g, r, ls, b, x)
    OBVIOUS
  <2>1. CASE b = n
    <3>1. \A q \in r[h] \ {n} : q \in Block /\ Dominates(g, h, q)
      BY <1>1, <1>2, <1>6, <1>10
    <3>2. r[n] \subseteq Block /\ r[n] \intersect ls[i].blocks = {}
      BY <1>1, <1>6, <1>10
    <3>3. PreheaderOf(g, r, ls, n, h)
      BY <1>1, <1>2, <3>1, <3>2 DEF PreheaderOf
    <3> QED BY <1>2, <1>9, <2>1, <3>3
  <2>2. CASE b # n
    <3>1. t[b] = s[b] /\ r[b] = p[b]
      BY <1>13, <2>2
    <3>2. PICK x \in Block : s[b] = {x} /\ PreheaderOf(g, p, ls, b, x)
      BY <1>3, <3>1
    <3>3. x # h /\ x # n
      BY <1>5, <1>15, <3>2
    <3>4. r[x] = p[x]
      BY <1>6, <1>10, <3>3
    <3>5. PreheaderOf(g, r, ls, b, x)
      BY <3>1, <3>2, <3>4 DEF PreheaderOf
    <3> QED BY <3>1, <3>2, <3>5
  <2> QED BY <2>1, <2>2
<1>17. \A a, b \in AllBlocks : a > N /\ b > N /\ t[a] # {} /\ t[a] = t[b] => a = b
  <2> SUFFICES ASSUME NEW a \in AllBlocks, NEW b \in AllBlocks, a > N, b > N, t[a] # {}, t[a] = t[b]
               PROVE  a = b
    OBVIOUS
  <2>1. \A x \in AllBlocks : x > N /\ x # n => h \notin t[x]
    BY <1>13, <1>15
  <2>2. a = n <=> b = n
    BY <1>9, <2>1
  <2> QED BY <1>3, <1>13, <2>2
<1>18. \A b \in Block : SkippedIn(t, t[b]) = g[b]
  <2> TAKE b \in Block
  <2>1. b \in AllBlocks /\ b # n /\ s[b] \subseteq AllBlocks /\ n \notin s[b] /\ h =< N /\ ~(h > N)
    BY <1>2, <1>3, <1>5, <1>6, <1>7, BlockOrAbove
  <2>2. \A q \in s[b] : q > N => q # n /\ t[q] = s[q]
    BY <1>13, <2>1
  <2>3. \A x : x \in g[b] <=> \/ x \in s[b] /\ x =< N
                             \/ \E q \in s[b] : q > N /\ x \in s[q]
    BY <1>3, InSkipped
  <2>4. \A x : x \in SkippedIn(t, t[b]) <=> \/ x \in t[b] /\ x =< N
                                           \/ \E q \in t[b] : q > N /\ x \in t[q]
    BY InSkipped
  <2>5. CASE b \notin E
    <3>1. t[b] = s[b]
      BY <1>9, <2>1, <2>5
    <3>2. \A x : x \in SkippedIn(t, t[b]) <=> x \in g[b]
      BY <2>2, <2>3, <2>4, <3>1
    <3> QED BY <3>2
  <2>6. CASE b \in E
    <3>0. h \in s[b]
      <4>1. b \in p[h] /\ h \in AllBlocks
        BY <1>6, <2>6
      <4> QED BY <1>3, <2>1, <4>1
    <3>1. t[b] = (s[b] \ {h}) \union {n} /\ h \in s[b] /\ t[n] = {h} /\ n > N
      BY <1>4, <1>9, <2>6, <3>0
    <3>2. ~(n =< N)
      BY <1>4, NAssumption
    <3>3. \A x : (x \in t[b] /\ x =< N) <=> (x \in s[b] /\ x # h /\ x =< N)
      BY <3>1, <3>2
    <3>4. \A x : (\E q \in t[b] : q > N /\ x \in t[q])
                 <=> x = h \/ (\E q \in s[b] : q > N /\ x \in s[q])
      BY <2>1, <2>2, <3>1
    <3>5. \A x : x \in SkippedIn(t, t[b]) <=> x \in g[b]
      <4> TAKE x
      <4>1. x \in SkippedIn(t, t[b]) <=> \/ x \in s[b] /\ x # h /\ x =< N
                                         \/ x = h
                                         \/ \E q \in s[b] : q > N /\ x \in s[q]
        BY <2>4, <3>3, <3>4, Zenon
      <4>2. x = h => x \in s[b] /\ x =< N
        BY <2>1, <3>0, Zenon
      <4> QED BY <2>3, <4>1, <4>2, Zenon
    <3> QED BY <3>5
  <2> QED BY <2>5, <2>6
<1>19. \A j \in DOMAIN ls \ (todo \ {i}) :
            Reachable(g, ls[j].header) => \E q \in r[ls[j].header] : q > N
  <2> SUFFICES ASSUME NEW j \in DOMAIN ls \ (todo \ {i}), Reachable(g, ls[j].header)
               PROVE  \E q \in r[ls[j].header] : q > N
    OBVIOUS
  <2>1. CASE ls[j].header = h
    <3>1. n \in r[h] /\ n > N
      BY <1>4, <1>10
    <3> QED BY <2>1, <3>1
  <2>2. CASE ls[j].header # h
    <3>1. j \in DOMAIN ls \ todo
      <4>1. ls[i].header = h
        BY DEF Making
      <4> QED BY <2>2, <4>1
    <3>2. PICK q \in p[ls[j].header] : q > N
      BY <1>3, <3>1
    <3>3. q \in r[ls[j].header]
      BY <1>5, <1>6, <1>10, <2>2, <3>2
    <3> QED BY <3>2, <3>3
  <2> QED BY <2>1, <2>2
<1>20. Canon(g, t, r, ls, todo \ {i})
  BY <1>9, <1>10, <1>11, <1>12, <1>14, <1>16, <1>17, <1>18, <1>19 DEF Canon
<1> QED
  BY <1>8, <1>20

LEMMA CanonKeepsPaths ==
    ASSUME NEW g, NEW s, NEW p, NEW ls, NEW todo, Canon(g, s, p, ls, todo)
    PROVE  /\ \A b \in Block : SkippedIn(s, s[b]) = g[b]
           /\ \A a, b \in AllBlocks : b \in s[a] <=> a \in p[b]
           /\ s \in [AllBlocks -> SUBSET AllBlocks] /\ p \in [AllBlocks -> SUBSET AllBlocks]
BY DEF Canon

(* An edge along which a loop that can run is closed.                      *)
LEMMA EdgeCloses ==
    ASSUME NEW g, Sane(g), NEW q \in Block, NEW h \in g[q], Dominates(g, h, q)
    PROVE  <<q, h>> \in Closing(g)
<1>1. h \in Block
  BY DEF Sane, Edges
<1>2. h # q => Reachable(g, q)
  BY SourceReachable
<1> QED
  BY <1>1, <1>2 DEF Closing

(* When nothing is left to do the loops are in canonical form.             *)
LEMMA CanonEnds ==
    ASSUME NEW g, Sane(g), NEW s, NEW p, NEW ls, Canon(g, s, p, ls, {}),
           Listed(g, ls, Closing(g)),
           NEW e \in Closing(g), Reachable(g, e[2]), NEW h, h = e[2]
    PROVE  \E q \in p[h] :
            /\ q > N /\ s[q] = {h}
            /\ \A r \in p[h] \ {q} : Dominates(g, h, r)
            /\ (\A f \in Closing(g) : f[2] = h => f = e) =>
                   \A r \in p[q] : r > N \/ ~Dominates(g, h, r)
<1>1. /\ s \in [AllBlocks -> SUBSET AllBlocks] /\ p \in [AllBlocks -> SUBSET AllBlocks]
      /\ \A a, b \in AllBlocks : b \in s[a] <=> a \in p[b]
      /\ \A b \in AllBlocks : b > N /\ s[b] # {} =>
            \E x \in Block : s[b] = {x} /\ PreheaderOf(g, p, ls, b, x)
      /\ \A b \in Block : SkippedIn(s, s[b]) = g[b]
      /\ \A j \in DOMAIN ls : Reachable(g, ls[j].header) => \E q \in p[ls[j].header] : q > N
  BY DEF Canon
<1>2. e = <<e[1], e[2]>> /\ h \in Block /\ h \in AllBlocks
  BY BlockOrAbove DEF Closing
<1>3. PICK i \in DOMAIN ls : ls[i].latch = e[1] /\ ls[i].header = h
  <2>1. e \in Pairs(ls)
    BY DEF Listed
  <2> QED BY <1>2, <2>1 DEF Pairs
<1>4. PICK q \in p[h] : q > N
  BY <1>1, <1>3
<1>5. q \in AllBlocks /\ h \in s[q]
  BY <1>1, <1>2
<1>6. s[q] = {h} /\ PreheaderOf(g, p, ls, q, h)
  BY <1>1, <1>4, <1>5
<1>7. \A r \in p[h] \ {q} : Dominates(g, h, r)
  BY <1>6 DEF PreheaderOf
<1>8. ASSUME \A f \in Closing(g) : f[2] = h => f = e,
             NEW r \in p[q], Dominates(g, h, r)
      PROVE  FALSE
  <2>1. PICK j \in DOMAIN ls : ls[j].header = h /\ p[q] \intersect ls[j].blocks = {}
    BY <1>6 DEF PreheaderOf
  <2>2. r \in Block
    BY <1>6 DEF PreheaderOf
  <2>3. r \in AllBlocks /\ q \in s[r]
    BY <1>1, <1>5, <1>8, <2>2, BlockOrAbove
  <2>4. h \in g[r]
    BY <1>1, <1>4, <1>5, <2>2, <2>3, InSkipped
  <2>5. <<r, h>> = e
    BY <1>8, <2>2, <2>4, EdgeCloses
  <2>6. <<ls[j].latch, ls[j].header>> \in Closing(g) /\ Whole(g, ls[j])
    BY DEF Listed, Pairs
  <2>7. ls[j].latch = r
    BY <1>8, <2>1, <2>5, <2>6
  <2>8. ls[j].latch \in ls[j].blocks
    BY <2>6, LoopParts DEF Whole
  <2> QED BY <1>8, <2>1, <2>7, <2>8
<1> QED
  BY <1>4, <1>6, <1>7, <1>8
-----------------------------------------------------------------------------
(* Part 5.  The tree.                                                      *)

LEMMA SizesAre ==
    ASSUME \A i \in DOMAIN loops : loops[i].blocks \subseteq Block
    PROVE  \A i \in DOMAIN loops : IsFiniteSet(loops[i].blocks) /\ Size(i) \in 0 .. N
<1> TAKE i \in DOMAIN loops
<1>1. PICK S : S = loops[i].blocks
  OBVIOUS
<1>2. IsFiniteSet(S) /\ Cardinality(S) <= N
  BY <1>1, BlocksAreFinite, FS_Subset
<1>3. Cardinality(S) \in Nat
  BY <1>2, FS_CardinalityType
<1>4. Cardinality(S) \in 0 .. N
  BY <1>2, <1>3, NAssumption
<1> QED
  BY <1>1, <1>2, <1>4 DEF Size

(* The parent of a loop is one of the smallest around it.                  *)
LEMMA ParentIsSmallest ==
    ASSUME \A j \in DOMAIN loops : loops[j].blocks \subseteq Block,
           DOMAIN loops \subseteq Nat,
           NEW i \in DOMAIN loops, Around(i) # {}
    PROVE  /\ BestParent(i) \in Around(i)
           /\ \A k \in Around(i) : Size(BestParent(i)) =< Size(k)
<1>1. \A j \in DOMAIN loops : Size(j) \in Nat
  BY SizesAre, NAssumption
<1>2. Around(i) \subseteq DOMAIN loops
  BY DEF Around
<1> DEFINE T == {Size(j) : j \in Around(i)}
<1>3. PICK m \in T : \A x \in T : m <= x
  <2>1. T \subseteq Nat /\ T # {}
    BY <1>1, <1>2
  <2> HIDE DEF T
  <2> QED BY <2>1, LeastNat
<1> DEFINE R == {j \in Around(i) : Size(j) = m}
<1>4. PICK j \in R : \A x \in R : j <= x
  <2>1. R \subseteq Nat /\ R # {}
    BY <1>2, <1>3
  <2> HIDE DEF R
  <2> QED BY <2>1, LeastNat
<1>5. \A k \in Around(i) : Size(j) < Size(k) \/ (Size(j) = Size(k) /\ j =< k)
  <2> TAKE k \in Around(i)
  <2>1. Size(j) = m /\ m <= Size(k) /\ Size(j) \in Nat /\ Size(k) \in Nat
    BY <1>1, <1>2, <1>3, <1>4
  <2>2. Size(k) = m => j <= k
    BY <1>4
  <2> QED BY <2>1, <2>2
<1> DEFINE First(x) == \A k \in Around(i) : Size(x) < Size(k) \/ (Size(x) = Size(k) /\ x =< k)
<1>6. BestParent(i) = CHOOSE x \in Around(i) : First(x)
  BY DEF BestParent
<1>7. BestParent(i) \in Around(i) /\ First(BestParent(i))
  <2>1. j \in Around(i) /\ First(j)
    BY <1>4, <1>5
  <2> HIDE DEF First
  <2> QED BY <1>6, <2>1
<1>8. \A k \in Around(i) : Size(BestParent(i)) =< Size(k)
  BY <1>1, <1>2, <1>7
<1> QED
  BY <1>7, <1>8

LoopList == Sane(graph) /\ Listed(graph, loops, Closing(graph))
Inside(i, j) == loops[i].blocks \subseteq loops[j].blocks /\ Size(i) < Size(j)

LEMMA ListParts ==
    ASSUME LoopList
    PROVE  /\ DOMAIN loops \subseteq Nat \ {0}
           /\ \A i \in DOMAIN loops : /\ loops[i].blocks \subseteq Block /\ Size(i) \in 0 .. N
                                     /\ IsFiniteSet(loops[i].blocks)
                                     /\ loops[i].header \in loops[i].blocks
                                     /\ NaturalLoop(graph, loops[i].header, loops[i].latch, loops[i].blocks)
<1>1. loops \in Seq(Loop) /\ Sane(graph) /\ \A i \in DOMAIN loops : Whole(graph, loops[i])
  BY DEF LoopList, Listed
<1>2. DOMAIN loops \subseteq Nat \ {0}
  BY <1>1
<1>3. \A i \in DOMAIN loops : NaturalLoop(graph, loops[i].header, loops[i].latch, loops[i].blocks)
  BY <1>1 DEF Whole
<1>4. \A i \in DOMAIN loops : loops[i].header \in loops[i].blocks /\ loops[i].blocks \subseteq Block
  <2> TAKE i \in DOMAIN loops
  <2>1. PICK h, l, S : h = loops[i].header /\ l = loops[i].latch /\ S = loops[i].blocks
    OBVIOUS
  <2>2. NaturalLoop(graph, h, l, S)
    BY <1>3, <2>1
  <2>3. h \in S /\ S \subseteq Block
    BY <1>1, <2>2, LoopParts DEF NaturalLoop
  <2> QED BY <2>1, <2>3
<1> QED
  BY <1>2, <1>3, <1>4, SizesAre

(* Of two loops with different headers that share a block, one is strictly *)
(* inside the other.                                                       *)
LEMMA OneInside ==
    ASSUME LoopList, NEW i \in DOMAIN loops, NEW j \in DOMAIN loops,
           loops[i].header # loops[j].header,
           loops[i].blocks \intersect loops[j].blocks # {}
    PROVE  Inside(i, j) \/ Inside(j, i)
<1>1. Sane(graph)
  BY DEF LoopList
<1>2. PICK h, l, S : h = loops[i].header /\ l = loops[i].latch /\ S = loops[i].blocks
  OBVIOUS
<1>3. PICK k, m, T : k = loops[j].header /\ m = loops[j].latch /\ T = loops[j].blocks
  OBVIOUS
<1>4. /\ NaturalLoop(graph, h, l, S) /\ NaturalLoop(graph, k, m, T)
      /\ IsFiniteSet(S) /\ IsFiniteSet(T) /\ h \in S /\ k \in T
      /\ Cardinality(S) \in 0 .. N /\ Cardinality(T) \in 0 .. N
  BY <1>2, <1>3, ListParts DEF Size
<1>5. PICK x \in S \intersect T : TRUE
  BY <1>2, <1>3
<1>6. h # k
  BY <1>2, <1>3
<1>7. CASE Dominates(graph, h, k)
  <2>1. T \subseteq S /\ h \notin T
    BY <1>1, <1>4, <1>5, <1>6, <1>7, LoopsNest
  <2>2. Cardinality(T) <= Cardinality(S) /\ Cardinality(S) # Cardinality(T)
    BY <1>4, <2>1, FS_Subset
  <2>3. Cardinality(T) < Cardinality(S)
    BY <1>4, <2>2, NAssumption
  <2> QED BY <1>2, <1>3, <2>1, <2>3 DEF Inside, Size
<1>8. CASE Dominates(graph, k, h)
  <2>1. S \subseteq T /\ k \notin S
    BY <1>1, <1>4, <1>5, <1>6, <1>8, LoopsNest
  <2>2. Cardinality(S) <= Cardinality(T) /\ Cardinality(S) # Cardinality(T)
    BY <1>4, <2>1, FS_Subset
  <2>3. Cardinality(S) < Cardinality(T)
    BY <1>4, <2>2, NAssumption
  <2> QED BY <1>2, <1>3, <2>1, <2>3 DEF Inside, Size
<1> QED
  BY <1>1, <1>4, <1>5, <1>6, <1>7, <1>8, LoopsNest

(* Climbing from a loop inside another: the last loop inside it has a      *)
(* parent with its header.                                                 *)
LEMMA InsideLiesBelow ==
    ASSUME LoopList, parent = [i \in DOMAIN loops |-> BestParent(i)],
           NEW i \in DOMAIN loops, NEW j \in DOMAIN loops,
           loops[i].header # loops[j].header, Inside(i, j)
    PROVE  LiesBelow(i, j)
<1> DEFINE A == {m \in DOMAIN loops : IsAncestor(m, i)}
           C == {m \in A \union {i} : loops[m].header # loops[j].header /\ Inside(m, j)}
<1>1. /\ DOMAIN loops \subseteq Nat \ {0}
      /\ \A m \in DOMAIN loops : /\ loops[m].blocks \subseteq Block /\ Size(m) \in 0 .. N
                                /\ loops[m].header \in loops[m].blocks
  BY ListParts
<1>2. \A m \in DOMAIN loops : parent[m] = BestParent(m)
  OBVIOUS
<1>3. \A m \in DOMAIN loops : Around(m) # {} =>
         /\ parent[m] \in DOMAIN loops /\ parent[m] # NULL /\ loops[m].blocks \subseteq loops[parent[m]].blocks
         /\ Size(m) < Size(parent[m]) /\ \A k \in Around(m) : Size(parent[m]) =< Size(k)
  <2> TAKE m \in DOMAIN loops
  <2>1. SUFFICES ASSUME Around(m) # {}
                 PROVE  /\ parent[m] \in DOMAIN loops /\ parent[m] # NULL
                        /\ loops[m].blocks \subseteq loops[parent[m]].blocks
                        /\ Size(m) < Size(parent[m])
                        /\ \A k \in Around(m) : Size(parent[m]) =< Size(k)
    OBVIOUS
  <2>2. PICK n : n = parent[m] /\ n = BestParent(m)
    BY <1>2
  <2>3. n \in Around(m) /\ \A k \in Around(m) : Size(n) =< Size(k)
    <3>1. DOMAIN loops \subseteq Nat /\ \A k \in DOMAIN loops : loops[k].blocks \subseteq Block
      BY <1>1
    <3> QED BY <2>1, <2>2, <3>1, ParentIsSmallest
  <2>4. n \in DOMAIN loops /\ loops[m].blocks \subseteq loops[n].blocks /\ Size(n) > Size(m)
    BY <2>3 DEF Around, Size
  <2>5. Size(m) < Size(n) /\ n # NULL
    BY <1>1, <2>4, NAssumption DEF NULL
  <2> QED BY <2>2, <2>3, <2>4, <2>5
<1>4. \A m \in DOMAIN loops : parent[m] # NULL => Around(m) # {}
  BY <1>2 DEF BestParent
<1>5. A \union {i} \subseteq DOMAIN loops
  OBVIOUS
<1>6. \A m \in A \union {i} : parent[m] # NULL => parent[m] \in A
  <2> SUFFICES ASSUME NEW m \in A \union {i}, parent[m] # NULL PROVE parent[m] \in A
    OBVIOUS
  <2>1. parent[m] \in DOMAIN loops
    BY <1>3, <1>4, <1>5
  <2>2. ASSUME NEW S \in SUBSET DOMAIN loops, \A k \in S \union {i} : parent[k] # NULL => parent[k] \in S
        PROVE  parent[m] \in S
    <3>1. m \in S \/ m = i
      BY <2>2 DEF IsAncestor
    <3> QED BY <2>2, <3>1
  <2>3. IsAncestor(parent[m], i)
    BY <2>2 DEF IsAncestor
  <2> QED BY <2>1, <2>3
<1>7. PICK m \in C : \A n \in C : Size(n) <= Size(m)
  <2> DEFINE T == {Size(n) + 1 : n \in C}
  <2>1. \A n \in C : n \in DOMAIN loops /\ Size(n) \in 0 .. N
    BY <1>1, <1>5
  <2>2. T \subseteq 1 .. N + 1 /\ N + 1 \in Nat
    BY <2>1, NAssumption
  <2>3. i \in C /\ T # {}
    OBVIOUS
  <2> HIDE DEF C
  <2>4. PICK x \in T : \A y \in T : y <= x
    <3> HIDE DEF T
    <3> QED BY <2>2, <2>3, GreatestNat
  <2>5. PICK m \in C : x = Size(m) + 1
    OBVIOUS
  <2>6. \A n \in C : Size(n) + 1 <= Size(m) + 1 /\ Size(n) \in Nat /\ Size(m) \in Nat
    BY <2>1, <2>4, <2>5, NAssumption
  <2>7. \A n \in C : Size(n) <= Size(m)
    BY <2>6
  <2> QED BY <2>7
<1>8. m \in DOMAIN loops /\ m \in A \union {i} /\ loops[m].header # loops[j].header /\ Inside(m, j)
  BY <1>5
<1>9. PICK n : n = parent[m]
  OBVIOUS
<1>10. j \in Around(m)
  <2>1. Size(m) \in 0 .. N /\ Size(j) \in 0 .. N /\ Size(m) < Size(j)
    BY <1>1, <1>8 DEF Inside
  <2>2. Size(j) > Size(m)
    BY <2>1, NAssumption
  <2> QED BY <1>8, <2>2 DEF Around, Inside, Size
<1>11. /\ n \in DOMAIN loops /\ n # NULL /\ loops[m].blocks \subseteq loops[n].blocks
       /\ Size(m) < Size(n) /\ Size(n) =< Size(j)
  BY <1>3, <1>8, <1>9, <1>10
<1>12. n \in A
  BY <1>6, <1>8, <1>9, <1>11
<1>13. CASE loops[n].header = loops[j].header
  BY <1>11, <1>12, <1>13 DEF LiesBelow
<1>14. CASE loops[n].header # loops[j].header
  <2>1. loops[m].header \in loops[n].blocks \intersect loops[j].blocks
    BY <1>1, <1>8, <1>11 DEF Inside
  <2>2. Inside(n, j) \/ Inside(j, n)
    BY <1>11, <1>14, <2>1, OneInside
  <2>3. Inside(n, j)
    <3>1. Size(n) \in Nat /\ Size(j) \in Nat
      BY <1>1, <1>11, NAssumption
    <3>2. ~(Size(j) < Size(n))
      BY <1>11, <3>1
    <3> QED BY <2>2, <3>2 DEF Inside
  <2>4. n \in C
    BY <1>12, <1>14, <2>3
  <2>5. Size(n) <= Size(m) /\ Size(n) \in 0 .. N /\ Size(m) \in 0 .. N
    BY <1>1, <1>7, <1>8, <1>11, <2>4
  <2> QED BY <1>11, <2>5, NAssumption
<1> QED
  BY <1>13, <1>14

LEMMA NestingHolds ==
    ASSUME LoopList, parent = [i \in DOMAIN loops |-> BestParent(i)]
    PROVE  TreeIsNesting
<1> SUFFICES ASSUME NEW i \in DOMAIN loops, NEW j \in DOMAIN loops,
                    loops[i].header # loops[j].header,
                    loops[i].blocks \intersect loops[j].blocks # {}
             PROVE  LiesBelow(i, j) \/ LiesBelow(j, i)
  BY DEF TreeIsNesting
<1>1. Inside(i, j) \/ Inside(j, i)
  BY OneInside
<1> QED
  BY <1>1, InsideLiesBelow
-----------------------------------------------------------------------------
(* Part 6.  The passes.                                                    *)

(* Graphs the passes may be given.                                         *)
Live == \A g \in Graphs : Alive(g)

Fixed ==
    /\ graph \in Graphs /\ Sane(graph)
    /\ dom = [b \in Block |-> {d \in Block : ComputedDominator(graph, d, b)}]
    /\ treePhase \in {"collect", "canonicalize", "done"}

(* While loops are collected: the loops of the edges taken are on the      *)
(* list, but for the one that is open.                                     *)
Collecting ==
    /\ succ = OnAll(graph) /\ pred = OnAll(Mirror(graph))
    /\ at \in 0 .. N /\ edges \subseteq {s \in Block : <<at, s>> \in Closing(graph)}
    /\ Closed => walk = <<>> /\ Listed(graph, loops, Taken(graph, at, edges))
    /\ ~Closed => /\ Walking(graph, cur, walk)
                  /\ <<cur.latch, cur.header>> \in Taken(graph, at, edges)
                  /\ Listed(graph, loops, Taken(graph, at, edges) \ {<<cur.latch, cur.header>>})

(* Then the list is complete.                                              *)
Collected ==
    /\ walk = <<>> /\ Closed /\ Listed(graph, loops, Closing(graph))
    /\ parent = [i \in DOMAIN loops |-> BestParent(i)]
    /\ edges \subseteq DOMAIN loops
    /\ Canon(graph, succ, pred, loops, edges)
    /\ treePhase = "done" => edges = {}

LoopInv ==
    /\ Fixed
    /\ treePhase = "collect" => Collecting
    /\ treePhase # "collect" => Collected

LEMMA Typed ==
    ASSUME LoopInv
    PROVE  TreeTypeOK
<1>1. Sane(graph) /\ graph \in Edges
  BY DEF LoopInv, Fixed, Sane
<1>2. succ \in [AllBlocks -> SUBSET AllBlocks] /\ pred \in [AllBlocks -> SUBSET AllBlocks]
  <2>1. CASE treePhase = "collect"
    <3>1. Canon(graph, succ, pred, loops, DOMAIN loops)
      BY <1>1, <2>1, CanonBegins DEF LoopInv, Collecting
    <3> QED BY <3>1, CanonKeepsPaths
  <2>2. CASE treePhase # "collect"
    BY <2>2, CanonKeepsPaths DEF LoopInv, Collected
  <2> QED BY <2>1, <2>2
<1>3. \A j, k \in DOMAIN walk : walk[j].block = walk[k].block => j = k
  <2>1. CASE walk = <<>>
    BY <2>1
  <2>2. CASE Walking(graph, cur, walk)
    <3>1. walk \in Seq(Activation) /\ \A j, k \in 1 .. Len(walk) : walk[j].block = walk[k].block => j = k
      BY <2>2 DEF Walking
    <3>2. DOMAIN walk = 1 .. Len(walk)
      BY <3>1
    <3> QED BY <3>1, <3>2
  <2> QED BY <2>1, <2>2 DEF LoopInv, Collecting, Collected
<1>4. \A i \in DOMAIN loops : Entry \notin loops[i].blocks
  <2>1. \A i \in DOMAIN loops : Whole(graph, loops[i])
    BY DEF LoopInv, Collecting, Collected, Listed
  <2> QED BY <1>1, <2>1, WholeLoop
<1> QED
  BY <1>2, <1>3, <1>4 DEF TreeTypeOK

LEMMA SoundFromInv ==
    ASSUME LoopInv
    PROVE  LoopsSound
<1>1. Sane(graph) /\ graph \in Edges
  BY DEF LoopInv, Fixed, Sane
<1>2. \A S : Skipped(S) = SkippedIn(succ, S)
  BY DEF Skipped, SkippedIn
<1>3. PathsKept
  <2>1. \E todo : Canon(graph, succ, pred, loops, todo)
    BY <1>1, CanonBegins DEF LoopInv, Collecting, Collected
  <2>2. /\ \A b \in Block : SkippedIn(succ, succ[b]) = graph[b]
        /\ \A a, b \in AllBlocks : b \in succ[a] <=> a \in pred[b]
    BY <2>1, CanonKeepsPaths
  <2> QED BY <1>2, <2>2 DEF PathsKept
<1>4. CASE treePhase # "done"
  BY <1>3, <1>4, Typed DEF LoopsSound, LoopsExact, ExitsComplete, TreeIsNesting, CanonicalLoops
<1>5. CASE treePhase = "done"
  <2>1. /\ Listed(graph, loops, Closing(graph)) /\ Canon(graph, succ, pred, loops, {})
        /\ parent = [i \in DOMAIN loops |-> BestParent(i)]
    BY <1>5 DEF LoopInv, Collected
  <2>2. LoopsExact
    BY <2>1 DEF LoopsExact, Listed, Pairs, Whole, NaturalLoop
  <2>3. ExitsComplete
    BY <2>1 DEF ExitsComplete, Listed, Whole
  <2>4. TreeIsNesting
    BY <1>1, <2>1, NestingHolds DEF LoopList
  <2>5. CanonicalLoops
    <3> SUFFICES ASSUME NEW e \in Closing(graph), Reachable(graph, e[2])
                 PROVE  \E p \in pred[e[2]] :
                    /\ p > N /\ succ[p] = {e[2]}
                    /\ \A q \in pred[e[2]] \ {p} : Dominates(graph, e[2], q)
                    /\ (\A f \in Closing(graph) : f[2] = e[2] => f = e) =>
                           \A q \in pred[p] : q > N \/ ~Dominates(graph, e[2], q)
      BY DEF CanonicalLoops
    <3>1. PICK h : h = e[2]
      OBVIOUS
    <3> QED BY <1>1, <2>1, <3>1, CanonEnds
  <2> QED BY <1>3, <2>2, <2>3, <2>4, <2>5, Typed DEF LoopsSound
<1> QED
  BY <1>4, <1>5

LEMMA InvBegins == Live /\ TreeInit => LoopInv
<1> SUFFICES ASSUME Live, TreeInit PROVE LoopInv
  OBVIOUS
<1>1. Fixed
  BY GraphsAssumption DEF Live, TreeInit, Fixed, Sane
<1>2. Closed /\ walk = <<>> /\ loops = <<>> /\ at = 0 /\ edges = {} /\ treePhase = "collect"
  BY DEF TreeInit, Closed
<1>3. Listed(graph, <<>>, Taken(graph, 0, {}))
  BY ListedNone, TakenEdges
<1>4. 0 \in 0 .. N
  BY NAssumption
<1>5. Collecting
  BY <1>2, <1>3, <1>4 DEF TreeInit, Collecting
<1> QED
  BY <1>1, <1>2, <1>5 DEF LoopInv

LEMMA BackEdgesAre ==
    ASSUME LoopInv, treePhase = "collect", NEW b \in Block
    PROVE  BackEdges(b) = {s \in Block : <<b, s>> \in Closing(graph)}
<1>1. /\ Sane(graph) /\ succ[b] = graph[b] /\ graph[b] \subseteq Block
      /\ dom[b] = {d \in Block : ComputedDominator(graph, d, b)}
  BY BlockOrAbove DEF LoopInv, Fixed, Collecting, OnAll, Sane, Edges
<1>2. \A s \in Block : s \in BackEdges(b) <=> s \in graph[b] /\ ComputedDominator(graph, s, b)
  BY <1>1 DEF BackEdges
<1>3. \A s \in Block : s \in BackEdges(b) <=> <<b, s>> \in Closing(graph)
  BY <1>1, <1>2, BackEdgesClose
<1>4. BackEdges(b) \subseteq Block
  BY <1>1 DEF BackEdges
<1> QED
  BY <1>3, <1>4

LEMMA NextBlockKeeps == ASSUME LoopInv, NextBlock PROVE LoopInv'
<1>1. /\ treePhase = "collect" /\ Closed /\ edges = {} /\ at < N
      /\ at' = at + 1 /\ edges' = BackEdges(at + 1)
      /\ graph' = graph /\ dom' = dom /\ succ' = succ /\ pred' = pred /\ treePhase' = treePhase
      /\ walk' = walk /\ cur' = cur /\ loops' = loops
  BY DEF NextBlock
<1>2. /\ at \in 0 .. N /\ walk = <<>> /\ Listed(graph, loops, Taken(graph, at, {}))
      /\ succ = OnAll(graph) /\ pred = OnAll(Mirror(graph))
  BY <1>1 DEF LoopInv, Collecting
<1>3. at + 1 \in Block /\ at + 1 \in 0 .. N
  BY <1>1, <1>2, NAssumption DEF Block
<1>4. edges' = {s \in Block : <<at + 1, s>> \in Closing(graph)}
  BY <1>1, <1>3, BackEdgesAre
<1>5. Taken(graph, at + 1, edges') = Taken(graph, at, {})
  BY <1>1, <1>2, <1>4, TakenEdges
<1>6. Closed' /\ Fixed'
  BY <1>1 DEF LoopInv, Fixed, Closed
<1>7. Collecting'
  BY <1>1, <1>2, <1>3, <1>4, <1>5, <1>6 DEF Collecting
<1> QED
  BY <1>1, <1>6, <1>7 DEF LoopInv

(* What a visit makes of the loop.                                         *)
LEMMA VisitIs ==
    ASSUME LoopInv, treePhase = "collect", NEW b \in Block, NEW c, NEW outer, Visit(b, c, outer)
    PROVE  /\ cur' = Visited(graph, b, c)
           /\ walk' = IF b \in c.blocks THEN outer
                      ELSE Append(outer, [block |-> b, todo |-> Mirror(graph)[b]])
<1>1. succ[b] = graph[b] /\ pred[b] = Mirror(graph)[b]
  BY BlockOrAbove DEF LoopInv, Collecting, OnAll
<1> QED
  BY <1>1 DEF Visit, Visited, Leaving

LEMMA OpenLoopKeeps == ASSUME LoopInv, OpenLoop PROVE LoopInv'
<1>1. PICK s \in edges : edges' = edges \ {s} /\ Visit(at, NewLoop(s, at), <<>>)
  BY DEF OpenLoop
<1>2. /\ treePhase = "collect" /\ Closed /\ at' = at
      /\ graph' = graph /\ dom' = dom /\ succ' = succ /\ pred' = pred /\ treePhase' = treePhase
      /\ loops' = loops
  BY DEF OpenLoop
<1>3. /\ at \in 0 .. N /\ Listed(graph, loops, Taken(graph, at, edges))
      /\ edges \subseteq {x \in Block : <<at, x>> \in Closing(graph)}
      /\ succ = OnAll(graph) /\ pred = OnAll(Mirror(graph)) /\ graph \in Edges
  BY <1>2 DEF LoopInv, Collecting, Fixed, Sane
<1>4. <<at, s>> \in Closing(graph) /\ at \in Block /\ s \in Block
  BY <1>3 DEF Closing
<1>5. PICK v, w : /\ v = Visited(graph, at, NewLoop(s, at))
                  /\ w = IF at = s THEN <<>> ELSE <<[block |-> at, todo |-> Mirror(graph)[at]]>>
  OBVIOUS
<1>6. Walking(graph, v, w)
  BY <1>3, <1>4, <1>5, WalkBegins
<1>7. cur' = v /\ walk' = w
  <2>1. NewLoop(s, at).blocks = {s}
    BY DEF NewLoop
  <2>2. PICK c, a : c = NewLoop(s, at) /\ a = [block |-> at, todo |-> Mirror(graph)[at]]
    OBVIOUS
  <2>3. Append(<<>>, a) = <<a>>
    OBVIOUS
  <2>4. cur' = Visited(graph, at, c) /\ walk' = IF at \in c.blocks THEN <<>> ELSE Append(<<>>, a)
    BY <1>1, <1>2, <1>4, <2>2, VisitIs
  <2>5. at \in c.blocks <=> at = s
    BY <2>1, <2>2
  <2> QED BY <1>5, <2>2, <2>3, <2>4, <2>5
<1>8. v.header = s /\ v.latch = at
  BY <1>5 DEF Visited, NewLoop
<1>9. ~Closed'
  BY <1>4, <1>7, <1>8 DEF Closed, NULL, Block
<1>10. /\ Taken(graph, at, edges') = Taken(graph, at, edges) \union {<<at, s>>}
       /\ <<at, s>> \notin Taken(graph, at, edges)
  BY <1>1, <1>3, <1>4, TakenEdges
<1>11. Taken(graph, at, edges') \ {<<at, s>>} = Taken(graph, at, edges)
  BY <1>10
<1>12. Fixed'
  BY <1>2 DEF LoopInv, Fixed
<1>13. edges' \subseteq {x \in Block : <<at, x>> \in Closing(graph)}
  BY <1>1, <1>3
<1>14. Collecting'
  BY <1>2, <1>3, <1>6, <1>7, <1>8, <1>9, <1>10, <1>11, <1>13 DEF Collecting
<1> QED
  BY <1>2, <1>12, <1>14 DEF LoopInv

(* The walk of the open loop changes nothing else.                         *)
LEMMA WalkingOn ==
    ASSUME LoopInv, treePhase = "collect", ~Closed, Walking(graph, cur', walk'),
           cur'.header = cur.header, cur'.latch = cur.latch,
           UNCHANGED <<graph, dom, succ, pred, treePhase, at, edges, loops, parent, pre>>
    PROVE  LoopInv'
<1>1. Fixed' /\ ~Closed'
  BY DEF LoopInv, Fixed, Closed
<1>2. Collecting'
  BY <1>1 DEF LoopInv, Collecting
<1> QED
  BY <1>1, <1>2 DEF LoopInv

LEMMA WalkingNow ==
    ASSUME LoopInv, walk # <<>>
    PROVE  treePhase = "collect" /\ ~Closed /\ Walking(graph, cur, walk) /\ graph \in Edges
BY DEF LoopInv, Collecting, Collected, Fixed, Sane

LEMMA WalkPredecessorKeeps == ASSUME LoopInv, WalkPredecessor PROVE LoopInv'
<1>1. /\ walk # <<>>
      /\ UNCHANGED <<graph, dom, succ, pred, treePhase, at, edges, loops, parent, pre>>
  BY DEF WalkPredecessor
<1>2. treePhase = "collect" /\ ~Closed /\ Walking(graph, cur, walk) /\ graph \in Edges
  BY <1>1, WalkingNow
<1>3. PICK p \in walk[Len(walk)].todo : Visit(p, cur, LessOne(walk, p))
  BY DEF WalkPredecessor, Innermost, Outer, LessOne, Rest
<1>4. cur \in Loop /\ walk \in Seq(Activation) /\ p \in Block
  <2>1. cur \in Loop /\ walk \in Seq(Activation)
    BY <1>2 DEF Walking
  <2>2. walk[Len(walk)] \in Activation
    BY <1>1, <2>1, RestOf
  <2> QED BY <1>3, <2>1, <2>2 DEF Activation
<1>5. PICK v, w : v = Visited(graph, p, cur) /\ w = LessOne(walk, p)
  OBVIOUS
<1>6. /\ cur' = v
      /\ walk' = IF p \in cur.blocks THEN w
                 ELSE Append(w, [block |-> p, todo |-> Mirror(graph)[p]])
  BY <1>2, <1>3, <1>4, <1>5, VisitIs
<1>7. v.header = cur.header /\ v.latch = cur.latch
  BY <1>2, <1>4, <1>5, VisitedIs
<1>8. CASE p \in cur.blocks
  <2>1. Walking(graph, v, w)
    BY <1>1, <1>2, <1>3, <1>5, <1>8, WalkKnown
  <2> QED BY <1>1, <1>2, <1>6, <1>7, <1>8, <2>1, WalkingOn
<1>9. CASE p \notin cur.blocks
  <2>1. PICK u : u = Append(w, [block |-> p, todo |-> Mirror(graph)[p]])
    OBVIOUS
  <2>2. Walking(graph, v, u)
    BY <1>1, <1>2, <1>3, <1>5, <1>9, <2>1, WalkDeeper
  <2> QED BY <1>1, <1>2, <1>6, <1>7, <1>9, <2>1, <2>2, WalkingOn
<1> QED
  BY <1>8, <1>9

LEMMA WalkBackKeeps == ASSUME LoopInv, WalkBack PROVE LoopInv'
<1>1. /\ walk # <<>> /\ walk[Len(walk)].todo = {} /\ walk' = Rest(walk) /\ cur' = cur
      /\ UNCHANGED <<graph, dom, succ, pred, treePhase, at, edges, loops, parent, pre>>
  BY DEF WalkBack, Innermost, Outer, Rest
<1>2. treePhase = "collect" /\ ~Closed /\ Walking(graph, cur, walk) /\ graph \in Edges
  BY <1>1, WalkingNow
<1>3. Walking(graph, cur, Rest(walk))
  BY <1>1, <1>2, WalkPops
<1> QED
  BY <1>1, <1>2, <1>3, WalkingOn

LEMMA AddNodeKeeps == ASSUME LoopInv, AddNode PROVE LoopInv'
<1>1. /\ ~Closed /\ walk = <<>> /\ loops' = Append(loops, cur)
      /\ cur' = [cur EXCEPT !.header = NULL, !.latch = NULL, !.blocks = {}, !.exits = {}]
      /\ UNCHANGED <<graph, dom, succ, pred, treePhase, at, edges, walk, parent, pre>>
  BY DEF AddNode
<1>2. treePhase = "collect" /\ Collecting /\ Sane(graph)
  BY <1>1 DEF LoopInv, Collected, Fixed
<1>3. PICK c, e, P : c = cur /\ e = <<cur.latch, cur.header>> /\ P = Taken(graph, at, edges)
  OBVIOUS
<1>4. Walking(graph, c, <<>>) /\ e \in P /\ Listed(graph, loops, P \ {e})
  BY <1>1, <1>2, <1>3 DEF Collecting
<1>5. Whole(graph, c)
  BY <1>2, <1>4, WalkEnds
<1>6. Listed(graph, Append(loops, c), (P \ {e}) \union {<<c.latch, c.header>>})
  BY <1>3, <1>4, <1>5, ListedOneMore
<1>7. (P \ {e}) \union {<<c.latch, c.header>>} = P
  BY <1>3, <1>4
<1>8. Listed(graph, loops', P)
  BY <1>1, <1>3, <1>6, <1>7
<1>9. Closed'
  <2>1. cur \in Loop
    BY <1>3, <1>5 DEF Whole
  <2> QED BY <1>1, <2>1 DEF Closed, Loop
<1>10. Fixed'
  BY <1>1 DEF LoopInv, Fixed
<1>11. Collecting'
  BY <1>1, <1>2, <1>3, <1>8, <1>9 DEF Collecting
<1> QED
  BY <1>1, <1>2, <1>10, <1>11 DEF LoopInv

LEMMA BuildTreeKeeps == ASSUME LoopInv, BuildTree PROVE LoopInv'
<1>1. /\ treePhase = "collect" /\ Closed /\ edges = {} /\ at = N
      /\ parent' = [i \in DOMAIN loops |-> BestParent(i)]
      /\ treePhase' = "canonicalize" /\ edges' = DOMAIN loops
      /\ UNCHANGED <<graph, dom, succ, pred, at, walk, cur, loops>>
  BY DEF BuildTree
<1>2. Collecting /\ graph \in Edges
  BY <1>1 DEF LoopInv, Fixed, Sane
<1>3. walk = <<>> /\ Listed(graph, loops, Closing(graph))
  BY <1>1, <1>2, TakenEdges DEF Collecting
<1>4. Canon(graph, succ, pred, loops, DOMAIN loops)
  BY <1>2, CanonBegins DEF Collecting
<1>5. Fixed' /\ Closed'
  BY <1>1 DEF LoopInv, Fixed, Closed
<1>6. [i \in DOMAIN loops |-> BestParent(i)]' = [i \in DOMAIN loops |-> BestParent(i)]
  BY <1>1 DEF BestParent, Around, Size
<1>7. Collected'
  BY <1>1, <1>3, <1>4, <1>5, <1>6 DEF Collected
<1> QED
  BY <1>1, <1>5, <1>7 DEF LoopInv

LEMMA InsertPreheaderKeeps == ASSUME LoopInv, InsertPreheader PROVE LoopInv'
<1>1. PICK i \in Ready : /\ edges' = edges \ {i}
                         /\ UsePreheader(i) \/ NoPreheader(i) \/ MakePreheader(i)
  BY DEF InsertPreheader
<1>2. /\ treePhase = "canonicalize"
      /\ UNCHANGED <<graph, dom, treePhase, at, walk, cur, loops, parent>>
  BY DEF InsertPreheader
<1>3. /\ Collected /\ graph \in Edges /\ Sane(graph)
      /\ walk = <<>> /\ Closed /\ Listed(graph, loops, Closing(graph))
      /\ edges \subseteq DOMAIN loops /\ Canon(graph, succ, pred, loops, edges)
  BY <1>2 DEF LoopInv, Fixed, Sane, Collected
<1>4. i \in DOMAIN loops /\ \A j \in DOMAIN loops : Whole(graph, loops[j])
  BY <1>1, <1>3 DEF Ready, Listed
<1>5. \A j \in DOMAIN loops : loops[j].header \in Block
  BY <1>4 DEF Whole, Loop
<1>6. PICK h, c : h = loops[i].header /\ c = loops[i]
  OBVIOUS
<1>7. Canon(graph, succ', pred', loops, edges \ {i})
  <2>1. CASE UsePreheader(i)
    <3>1. succ' = succ /\ pred' = pred /\ \E q \in pred[loops[i].header] : q > N
      BY <2>1 DEF UsePreheader, Preheaders
    <3> QED BY <1>3, <1>4, <3>1, CanonDone
  <2>2. CASE NoPreheader(i)
    <3>1. /\ succ' = succ /\ pred' = pred /\ \A q \in pred[loops[i].header] : ~(q > N)
          /\ pred[loops[i].header] \ loops[i].blocks = {}
      BY <2>2 DEF NoPreheader, Preheaders, External
    <3> QED BY <1>3, <1>4, <3>1, CanonNothing
  <2>3. CASE MakePreheader(i)
    <3>1. PICK n, E : n = NewBlock /\ E = External(i)
      OBVIOUS
    <3>2. Making(graph, succ, pred, loops[i], h, E, n)
      BY <1>3, <1>4, <1>6, <2>3, <3>1 DEF Making, MakePreheader, Preheaders, External, NewBlock
    <3>3. succ' = Redirected(succ, h, n, E) /\ pred' = Received(pred, h, n, E)
      BY <1>6, <2>3, <3>1 DEF MakePreheader, Redirected, Received, Entering
    <3>4. Canon(graph, Redirected(succ, h, n, E), Received(pred, h, n, E), loops, edges \ {i})
      BY <1>3, <1>4, <1>5, <3>2, CanonMakes
    <3> QED BY <3>3, <3>4
  <2> QED BY <1>1, <2>1, <2>2, <2>3
<1>8. Fixed' /\ Closed'
  BY <1>2, <1>3 DEF LoopInv, Fixed, Closed
<1>9. parent' = [j \in DOMAIN loops |-> BestParent(j)]'
  BY <1>2, <1>3 DEF Collected, BestParent, Around, Size
<1>10. Collected'
  BY <1>1, <1>2, <1>3, <1>7, <1>8, <1>9 DEF Collected
<1> QED
  BY <1>2, <1>8, <1>10 DEF LoopInv

LEMMA TreeDoneKeeps == ASSUME LoopInv, TreeDone PROVE LoopInv'
<1>1. /\ treePhase = "canonicalize" /\ edges = {} /\ treePhase' = "done"
      /\ UNCHANGED <<graph, dom, succ, pred, at, edges, walk, cur, loops, parent, pre>>
  BY DEF TreeDone
<1>2. Fixed' /\ Closed' = Closed
  BY <1>1 DEF LoopInv, Fixed, Closed
<1>3. parent' = [j \in DOMAIN loops |-> BestParent(j)]'
  BY <1>1 DEF LoopInv, Collected, BestParent, Around, Size
<1>4. Collected'
  BY <1>1, <1>2, <1>3 DEF LoopInv, Collected
<1> QED
  BY <1>1, <1>2, <1>4 DEF LoopInv

LEMMA StutterKeeps == ASSUME LoopInv, UNCHANGED treeVars PROVE LoopInv'
<1>1. UNCHANGED <<graph, dom, succ, pred, treePhase, at, edges, walk, cur, loops, parent, pre>>
  BY DEF treeVars
<1>2. Fixed' /\ Closed' = Closed
  BY <1>1 DEF LoopInv, Fixed, Closed
<1>3. [j \in DOMAIN loops |-> BestParent(j)]' = [j \in DOMAIN loops |-> BestParent(j)]
  BY <1>1 DEF BestParent, Around, Size
<1>4. (Collecting' <=> Collecting) /\ (Collected' <=> Collected)
  BY <1>1, <1>2, <1>3 DEF Collecting, Collected
<1> QED
  BY <1>1, <1>2, <1>4 DEF LoopInv

(* Every natural loop of the function is collected once, with exactly its  *)
(* blocks and every way out, the parents are the nesting of the loops, and *)
(* in the end one preheader enters each loop and the paths are what they   *)
(* were (ltree.c, licm.c).                                                 *)
THEOREM LoopsAreSound ==
    ASSUME Live
    PROVE  TreeSpec => []LoopsSound
<1>1. TreeInit => LoopInv
  BY InvBegins
<1>2. LoopInv /\ [TreeNext]_treeVars => LoopInv'
  <2> SUFFICES ASSUME LoopInv, [TreeNext]_treeVars PROVE LoopInv'
    OBVIOUS
  <2>1. CASE NextBlock
    BY <2>1, NextBlockKeeps
  <2>2. CASE OpenLoop
    BY <2>2, OpenLoopKeeps
  <2>3. CASE WalkPredecessor
    BY <2>3, WalkPredecessorKeeps
  <2>4. CASE WalkBack
    BY <2>4, WalkBackKeeps
  <2>5. CASE AddNode
    BY <2>5, AddNodeKeeps
  <2>6. CASE BuildTree
    BY <2>6, BuildTreeKeeps
  <2>7. CASE InsertPreheader
    BY <2>7, InsertPreheaderKeeps
  <2>8. CASE TreeDone
    BY <2>8, TreeDoneKeeps
  <2>9. CASE UNCHANGED treeVars
    BY <2>9, StutterKeeps
  <2> QED BY <2>1, <2>2, <2>3, <2>4, <2>5, <2>6, <2>7, <2>8, <2>9 DEF TreeNext
<1>3. LoopInv => LoopsSound
  BY SoundFromInv
<1> QED
  BY <1>1, <1>2, <1>3, PTL DEF TreeSpec
==============================================================================
