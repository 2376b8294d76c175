--------------------------- MODULE MCFunctionPasses ---------------------------
(* TLC instance of the passes over whole functions: the elimination of     *)
(* tail recursion (TailRecursion), the dominance data (Dominance), the     *)
(* collection of the loops of a function and their preheaders (LoopTree),  *)
(* and the propagation of constants across calls (FunctionConstants).  An  *)
(* initial state chooses the pass and its input; of the others             *)
(* FunctionConstants has nothing to fold, LoopTree and Dominance a graph   *)
(* without edges; TailRecursion stays at NoValue.                          *)
EXTENDS FunctionConstants, TailRecursion, LoopTree, Dominance

CONSTANTS
    Passes,             \* the passes to run: "tre", "dominance", "loops", "fold"
    FoldParams, MaxSites \* the parameters and calls of FunctionConstants' programs

NoValue == "no value"

VARIABLE pass

TreIdle ==
    /\ source = NoValue /\ target = NoValue /\ next = NoValue /\ side = NoValue
    /\ frames = NoValue /\ choices = NoValue /\ taken = NoValue /\ log = NoValue
FoldIdle ==     \* no call, no parameter
    /\ prog = [loads |-> [g \in Func |-> {}], sites |-> {}, ret |-> [g \in Func |-> Input]]
    /\ load = prog.loads /\ def = [g \in Func |-> <<>>]
    /\ res = [c \in Func |-> [g \in Func |-> Unknown]]
    /\ phase = "done" /\ fn = NF + 1 /\ param = 1 /\ index = 1 /\ folded = FALSE
LoopIdle ==
    /\ graph = [b \in Block |-> {}] /\ succ = OnAll(graph) /\ pred = OnAll(graph)
    /\ dom = NoValue /\ treePhase = NoValue /\ at = 0 /\ edges = {} /\ walk = <<>>
    /\ cur = NewLoop(NULL, NULL) /\ loops = <<>> /\ parent = <<>> /\ pre = <<>>
DomIdle ==      \* done with a function of which only the entry can run
    /\ domSucc = [b \in Block |-> {}] /\ doms = [b \in Block |-> {b}]
    /\ sdom = [b \in Block |-> NULL] /\ domC = sdom /\ domS = sdom
    /\ domf = [b \in Block |-> {}]
    /\ domPhase = "done" /\ domAt = 1 /\ changed = FALSE /\ stack = <<>>
-----------------------------------------------------------------------------
(* The functions given to TailRecursion: a returning block and one or two  *)
(* blocks of the shapes hirgen makes.  A return of a call follows the call *)
(* at once, behind any other statement stands the next one.                *)
Var(p) == [kind |-> "variable", p |-> p]
Tmp(p) == [kind |-> "temporary", p |-> p]
Counting == <<Var(2), Tmp(1)>>
Swap == <<Var(2), Var(1)>>
Args == [1 .. 2 -> {Var(1), Var(2), Tmp(1), Tmp(2)}]

Self(a) == [op |-> "call", self |-> TRUE, args |-> a]
Other(a) == [op |-> "call", self |-> FALSE, args |-> a]
RetCall == [op |-> "ret", what |-> "result"]
RetParam == [op |-> "ret", what |-> "parameter"]
UseParams == [op |-> "use"]
EndScope == [op |-> "endscope"]
EndFunction == [op |-> "fend"]

(* A function returns a value at every end or at none.                     *)
Returning(a) == {<<Self(a), RetCall>>,
                 <<Self(a), UseParams, RetParam>>,
                 <<UseParams, Self(a), RetCall, EndScope>>,
                 <<Other(a), RetCall, EndFunction>>}
Falling(a) == {<<UseParams, Self(a), EndScope, EndFunction>>,
               <<Self(a), UseParams, EndFunction>>,
               <<Other(a), EndFunction>>}

Functions(end, Bodies(_), A) ==
    LET B == UNION {Bodies(a) : a \in A}
        last == <<UseParams, end>>
    IN  {<<last, b>> : b \in B} \union {<<last, b, c>> : b \in B, c \in Bodies(Counting)}
AllFunctions(A) == Functions(RetParam, Returning, A) \union Functions(EndFunction, Falling, A)

SafeFunctions == {f \in AllFunctions(Args) : Safe(f)}

(* bar(a, b) { ... return bar(b, a); }                                     *)
SwapFunctions == AllFunctions({Swap})
-----------------------------------------------------------------------------
(* The graphs given to LoopTree.                                           *)

(* All blocks reachable, numbered in the order of a first mention.         *)
Numbered(g) == \A b \in DOMAIN g \ {1} :
    \E p \in 1 .. b - 1 : /\ b \in g[p]
                          /\ \A q \in 1 .. p - 1 : g[q] \subseteq 1 .. b

(* The flow graphs of n blocks with at most two successors, and those      *)
(* whose last block is an endless loop behind a return, which no path      *)
(* leads to.                                                               *)
LoopGraphs(n) ==
    {g \in [1 .. n -> {S \in SUBSET (2 .. n) : Cardinality(S) =< 2}] : Numbered(g)}
DeadLoops(n) == {Append(g, {n}) : g \in LoopGraphs(n - 1)}
TreeGraphs ==
    IF "loops" \in Passes THEN {g \in LoopGraphs(N) \union DeadLoops(N) : Alive(g)} ELSE {}
-----------------------------------------------------------------------------
(* The graphs given to Dominance: no jump leads to the first block, which  *)
(* holds the function header and which alone may have more than the two    *)
(* successors of a branch.  HIR_CFG_finalize_before_dom has cut the        *)
(* orphans off, the last block among them.                                 *)
BranchGraphs(n) ==
    {g \in [1 .. n -> SUBSET (2 .. n)] : \A b \in 2 .. n : Cardinality(g[b]) =< 2}
DomGraphs ==
    IF "dominance" \in Passes
    THEN {g \in {Append(h, {}) : h \in BranchGraphs(N - 1)} : OrphansIsolated(g)}
    ELSE {}
-----------------------------------------------------------------------------
(* The programs given to FunctionConstants.  Function 1 is the entry: it   *)
(* has no parameter and is called by nobody.                               *)
Callable == 2 .. NF
Subject(kind, of, n) == [kind |-> kind, of |-> of, n |-> n]
Constants == {Subject("const", 0, v) : v \in Value}
Nothing == Subject("input", 0, 0)

(* What function c can pass.                                               *)
Passable(c) ==
    Constants \union {Nothing}
    \union {Subject("param", c, p) : p \in IF c = 1 THEN {} ELSE 1 .. FoldParams}
    \union {Subject("result", g, c) : g \in Callable \ {c}}
SitesOf(c) ==
    [caller : {c}, callee : Callable, args : [1 .. FoldParams -> Passable(c)], direct : {TRUE}]

(* Up to MaxSites calls by name, one of them in the entry.  Where there    *)
(* are three, every function is called and returns something it knows.     *)
SomeSites ==
    LET all == UNION {SitesOf(c) : c \in 1 .. NF}
    IN  {{s} \union {f[i] : i \in DOMAIN f} : s \in SitesOf(1), f \in [2 .. MaxSites -> all]}
Chosen(ss, r) ==
    \/ Cardinality(ss) < 3
    \/ {s.callee : s \in ss} = Callable /\ \A g \in Callable : r[g] # Nothing

Returns(g) ==
    IF g = 1 THEN {Nothing}
    ELSE {Subject("const", 0, 2), Nothing, Subject("param", g, 1)}
         \union {Subject("result", h, g) : h \in Callable \ {g}}
Results == {r \in [1 .. NF -> UNION {Returns(g) : g \in 1 .. NF}] :
               \A g \in 1 .. NF : r[g] \in Returns(g)}

DirectPrograms ==
    {[loads |-> [g \in 1 .. NF |-> IF g = 1 THEN {} ELSE 1 .. FoldParams],
      sites |-> x[1], ret |-> x[2]] :
        x \in {x \in SomeSites \X Results : Chosen(x[1], x[2])}}
-----------------------------------------------------------------------------
AllInit ==
    /\ pass \in Passes
    /\ \/ pass = "tre" /\ TreInit /\ FoldIdle /\ LoopIdle /\ DomIdle
       \/ pass = "dominance" /\ DomInit /\ TreIdle /\ FoldIdle /\ LoopIdle
       \/ pass = "loops" /\ TreeInit /\ TreIdle /\ FoldIdle /\ DomIdle
       \/ pass = "fold" /\ Init /\ TreIdle /\ LoopIdle /\ DomIdle

FoldPass == pass = "fold" /\ Next /\ UNCHANGED <<pass, treVars, treeVars, domVars>>
DomPass == pass = "dominance" /\ DomNext /\ UNCHANGED <<pass, vars, treVars, treeVars>>
AllNext ==
    \/ pass = "tre" /\ TreNext /\ UNCHANGED <<pass, vars, treeVars, domVars>>
    \/ DomPass
    \/ pass = "loops" /\ TreeNext /\ UNCHANGED <<pass, treVars, vars, domVars>>
    \/ FoldPass

allVars == <<pass, vars, treVars, treeVars, domVars>>
AllSpec == AllInit /\ [][AllNext]_allVars
AllFairSpec == AllSpec /\ WF_allVars(FoldPass \/ DomPass)
-----------------------------------------------------------------------------
(* Of the constants (funcfold.c, builder.c) FoldedIsWhatEveryCallPasses    *)
(* and Terminates of FunctionConstants are checked, of tail recursion      *)
(* (tre.c) SameBehaviour and StackStaysFlat of TailRecursion, of the loops *)
(* (ltree.c, licm.c) LoopsSound of LoopTree, of the dominance data (dom.c) *)
(* all that Dominance states.                                              *)
=============================================================================
