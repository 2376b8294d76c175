--------------------------- MODULE SsaConstruction ---------------------------
(***************************************************************************)
(* HIR_SSA_insert_phi and HIR_SSA_rename (src/hir/ssa) on one function and *)
(* one variable.  The two passes treat the variables of vartb              *)
(* independently: the traversal does not look at them.                     *)
(*                                                                         *)
(* A block's code is a sequence of uses and definitions of the variable,   *)
(* each with the version it names; version 0 is the base variable.  After  *)
(* the rename the function runs: a definition makes a new value, `actual`  *)
(* is the value of the source variable, `env` the values of the versions,  *)
(* which preambles copy at the end of a block, as the LIR will.            *)
(*                                                                         *)
(* Definitions named ...<something> in front of another with the same      *)
(* parameters are the faulty variants named in PROJECT.json.               *)
(***************************************************************************)
EXTENDS FlowGraph, Sequences, FiniteSets

CONSTANT SsaPrograms    \* [l, jmp, code]: 0 for a null successor

VARIABLES
    func,       \* the function, fixed
    succs,      \* bb->succ
    domf,       \* bb->domf
    ssaPhase,   \* "insert", "rename", "run"
    defs,       \* HIR_SSA_insert_phi: the defining blocks found so far
    phi,        \* the blocks with a phi function
    code,       \* the blocks' code, renamed in place
    sarg,       \* the version a phi function defines, or 0
    preamble,   \* the copies before the end of a block, <<to, from>>
    visitors,   \* bb->visitors
    vers,       \* ctx->vers: the current version
    lastId,     \* the last version VRTB_add_copy made
    stack,      \* the activations of _iterate_block, innermost last
    current,    \* the block that runs
    env, actual,
    stale       \* a use has read another value than the variable's

funcVars == <<func, succs, domf>>
ssaPassVars == <<defs, phi, code, sarg, preamble, visitors, vers, lastId, stack>>
ssaRunVars == <<current, env, actual, stale>>
ssaVars == <<funcVars, ssaPhase, ssaPassVars, ssaRunVars>>

Base == 0
SsaValue == 0 .. 2  \* every definition makes the next one, modulo three

SuccOf(p) == [b \in Block |-> {p.l[b], p.jmp[b]} \ {NULL}]

(* _collect_defs_by_id                                                     *)
Defines(b) == \E i \in DOMAIN func.code[b] : func.code[b][i] = "def"

SsaInit ==
    /\ func \in SsaPrograms
    /\ succs = SuccOf(func)
    /\ domf = [b \in Block |-> Frontier(succs, b)]
    /\ ssaPhase = "insert"
    /\ defs = {b \in Block : Defines(b)}
    /\ phi = {}
    /\ code = [b \in Block |-> [i \in DOMAIN func.code[b] |->
                                   [op |-> func.code[b][i], ver |-> Base]]]
    /\ sarg = [b \in Block |-> NULL]
    /\ preamble = [b \in Block |-> <<>>]
    /\ visitors = [b \in Block |-> {}]
    /\ vers = Base /\ lastId = Base
    /\ stack = <<>>
    /\ current = Entry /\ env = <<>> /\ actual = 0 /\ stale = FALSE

---------------------------------------------------------------------------
(* One round of the do loop.  domf holds the frontiers that Dominance shows *)
(* HIR_CFG_compute_domf to compute.                                        *)
JoinsOfDefiners == (UNION {domf[d] : d \in {b \in defs : Defines(b)}}) \ phi
Joins == (UNION {domf[d] : d \in defs}) \ phi
Pending == Joins \ defs

(* The arms in the order of the recursive calls.                           *)
Arms(b) == IF func.l[b] # NULL /\ func.jmp[b] # NULL /\ func.l[b] # func.jmp[b]
           THEN <<func.jmp[b], func.l[b]>>
           ELSE IF func.jmp[b] # NULL THEN <<func.jmp[b]>>
           ELSE IF func.l[b] # NULL THEN <<func.l[b]>> ELSE <<>>

InsertPhi ==
    /\ ssaPhase = "insert"
    /\ phi' = phi \union Joins
    /\ defs' = defs \union Pending
    /\ ssaPhase' = IF Pending = {} THEN "visit entry" ELSE ssaPhase
    /\ UNCHANGED <<funcVars, code, sarg, preamble, visitors, vers, lastId, stack, ssaRunVars>>

---------------------------------------------------------------------------
(* The phi function of block b, reached from block p with version v: what  *)
(* it defines, if it takes part at all.                                    *)
PhiTakesPart(b, v) == b \in phi /\ v # Base /\ v # sarg[b]
PhiId(b, v) == IF sarg[b] # NULL THEN sarg[b] ELSE lastId + 1

(* The rest of the block: a use or a definition of the base variable takes *)
(* or makes a version, those renamed on an earlier visit stay.             *)
VersionAfter(ops, n, v, id) ==
    LET fresh == {i \in 1 .. n : ops[i].op = "def" /\ ops[i].ver = Base}
    IN  IF fresh = {} THEN v ELSE id + Cardinality(fresh)
Renamed(ops, v, id) ==
    [i \in DOMAIN ops |->
        IF ops[i].ver # Base THEN ops[i]
        ELSE [ops[i] EXCEPT !.ver =
                 VersionAfter(ops, IF ops[i].op = "def" THEN i ELSE i - 1, v, id)]]

(* _iterate_block up to the recursive calls.                               *)
Visit(b, p, v) ==
    LET joins == PhiTakesPart(b, v)
        in == IF joins THEN PhiId(b, v) ELSE v
        id == IF joins /\ sarg[b] = NULL THEN lastId + 1 ELSE lastId
        out == VersionAfter(code[b], Len(code[b]), in, id)
    IN  /\ sarg' = IF joins THEN [sarg EXCEPT ![b] = in] ELSE sarg
        /\ preamble' = IF joins /\ p # NULL
                       THEN [preamble EXCEPT ![p] = Append(@, <<in, v>>)] ELSE preamble
        /\ code' = [code EXCEPT ![b] = Renamed(code[b], in, id)]
        /\ vers' = out
        /\ lastId' = id + Cardinality({i \in DOMAIN code[b] :
                             code[b][i].op = "def" /\ code[b][i].ver = Base})
        /\ visitors' = [visitors EXCEPT ![b] = @ \union {p}]

Activation(b, v) == [block |-> b, todo |-> Arms(b), saved |-> v]
Top == stack[Len(stack)]
Below == SubSeq(stack, 1, Len(stack) - 1)
OneArmLess == [Top EXCEPT !.todo = Tail(@)]

VisitEntry ==
    /\ ssaPhase = "visit entry"
    /\ Visit(Entry, NULL, vers)
    /\ stack' = <<Activation(Entry, vers')>>
    /\ ssaPhase' = "rename"
    /\ UNCHANGED <<funcVars, defs, phi, ssaRunVars>>

(* The versions an arm starts from: the first arm goes on with ctx->vers,  *)
(* the others with what was saved before it.                               *)
ArmVersionUnsaved == vers
ArmVersion == IF Len(Top.todo) < Len(Arms(Top.block)) THEN Top.saved ELSE vers

Descend ==
    /\ ssaPhase = "rename" /\ stack # <<>> /\ Top.todo # <<>>
    /\ Top.block \notin visitors[Head(Top.todo)]
    /\ Visit(Head(Top.todo), Top.block, ArmVersion)
    /\ stack' = Append(Append(Below, OneArmLess), Activation(Head(Top.todo), vers'))
    /\ UNCHANGED <<funcVars, ssaPhase, defs, phi, ssaRunVars>>

(* The arm has been visited from this block before.                        *)
Skip ==
    /\ ssaPhase = "rename" /\ stack # <<>> /\ Top.todo # <<>>
    /\ Top.block \in visitors[Head(Top.todo)]
    /\ vers' = ArmVersion
    /\ stack' = Append(Below, OneArmLess)
    /\ UNCHANGED <<funcVars, ssaPhase, defs, phi, code, sarg, preamble, visitors, lastId,
                   ssaRunVars>>

LeaveBlock ==
    /\ ssaPhase = "rename" /\ stack # <<>> /\ Top.todo = <<>>
    /\ stack' = Below
    /\ IF Below = <<>> THEN /\ ssaPhase' = "run"
                            /\ env' = [v \in 0 .. lastId |-> 0]
                       ELSE UNCHANGED <<ssaPhase, env>>
    /\ UNCHANGED <<funcVars, defs, phi, code, sarg, preamble, visitors, vers, lastId,
                   current, actual, stale>>

---------------------------------------------------------------------------
(* The meaning of the result: run block `at`, its preambles, and go on.    *)
ActualAfter(b, n) ==
    (actual + Cardinality({i \in 1 .. n : code[b][i].op = "def"})) % 3
EnvAfter(b, n) ==
    [v \in DOMAIN env |->
        LET own == {i \in 1 .. n : code[b][i] = [op |-> "def", ver |-> v]}
        IN  IF own = {} THEN env[v]
            ELSE ActualAfter(b, CHOOSE i \in own : \A j \in own : j =< i)]
StaleIn(b) == \E i \in DOMAIN code[b] :
    /\ code[b][i].op = "use"
    /\ EnvAfter(b, i - 1)[code[b][i].ver] # ActualAfter(b, i - 1)
Copied(e, moves) ==
    LET f[i \in 0 .. Len(moves)] ==
            IF i = 0 THEN e
            ELSE [f[i - 1] EXCEPT ![moves[i][1]] = f[i - 1][moves[i][2]]]
    IN  f[Len(moves)]

RunSsaBlock ==
    /\ ssaPhase = "run"
    /\ stale' = (stale \/ StaleIn(current))
    /\ actual' = ActualAfter(current, Len(code[current]))
    /\ env' = Copied(EnvAfter(current, Len(code[current])), preamble[current])
    /\ current' \in succs[current]
    /\ UNCHANGED <<funcVars, ssaPhase, ssaPassVars>>

RunSsaLast ==
    /\ ssaPhase = "run" /\ succs[current] = {}
    /\ stale' = (stale \/ StaleIn(current))
    /\ ssaPhase' = "returned"
    /\ UNCHANGED <<funcVars, ssaPassVars, current, env, actual>>

SsaNext == InsertPhi \/ VisitEntry \/ Descend \/ Skip \/ LeaveBlock \/ RunSsaBlock \/ RunSsaLast

SsaSpec == SsaInit /\ [][SsaNext]_ssaVars
---------------------------------------------------------------------------
(* What the passes may be given: the entry is no successor and defines the *)
(* variable first, and the jmp arm of a branch never leads back to a       *)
(* branch that defines it.                                                 *)
Leads(p, a, b) ==
    \A S \in SUBSET Block : (a \in S /\ \A x \in S : SuccOf(p)[x] \subseteq S) => b \in S
TwoArms(p, b) == p.l[b] # NULL /\ p.jmp[b] # NULL /\ p.l[b] # p.jmp[b]
Plain(p) ==
    \A b \in Block : (TwoArms(p, b) /\ \E i \in DOMAIN p.code[b] : p.code[b][i] = "def")
                         => ~Leads(p, p.jmp[b], b)
Given(p) ==
    /\ p \in [l : [Block -> Block \union {NULL}], jmp : [Block -> Block \union {NULL}],
              code : [Block -> Seq({"use", "def"})]]
    /\ \A b \in Block : Entry \notin SuccOf(p)[b]
    /\ p.code[Entry] # <<>> /\ p.code[Entry][1] = "def"
    /\ Plain(p)
---------------------------------------------------------------------------
(* Every version is one that was made, and the copies of a block go to     *)
(* versions of phi functions of its successors.                            *)
SsaTypeOK ==
    /\ lastId \in Nat /\ vers \in 0 .. lastId
    /\ \A b \in Block :
        /\ \A i \in DOMAIN code[b] : code[b][i].ver \in 0 .. lastId
        /\ \A i \in DOMAIN preamble[b] :
               preamble[b][i][1] \in {sarg[s] : s \in succs[b]} \ {NULL}
    /\ \A k \in DOMAIN stack : /\ stack[k].saved \in 0 .. lastId
                              /\ \A j \in DOMAIN stack[k].todo :
                                     stack[k].todo[j] \in succs[stack[k].block]

(* The phi functions stand exactly on the iterated dominance frontier of   *)
(* the definitions: the least set that holds their frontiers and its own.  *)
Iterated(S) ==
    /\ \A b \in Block : Defines(b) => domf[b] \subseteq S
    /\ \A b \in S : domf[b] \subseteq S
PhisExact ==
    ssaPhase = "visit entry" =>
        /\ Iterated(phi)
        /\ \A S \in SUBSET phi : Iterated(S) => S = phi

(* SSA preserves the program: on every path through the renamed function,  *)
(* every use reads, through phi copies, the value the last definition of   *)
(* the variable on that path made.                                         *)
UsesSeeLastDefinition == ~stale
=============================================================================
