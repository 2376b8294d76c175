--------------------------- MODULE PhiMovesProofs ---------------------------
(***************************************************************************)
(* The order LIR_RA_sort_phi_movs emits, for groups of every length over   *)
(* every set of registers: no move overwrites a register that a later one  *)
(* reads, a group that nothing blocks in its own order is left alone, and  *)
(* a group without a circle, made move by move in the order emitted, has   *)
(* the effect of making all its moves at once.                             *)
(***************************************************************************)
EXTENDS PhiMoves, SequenceTheorems, FiniteSetTheorems, NaturalsInduction,
        WellFoundedInduction, TLAPS

(* The state is well formed: the indices taken are indices of the group.   *)
THEOREM TypeCorrect == Spec => []TypeOK
<1>1. Init => TypeOK
  BY GroupsAssumption DEF Init, TypeOK
<1>2. TypeOK /\ [Next]_vars => TypeOK'
  <2> SUFFICES ASSUME TypeOK, [Next]_vars PROVE TypeOK'
    OBVIOUS
  <2>1. CASE Take
    BY <2>1 DEF Take, TypeOK
  <2>2. CASE GiveUp
    BY <2>2 DEF GiveUp, TypeOK
  <2>3. CASE Finish
    BY <2>3 DEF Finish, TypeOK
  <2>4. CASE UNCHANGED vars
    BY <2>4 DEF vars, TypeOK
  <2> QED BY <2>1, <2>2, <2>3, <2>4 DEF Next
<1> QED BY <1>1, <1>2, PTL DEF Spec

(* A move is emitted once.                                                 *)
Once == \A p, q \in DOMAIN taken : taken[p] = taken[q] => p = q

(* ReadsComeFirst, for the moves that are still to come as well: this is   *)
(* what a further round of the loop needs to keep it.                      *)
PendingReadsAreSafe ==
    \A p \in DOMAIN taken : \A j \in Pending :
        Dst(taken[p]) # Src(j) \/ Dst(taken[p]) = Src(taken[p])

OrderInv == Once /\ ReadsComeFirst /\ PendingReadsAreSafe

(* What one round appends, position by position.                           *)
LEMMA TakeAppends ==
    ASSUME TypeOK, Take
    PROVE  \E i \in Pending :
              /\ Ready(i)
              /\ group' = group
              /\ DOMAIN taken' = DOMAIN taken \union {Len(taken) + 1}
              /\ Len(taken) + 1 \notin DOMAIN taken
              /\ taken'[Len(taken) + 1] = i
              /\ \A p \in DOMAIN taken : taken'[p] = taken[p]
              /\ Pending' = Pending \ {i}
<1>1. PICK i \in DOMAIN group : Ready(i) /\ taken' = Append(taken, i)
  BY DEF Take
<1>2. i \in Pending /\ group' = group
  BY <1>1 DEF Ready, Take
<1>3. taken \in Seq(DOMAIN group) /\ Len(taken) \in Nat /\ DOMAIN taken = 1..Len(taken)
  BY DEF TypeOK
<1>4. Len(taken') = Len(taken) + 1 /\ DOMAIN taken' = 1..(Len(taken) + 1)
  BY <1>1, <1>3
<1>5. /\ taken'[Len(taken) + 1] = i
      /\ \A p \in DOMAIN taken : taken'[p] = taken[p]
  BY <1>1, <1>3
<1>6. /\ DOMAIN taken' = DOMAIN taken \union {Len(taken) + 1}
      /\ Len(taken) + 1 \notin DOMAIN taken
  BY <1>3, <1>4
<1>7. Range(taken)' = Range(taken) \union {i}
  BY <1>5, <1>6 DEF Range
<1> QED
  BY <1>1, <1>2, <1>5, <1>6, <1>7 DEF Pending, Done

(* The invariant of the order holds in every reachable state.              *)
LEMMA OrderInvariant == Spec => []OrderInv
<1>1. Init => OrderInv
  BY DEF Init, OrderInv, Once, ReadsComeFirst, PendingReadsAreSafe
<1>2. TypeOK /\ OrderInv /\ [Next]_vars => OrderInv'
  <2> SUFFICES ASSUME TypeOK, OrderInv, [Next]_vars PROVE OrderInv'
    OBVIOUS
  <2>0. /\ Once /\ ReadsComeFirst /\ PendingReadsAreSafe
        /\ taken \in Seq(DOMAIN group)
    BY DEF OrderInv, TypeOK
  <2>1. CASE Take
    <3> DEFINE n == Len(taken) + 1
    <3>1. PICK i \in Pending :
              /\ Ready(i)
              /\ group' = group
              /\ DOMAIN taken' = DOMAIN taken \union {n}
              /\ n \notin DOMAIN taken
              /\ taken'[n] = i
              /\ \A p \in DOMAIN taken : taken'[p] = taken[p]
              /\ Pending' = Pending \ {i}
      BY <2>1, TakeAppends
    <3>2. \A p \in DOMAIN taken : p < n /\ p \in Nat
      BY <2>0
    <3>3. \A p \in DOMAIN taken : taken[p] # i
      BY <3>1 DEF Pending, Done, Range
    <3>4. \A j : Dst(j)' = Dst(j) /\ Src(j)' = Src(j)
      BY <3>1 DEF Dst, Src
    <3>5. \A j \in Pending \ {i} : Dst(i) # Src(j) \/ Dst(i) = Src(i)
      BY <3>1 DEF Ready, DstUsedAsSrc
    <3>6. n \in Nat
      BY <2>0
    <3> HIDE DEF n
    <3>7. Once'
      BY <2>0, <3>1, <3>3 DEF Once
    <3>8. ReadsComeFirst'
      <4> SUFFICES ASSUME NEW p \in DOMAIN taken', NEW q \in DOMAIN taken', p < q
                   PROVE  Dst(taken'[p]) # Src(taken'[q]) \/ Dst(taken'[p]) = Src(taken'[p])
        BY <3>4 DEF ReadsComeFirst
      <4>1. p # n
        BY <3>1, <3>2, <3>6
      <4>2. CASE q = n
        BY <2>0, <3>1, <4>1, <4>2 DEF PendingReadsAreSafe
      <4>3. CASE q # n
        BY <2>0, <3>1, <4>1, <4>3 DEF ReadsComeFirst
      <4> QED BY <4>2, <4>3
    <3>9. PendingReadsAreSafe'
      <4> SUFFICES ASSUME NEW p \in DOMAIN taken', NEW j \in Pending \ {i}
                   PROVE  Dst(taken'[p]) # Src(j) \/ Dst(taken'[p]) = Src(taken'[p])
        BY <3>1, <3>4 DEF PendingReadsAreSafe
      <4>1. CASE p = n
        BY <3>1, <3>5, <4>1
      <4>2. CASE p # n
        BY <2>0, <3>1, <4>2 DEF PendingReadsAreSafe
      <4> QED BY <4>1, <4>2
    <3> QED BY <3>7, <3>8, <3>9 DEF OrderInv
  <2>2. CASE UNCHANGED <<group, taken>>
    BY <2>0, <2>2 DEF OrderInv, Once, ReadsComeFirst, PendingReadsAreSafe, Pending, Done, Dst, Src
  <2> QED
    BY <2>1, <2>2 DEF Next, GiveUp, Finish, vars
<1> QED
  BY <1>1, <1>2, TypeCorrect, PTL DEF Spec

(* No move is emitted before the reads of the register it overwrites.      *)
THEOREM NeverReadAfterOverwrite == Spec => []ReadsComeFirst
<1>1. OrderInv => ReadsComeFirst
  BY DEF OrderInv
<1> QED
  BY <1>1, OrderInvariant, PTL

(* As long as the group is in order, the moves are taken one by one as     *)
(* they stand.                                                             *)
TakenInTurn == InOrder => status # "stuck" /\ \A p \in DOMAIN taken : taken[p] = p

(* Moves are taken in turn in every reachable state.                       *)
LEMMA TurnInvariant == Spec => []TakenInTurn
<1>1. Init => TakenInTurn
  BY DEF Init, TakenInTurn
<1>2. TypeOK /\ TakenInTurn /\ [Next]_vars => TakenInTurn'
  <2> SUFFICES ASSUME TypeOK, TakenInTurn, [Next]_vars, InOrder'
               PROVE  status' # "stuck" /\ \A p \in DOMAIN taken' : taken'[p] = p
    BY DEF TakenInTurn
  <2>0. group' = group /\ InOrder
    BY DEF Next, vars, Take, GiveUp, Finish, InOrder, Dst, Src
  <2>1. /\ taken \in Seq(DOMAIN group) /\ group \in Seq(Move)
        /\ Len(taken) \in Nat /\ Len(group) \in Nat
        /\ DOMAIN taken = 1..Len(taken) /\ DOMAIN group = 1..Len(group)
        /\ \A p \in DOMAIN taken : taken[p] = p
        /\ status # "stuck"
    BY <2>0 DEF TypeOK, TakenInTurn
  <2>2. Done = 1..Len(taken)
    BY <2>1 DEF Done, Range
  <2>3. ASSUME Len(taken) < Len(group)
        PROVE  /\ Len(taken) + 1 \in DOMAIN group
               /\ Ready(Len(taken) + 1)
               /\ \A i \in 1..Len(taken) : ~Ready(i)
    <3>1. Len(taken) + 1 \in Pending
      BY <2>1, <2>2, <2>3 DEF Pending
    <3>2. \A j \in Pending \ {Len(taken) + 1} : Len(taken) + 1 < j
      BY <2>1, <2>2 DEF Pending
    <3>3. ~DstUsedAsSrc(Len(taken) + 1)
      BY <2>0, <3>1, <3>2 DEF DstUsedAsSrc, InOrder, Pending
    <3> QED BY <2>2, <3>1, <3>3 DEF Ready, Pending
  <2>4. CASE Take
    <3>1. PICK i \in DOMAIN group :
            Ready(i) /\ (\A j \in 1..(i - 1) : ~Ready(j)) /\ taken' = Append(taken, i)
      BY <2>4 DEF Take
    <3>2. Len(taken) < Len(group)
      BY <2>4 DEF Take
    <3>3. i = Len(taken) + 1
      <4>1. ~(i < Len(taken) + 1)
        BY <2>1, <2>3, <3>1, <3>2
      <4>2. ~(Len(taken) + 1 < i)
        BY <2>1, <2>3, <3>1, <3>2
      <4> QED BY <2>1, <4>1, <4>2
    <3> QED BY <2>1, <2>4, <3>1, <3>3 DEF Take
  <2>5. CASE GiveUp
    BY <2>3, <2>5 DEF GiveUp
  <2>6. CASE Finish
    BY <2>1, <2>6 DEF Finish
  <2>7. CASE UNCHANGED vars
    BY <2>1, <2>7 DEF vars
  <2> QED BY <2>4, <2>5, <2>6, <2>7 DEF Next
<1> QED BY <1>1, <1>2, TypeCorrect, PTL DEF Spec

(* A group in order is left alone: on the moves of variables that all have *)
(* registers the pass is the identity, as the allocator needs it to be.    *)
THEOREM LeavesOrderedGroups == Spec => []OrderedIsLeftAlone
<1>1. TypeOK /\ TakenInTurn => OrderedIsLeftAlone
  <2> SUFFICES ASSUME TypeOK, TakenInTurn, InOrder
               PROVE  Nodes = group /\ status # "stuck"
    BY DEF OrderedIsLeftAlone
  <2>1. \A p \in DOMAIN group : p <= Len(taken) => p \in DOMAIN taken /\ taken[p] = p
    BY DEF TypeOK, TakenInTurn
  <2>2. \A p \in DOMAIN group : Nodes[p] = group[p]
    BY <2>1 DEF Nodes
  <2>3. group \in Seq(Move)
    BY DEF TypeOK
  <2>4. Nodes = group
    BY <2>2, <2>3 DEF Nodes
  <2> QED BY <2>4 DEF TakenInTurn
<1> QED BY <1>1, TypeCorrect, TurnInvariant, PTL
-----------------------------------------------------------------------------
(* What executing moves one after the other does.                          *)

(* Induction along an interval, for a set: a set has a least number that   *)
(* is missing from it.                                                     *)
LEMMA IntervalInduction ==
    ASSUME NEW n \in Nat, NEW S \in SUBSET (0..n), 0 \in S,
           \A p \in 0..n : p \in S /\ p < n => p + 1 \in S
    PROVE  S = 0..n
<1> SUFFICES ASSUME S # 0..n PROVE FALSE
  OBVIOUS
<1> DEFINE R == {p \in Nat \X Nat : p[1] < p[2]}
           T == (0..n) \ S
<1>1. IsWellFoundedOn(R, Nat)
  BY NatLessThanWellFounded DEF OpToRel
<1>2. T \subseteq Nat /\ T # {}
  <2>1. PICK x \in 0..n : x \notin S
    OBVIOUS
  <2> QED BY <2>1
<1>3. PICK m \in T : \A y \in T : ~(<<y, m>> \in R)
  BY <1>1, <1>2, WFMin
<1>4. m \in 1..n /\ m - 1 \in 0..n /\ m - 1 < n /\ (m - 1) + 1 = m /\ m \notin S
  OBVIOUS
<1>5. <<m - 1, m>> \in R
  BY <1>4
<1> HIDE DEF R
<1>6. m - 1 \in S
  BY <1>3, <1>4, <1>5
<1> QED
  BY <1>4, <1>6

Identity == [x \in Subject |-> x]
Moved(c, m) == [c EXCEPT ![m.dst] = c[m.src]]

(* Contents is the last of a sequence of contents, each the one before     *)
(* with one move made.                                                     *)
LEMMA ContentsStepByStep ==
    ASSUME NEW s \in Seq(Move)
    PROVE  \E c : /\ c[0] = Identity
                  /\ \A p \in 1..Len(s) : c[p] = Moved(c[p - 1], s[p])
                  /\ Contents(s) = c[Len(s)]
<1> DEFINE n == Len(s)
           Steps(f, k) == /\ f[0] = Identity
                          /\ \A p \in 1..k : f[p] = Moved(f[p - 1], s[p])
           S == {k \in 0..n : \E f : Steps(f, k)}
<1>0. n \in Nat
  OBVIOUS
<1> HIDE DEF n
<1>1. 0 \in S
  <2>1. Steps([p \in {0} |-> Identity], 0)
    OBVIOUS
  <2> HIDE DEF Steps
  <2> QED BY <1>0, <2>1
<1>2. ASSUME NEW k \in 0..n, k \in S, k < n
      PROVE  k + 1 \in S
  <2>1. PICK f : Steps(f, k)
    BY <1>2
  <2> DEFINE g == [p \in 0..(k + 1) |-> IF p = k + 1 THEN Moved(f[k], s[k + 1]) ELSE f[p]]
  <2>2. /\ g[k + 1] = Moved(f[k], s[k + 1])
        /\ \A p \in 0..k : g[p] = f[p]
    BY <1>0, <1>2
  <2> HIDE DEF g
  <2>3. g[0] = Identity
    BY <1>0, <1>2, <2>1, <2>2
  <2>4. ASSUME NEW p \in 1..(k + 1) PROVE g[p] = Moved(g[p - 1], s[p])
    <3>1. p - 1 \in 0..k
      BY <1>0, <1>2
    <3>2. CASE p = k + 1
      BY <1>0, <1>2, <2>2, <3>1, <3>2
    <3>3. CASE p # k + 1
      <4>1. p \in 1..k /\ p \in 0..k
        BY <1>0, <1>2, <3>3
      <4> QED BY <2>1, <2>2, <3>1, <4>1
    <3> QED BY <3>2, <3>3
  <2>5. Steps(g, k + 1)
    BY <2>3, <2>4
  <2>6. k + 1 \in 0..n
    BY <1>0, <1>2
  <2> QED BY <2>5, <2>6
<1>3. S = 0..n
  <2>1. S \in SUBSET (0..n)
    OBVIOUS
  <2> HIDE DEF S
  <2> QED BY <1>0, <1>1, <1>2, <2>1, IntervalInduction
<1>4. PICK f : Steps(f, n)
  <2> HIDE DEF Steps
  <2>1. n \in 0..n
    BY <1>0
  <2>2. n \in S
    BY <1>3, <2>1
  <2> QED BY <2>2
<1> DEFINE Whole(g) == [p \in 0..n |-> IF p = 0 THEN Identity ELSE Moved(g[p - 1], s[p])]
           c == CHOOSE g : g = Whole(g)
<1>5. c = Whole(c)
  <2> DEFINE g == [p \in 0..n |-> f[p]]
  <2>1. \A p \in 0..n : g[p] = IF p = 0 THEN Identity ELSE Moved(g[p - 1], s[p])
    <3> SUFFICES ASSUME NEW p \in 0..n
                 PROVE  g[p] = IF p = 0 THEN Identity ELSE Moved(g[p - 1], s[p])
      OBVIOUS
    <3>1. CASE p = 0
      BY <1>4, <3>1
    <3>2. CASE p # 0
      <4>1. p \in 1..n /\ p - 1 \in 0..n
        BY <1>0, <3>2
      <4> QED BY <1>4, <3>2, <4>1
    <3> QED BY <3>1, <3>2
  <2>2. g = Whole(g)
    BY <2>1
  <2> HIDE DEF g, Whole
  <2> QED BY <2>2
<1>6. Contents(s) = c[n]
  BY DEF Contents, Identity, Moved, n
<1> HIDE DEF c
<1>7. c[0] = Identity /\ \A p \in 1..n : c[p] = Moved(c[p - 1], s[p])
  <2>1. c[0] = Identity
    BY <1>0, <1>5
  <2>2. ASSUME NEW p \in 1..n PROVE c[p] = Moved(c[p - 1], s[p])
    <3>1. p \in 0..n /\ p # 0
      BY <1>0
    <3> QED BY <1>5, <3>1
  <2> QED BY <2>1, <2>2
<1> QED
  BY <1>6, <1>7 DEF n

(* The destinations of a group differ, as the phi functions of one block   *)
(* are of different variables.                                             *)
DistinctTargets(s) == \A i, j \in DOMAIN s : s[i].dst = s[j].dst => i = j

(* Moves none of which reads what an earlier one has written, but for a    *)
(* move of a place to itself, do in sequence what they do at once.         *)
LEMMA OrderedMovesHappenAtOnce ==
    ASSUME NEW s \in Seq(Move), DistinctTargets(s),
           \A p, q \in DOMAIN s : p < q => s[p].dst # s[q].src \/ s[p].dst = s[p].src
    PROVE  /\ Contents(s) \in [Subject -> Subject]
           /\ \A p \in DOMAIN s : Contents(s)[s[p].dst] = s[p].src
           /\ \A x \in Subject : (\A p \in DOMAIN s : s[p].dst # x) => Contents(s)[x] = x
<1> DEFINE n == Len(s)
           Right(f, k) ==
               /\ f \in [Subject -> Subject]
               /\ \A q \in 1..k : f[s[q].dst] = s[q].src
               /\ \A x \in Subject : (\A q \in 1..k : s[q].dst # x) => f[x] = x
<1>0. /\ n \in Nat /\ DOMAIN s = 1..n
      /\ \A p \in 1..n : s[p].dst \in Subject /\ s[p].src \in Subject
  <2>1. n \in Nat /\ DOMAIN s = 1..n /\ \A p \in 1..n : s[p] \in Move
    OBVIOUS
  <2>2. \A m \in Move : m.dst \in Subject /\ m.src \in Subject
    BY DEF Move, Subject
  <2> QED BY <2>1, <2>2
<1>1. PICK c : /\ c[0] = Identity
               /\ \A p \in 1..n : c[p] = Moved(c[p - 1], s[p])
               /\ Contents(s) = c[n]
  BY ContentsStepByStep
<1> HIDE DEF n
<1> DEFINE S == {k \in 0..n : Right(c[k], k)}
<1>2. 0 \in S
  <2>1. Right(c[0], 0)
    BY <1>1 DEF Identity
  <2> HIDE DEF Right
  <2> QED BY <1>0, <2>1
<1>3. ASSUME NEW k \in 0..n, k \in S, k < n
      PROVE  k + 1 \in S
  <2>1. Right(c[k], k)
    BY <1>3
  <2>2. k + 1 \in 1..n /\ (k + 1) - 1 = k /\ \A q \in 1..(k + 1) : q \in 1..k \/ q = k + 1
    BY <1>0, <1>3
  <2>3. c[k + 1] = Moved(c[k], s[k + 1])
    BY <1>1, <2>2
  <2> DEFINE d == s[k + 1].dst
             r == s[k + 1].src
             f == c[k]
             g == c[k + 1]
  <2>4. d \in Subject /\ r \in Subject
    BY <1>0, <2>2
  <2>5. f[r] = r
    <3>1. CASE \A q \in 1..k : s[q].dst # r
      BY <2>1, <2>4, <3>1
    <3>2. ASSUME NEW q \in 1..k, s[q].dst = r PROVE f[r] = r
      <4>1. q \in 1..n /\ q < k + 1
        BY <1>0, <1>3
      <4>2. s[q].src = r
        BY <1>0, <2>2, <3>2, <4>1
      <4> QED BY <2>1, <3>2, <4>2
    <3> QED BY <3>1, <3>2
  <2>6. g = [f EXCEPT ![d] = r]
    BY <2>3, <2>5 DEF Moved
  <2>7. \A q \in 1..k : s[q].dst # d /\ s[q].dst \in Subject
    <3> SUFFICES ASSUME NEW q \in 1..k PROVE s[q].dst # d /\ s[q].dst \in Subject
      OBVIOUS
    <3>1. q \in 1..n /\ q # k + 1
      BY <1>0, <1>3
    <3> QED BY <1>0, <2>2, <3>1 DEF DistinctTargets
  <2> HIDE DEF d, r
  <2>8. Right(g, k + 1)
    <3>1. g \in [Subject -> Subject]
      BY <2>1, <2>4, <2>6
    <3>2. \A q \in 1..(k + 1) : g[s[q].dst] = s[q].src
      <4> SUFFICES ASSUME NEW q \in 1..(k + 1) PROVE g[s[q].dst] = s[q].src
        OBVIOUS
      <4>1. CASE q = k + 1
        BY <2>1, <2>4, <2>6, <4>1 DEF d, r
      <4>2. CASE q \in 1..k
        BY <2>1, <2>6, <2>7, <4>2
      <4> QED BY <2>2, <4>1, <4>2
    <3>3. \A x \in Subject : (\A q \in 1..(k + 1) : s[q].dst # x) => g[x] = x
      <4> SUFFICES ASSUME NEW x \in Subject, \A q \in 1..(k + 1) : s[q].dst # x
                   PROVE  g[x] = x
        OBVIOUS
      <4>1. k + 1 \in 1..(k + 1) /\ 1..k \subseteq 1..(k + 1)
        BY <1>0, <1>3
      <4>2. x # d /\ \A q \in 1..k : s[q].dst # x
        BY <4>1 DEF d
      <4> QED BY <2>1, <2>6, <4>2
    <3> QED BY <3>1, <3>2, <3>3
  <2>9. k + 1 \in 0..n
    BY <2>2
  <2> HIDE DEF Right
  <2> QED BY <2>8, <2>9
<1>4. S = 0..n
  <2>1. S \in SUBSET (0..n)
    OBVIOUS
  <2> HIDE DEF S
  <2> QED BY <1>0, <1>2, <1>3, <2>1, IntervalInduction
<1>5. Right(c[n], n)
  <2> HIDE DEF Right
  <2>1. n \in 0..n
    BY <1>0
  <2>2. n \in S
    BY <1>4, <2>1
  <2> QED BY <2>2
<1> QED
  BY <1>0, <1>1, <1>5

(* Two such functions are the same.                                        *)
LEMMA AtOnceIs ==
    ASSUME NEW s \in Seq(Move), DistinctTargets(s), NEW f \in [Subject -> Subject],
           \A p \in DOMAIN s : f[s[p].dst] = s[p].src,
           \A x \in Subject : (\A p \in DOMAIN s : s[p].dst # x) => f[x] = x
    PROVE  f = AtOnce(s)
<1>1. ASSUME NEW x \in Subject
      PROVE  f[x] = AtOnce(s)[x]
  <2>1. CASE \E i \in DOMAIN s : s[i].dst = x
    <3> DEFINE i == CHOOSE i \in DOMAIN s : s[i].dst = x
    <3>1. i \in DOMAIN s /\ s[i].dst = x
      BY <2>1
    <3>2. AtOnce(s)[x] = s[i].src
      BY <2>1 DEF AtOnce
    <3> HIDE DEF i
    <3> QED BY <3>1, <3>2
  <2>2. CASE ~ \E i \in DOMAIN s : s[i].dst = x
    BY <2>2 DEF AtOnce
  <2> QED BY <2>1, <2>2
<1>2. DOMAIN AtOnce(s) = Subject
  BY DEF AtOnce
<1> QED
  BY <1>1, <1>2 DEF AtOnce
-----------------------------------------------------------------------------
(* The moves that are left, and what it means that none of them is ready.  *)
Blocked ==
    /\ Pending # {}
    /\ \A i \in Pending : Dst(i) # Src(i) /\ DstUsedAsSrc(i)

CountInv ==
    /\ group \in Groups
    /\ IsFiniteSet(Pending) /\ Cardinality(Pending) = Len(group) - Len(taken)
    /\ status = "sorted" => Pending = {} \/ (taken = <<>> /\ Len(group) <= 1)
    /\ status = "stuck"  => Blocked

LEMMA CountInvariant == Spec => []CountInv
<1>1. Init => CountInv
  <2> SUFFICES ASSUME Init PROVE CountInv
    OBVIOUS
  <2>1. group \in Groups /\ group \in Seq(Move) /\ taken = <<>> /\ Len(taken) = 0
    BY GroupsAssumption DEF Init
  <2>2. Len(group) \in Nat /\ DOMAIN group = 1..Len(group) /\ Pending = DOMAIN group
    <3>1. DOMAIN taken = {}
      BY <2>1
    <3>2. Done = {}
      BY <3>1 DEF Done, Range
    <3> QED BY <2>1, <3>2 DEF Pending
  <2>3. IsFiniteSet(1..Len(group)) /\ Cardinality(1..Len(group)) = Len(group)
    <3>1. 1 \in Int /\ Len(group) \in Int
      BY <2>2
    <3>2. /\ IsFiniteSet(1..Len(group))
          /\ Cardinality(1..Len(group)) = IF 1 > Len(group) THEN 0 ELSE Len(group) - 1 + 1
      BY <3>1, FS_Interval
    <3> QED BY <2>2, <3>2
  <2> QED BY <2>1, <2>2, <2>3 DEF Init, CountInv
<1>2. TypeOK /\ CountInv /\ [Next]_vars => CountInv'
  <2> SUFFICES ASSUME TypeOK, CountInv, [Next]_vars PROVE CountInv'
    OBVIOUS
  <2>0. /\ group \in Groups /\ IsFiniteSet(Pending)
        /\ Cardinality(Pending) = Len(group) - Len(taken)
        /\ Len(group) \in Nat /\ Len(taken) \in Nat
    BY DEF CountInv, TypeOK
  <2>1. CASE Take
    <3>1. PICK i \in Pending : group' = group /\ Pending' = Pending \ {i}
      BY <2>1, TakeAppends
    <3>2. IsFiniteSet(Pending \ {i}) /\ Cardinality(Pending \ {i}) = Cardinality(Pending) - 1
      BY <2>0, FS_RemoveElement
    <3>3. Len(taken') = Len(taken) + 1
      BY <2>1 DEF Take, TypeOK
    <3>4. status' = "sorting"
      BY <2>1 DEF Take
    <3>5. Cardinality(Pending)' = Cardinality(Pending \ {i})
      BY <3>1
    <3> QED BY <2>0, <3>1, <3>2, <3>3, <3>4, <3>5 DEF CountInv
  <2>2. CASE GiveUp
    <3>1. /\ Len(taken) < Len(group) /\ \A i \in DOMAIN group : ~Ready(i)
          /\ status' = "stuck" /\ UNCHANGED <<group, taken>>
      BY <2>2 DEF GiveUp
    <3>2. Pending # {}
      BY <2>0, <3>1, FS_EmptySet
    <3>3. Blocked
      BY <3>1, <3>2 DEF Blocked, Ready, Pending
    <3>4. Blocked' /\ Pending' = Pending
      BY <3>1, <3>3 DEF Blocked, Pending, Done, Dst, Src, DstUsedAsSrc
    <3> QED BY <2>0, <3>1, <3>4 DEF CountInv
  <2>3. CASE Finish
    <3>1. Len(taken) = Len(group) /\ status' = "sorted" /\ UNCHANGED <<group, taken>>
      BY <2>3 DEF Finish
    <3>2. Pending = {}
      BY <2>0, <3>1, FS_EmptySet
    <3>3. Pending' = Pending
      BY <3>1 DEF Pending, Done
    <3> QED BY <2>0, <3>1, <3>2, <3>3 DEF CountInv
  <2>4. CASE UNCHANGED vars
    <3>1. Pending' = Pending /\ Blocked' = Blocked
      BY <2>4 DEF vars, Blocked, Pending, Done, Dst, Src, DstUsedAsSrc
    <3> QED BY <2>4, <3>1 DEF vars, CountInv
  <2> QED BY <2>1, <2>2, <2>3, <2>4 DEF Next
<1> QED
  BY <1>1, <1>2, TypeCorrect, PTL DEF Spec

(* The comparison of registers tells the places of a group apart: what it  *)
(* takes for the same place is the same place.  It is so when all          *)
(* destinations have registers, and when one variable has none and no      *)
(* constant is about.                                                      *)
Told(s) == \A i, j \in DOMAIN s : RegOf(s[i].dst) = RegOf(s[j].src) => s[i].dst = s[j].src

(* A group in which no move is ready is a circle, or leads into one.       *)
LEMMA BlockedIsCyclic ==
    ASSUME TypeOK, Told(group), Blocked
    PROVE  Cyclic(group)
<1>1. Pending \in SUBSET DOMAIN group /\ Pending # {}
  BY DEF Pending, Blocked
<1>2. ASSUME NEW i \in Pending
      PROVE  /\ \E j \in Pending \ {i} : group[i].dst = group[j].src
             /\ group[i].dst # group[i].src
  <2>1. PICK j \in Pending \ {i} : Dst(i) = Src(j)
    BY DEF Blocked, DstUsedAsSrc
  <2>2. Dst(i) # Src(i)
    BY DEF Blocked
  <2> QED BY <1>1, <2>1, <2>2 DEF Told, Dst, Src
<1>3. Pending \in (SUBSET DOMAIN group) \ {{}}
  BY <1>1
<1> QED
  BY <1>2, <1>3 DEF Cyclic

(* A group of one move, or of none, is in order.                           *)
LEMMA ShortIsOrdered ==
    ASSUME NEW s \in Seq(Move), Len(s) <= 1
    PROVE  \A p, q \in DOMAIN s : ~(p < q)
OBVIOUS

(* The order that was emitted holds every move of the group once.          *)
LEMMA SortedIsPermutation ==
    ASSUME TypeOK, CountInv, OrderInv, status = "sorted", DistinctTargets(group), Told(group)
    PROVE  /\ Nodes \in Seq(Move)
           /\ \A p \in DOMAIN Nodes : \E i \in DOMAIN group : Nodes[p] = group[i]
           /\ \A i \in DOMAIN group : \E p \in DOMAIN Nodes : Nodes[p] = group[i]
           /\ DistinctTargets(Nodes)
           /\ \A p, q \in DOMAIN Nodes :
                 p < q => Nodes[p].dst # Nodes[q].src \/ Nodes[p].dst = Nodes[p].src
<1>0. /\ group \in Seq(Move) /\ taken \in Seq(DOMAIN group)
      /\ Len(group) \in Nat /\ Len(taken) \in Nat
      /\ DOMAIN group = 1..Len(group) /\ DOMAIN taken = 1..Len(taken)
      /\ \A p \in DOMAIN taken : taken[p] \in DOMAIN group
      /\ \A i \in DOMAIN group : group[i] \in Move
  BY DEF TypeOK
<1>1. CASE taken = <<>> /\ Len(group) <= 1
  <2>1. \A p \in DOMAIN group : Nodes[p] = group[p]
    BY <1>0, <1>1 DEF Nodes
  <2>2. Nodes = group
    BY <1>0, <2>1 DEF Nodes
  <2> QED BY <1>0, <1>1, <2>2, ShortIsOrdered
<1>2. CASE Pending = {}
  <2>1. Len(taken) = Len(group)
    <3>1. Cardinality(Pending) = 0 /\ Cardinality(Pending) = Len(group) - Len(taken)
      BY <1>2, FS_EmptySet DEF CountInv
    <3>2. Len(group) \in Nat /\ Len(taken) \in Nat
      BY <1>0
    <3> QED BY <3>1, <3>2
  <2>2. /\ Nodes = [p \in 1..Len(group) |-> group[taken[p]]]
        /\ DOMAIN taken = DOMAIN group
    BY <1>0, <2>1 DEF Nodes
  <2>3. /\ Nodes \in Seq(Move) /\ DOMAIN Nodes = DOMAIN group
        /\ \A p \in DOMAIN Nodes : Nodes[p] = group[taken[p]] /\ taken[p] \in DOMAIN group
    <3>1. Nodes \in [1..Len(group) -> Move]
      BY <1>0, <2>2
    <3> QED BY <1>0, <2>2, <3>1, SeqDef
  <2>4. \A i \in DOMAIN group : \E p \in DOMAIN taken : taken[p] = i
    BY <1>2 DEF Pending, Done, Range
  <2>5. DistinctTargets(Nodes)
    BY <2>2, <2>3 DEF DistinctTargets, OrderInv, Once
  <2>6. ASSUME NEW p \in DOMAIN Nodes, NEW q \in DOMAIN Nodes, p < q
        PROVE  Nodes[p].dst # Nodes[q].src \/ Nodes[p].dst = Nodes[p].src
    <3>1. Dst(taken[p]) # Src(taken[q]) \/ Dst(taken[p]) = Src(taken[p])
      BY <2>2, <2>3, <2>6 DEF OrderInv, ReadsComeFirst
    <3> DEFINE a == taken[p]
               b == taken[q]
    <3>2. a \in DOMAIN group /\ b \in DOMAIN group /\ Nodes[p] = group[a] /\ Nodes[q] = group[b]
      BY <2>3
    <3> HIDE DEF a, b
    <3>3. \/ RegOf(group[a].dst) # RegOf(group[b].src)
          \/ RegOf(group[a].dst) = RegOf(group[a].src)
      BY <3>1 DEF a, b, Dst, Src
    <3>4. group[a].dst # group[b].src \/ group[a].dst = group[a].src
      BY <3>2, <3>3 DEF Told
    <3> QED BY <3>2, <3>4
  <2>7. \A p \in DOMAIN Nodes : \E i \in DOMAIN group : Nodes[p] = group[i]
    BY <2>3
  <2>8. \A i \in DOMAIN group : \E p \in DOMAIN Nodes : Nodes[p] = group[i]
    BY <2>2, <2>3, <2>4
  <2> QED BY <2>3, <2>5, <2>6, <2>7, <2>8
<1> QED
  BY <1>1, <1>2 DEF CountInv

(* Whatever the length of a group: unless its moves form a circle, what    *)
(* the pass leaves has the effect of all of them at once.                  *)
THEOREM DoesWhatPhisAsk ==
    ASSUME \A s \in Groups : DistinctTargets(s) /\ Told(s)
    PROVE  Spec => []MovesHappenAtOnce
<1>1. TypeOK /\ CountInv /\ OrderInv => MovesHappenAtOnce
  <2> SUFFICES ASSUME TypeOK, CountInv, OrderInv, status # "sorting", ~Cyclic(group)
               PROVE  Contents(Nodes) = AtOnce(group)
    BY DEF MovesHappenAtOnce
  <2>0. group \in Seq(Move) /\ DistinctTargets(group) /\ Told(group)
    BY DEF TypeOK, CountInv
  <2>1. status = "sorted"
    BY <2>0, BlockedIsCyclic DEF TypeOK, CountInv
  <2>2. /\ Nodes \in Seq(Move)
        /\ \A p \in DOMAIN Nodes : \E i \in DOMAIN group : Nodes[p] = group[i]
        /\ \A i \in DOMAIN group : \E p \in DOMAIN Nodes : Nodes[p] = group[i]
        /\ DistinctTargets(Nodes)
        /\ \A p, q \in DOMAIN Nodes :
              p < q => Nodes[p].dst # Nodes[q].src \/ Nodes[p].dst = Nodes[p].src
    BY <2>0, <2>1, SortedIsPermutation
  <2> DEFINE f == Contents(Nodes)
  <2>3. /\ f \in [Subject -> Subject]
        /\ \A p \in DOMAIN Nodes : f[Nodes[p].dst] = Nodes[p].src
        /\ \A x \in Subject : (\A p \in DOMAIN Nodes : Nodes[p].dst # x) => f[x] = x
    BY <2>2, OrderedMovesHappenAtOnce
  <2> HIDE DEF f
  <2>4. \A i \in DOMAIN group : f[group[i].dst] = group[i].src
    BY <2>2, <2>3
  <2>5. ASSUME NEW x \in Subject, \A i \in DOMAIN group : group[i].dst # x
        PROVE  f[x] = x
    <3>1. \A p \in DOMAIN Nodes : Nodes[p].dst # x
      BY <2>2, <2>5
    <3> QED BY <2>3, <3>1
  <2>6. f = AtOnce(group)
    BY <2>0, <2>3, <2>4, <2>5, AtOnceIs
  <2> QED BY <2>6 DEF f
<1> QED
  BY <1>1, TypeCorrect, CountInvariant, OrderInvariant, PTL
=============================================================================
